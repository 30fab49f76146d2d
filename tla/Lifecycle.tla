------------------------------ MODULE Lifecycle ------------------------------
(***************************************************************************)
(* The life of a taifa-exchange process: main, app.New, App.Run with its   *)
(* two ways out, the connection pool that all requests share, and the      *)
(* /readyz probes that compete for it.                                     *)
(*                                                                         *)
(* An authorize request is here what it takes of the pool and when it is   *)
(* over; what it decides is Exchange's.                                    *)
(***************************************************************************)
EXTENDS Settings, FiniteSets

CONSTANTS
  Requests,      \* the HTTP requests of a process
  Probes,        \* those for /readyz; the others are for the authorize endpoint
  Environments,  \* the environments the process is started in
  Statements     \* how many times an authorize request takes a connection

ASSUME LifecycleAssumption ==
  /\ Probes \subseteq Requests
  /\ Environments \subseteq Environment
  /\ Statements \in Nat
  /\ IsFiniteSet(Requests)

VARIABLES
  env,        \* the environment of the process
  app,        \* where main, New and Run are
  exit,       \* how the process ended
  listener,   \* the HTTP server's listener
  opened,     \* it has accepted connections: some may be kept alive
  signalled,  \* the context of NotifyContext is cancelled
  pool,       \* "none", "open" or "closed", and its size
  request     \* each request

vars == <<env, app, exit, listener, opened, signalled, pool, request>>

NoPool == [state |-> "none", max |-> 0]

\* left: the connections it has still to take; database, taifaID: what a probe reports.
RequestAt(pc, left) ==
  [pc |-> pc, left |-> left, database |-> "", taifaID |-> "", status |-> ""]

NoRequest == RequestAt("none", 0)

Init ==
  /\ env \in Environments
  /\ app = "opening" /\ exit = "none"
  /\ listener = "unbound" /\ opened = FALSE /\ signalled = FALSE
  /\ pool = NoPool /\ request = [q \in Requests |-> NoRequest]

InFlight == {q \in Requests : request[q].pc \notin {"none", "answered"}}

\* What Load returns.
cfg == Config(env)

\* The requests that hold a connection.
Held == {q \in Requests : request[q].pc \in {"holding", "pinging"}}
-----------------------------------------------------------------------------
(* main and New. *)

Goto(here, there) == app = here /\ app' = there

\* The process ends as it is: requests in flight die with it, the server rolls back.
ExitAs(status) == app' = "exited" /\ exit' = status

\* No DSN, no pool.
NewWithoutDatabase ==
  /\ ~cfg.dsn /\ Goto("opening", "starting")
  /\ UNCHANGED <<env, exit, listener, opened, signalled, pool, request>>

Open ==
  /\ cfg.dsn /\ Goto("opening", "starting")
  /\ pool' = [state |-> "open", max |-> PoolMaxConns(cfg)]
  /\ UNCHANGED <<env, exit, listener, opened, signalled, request>>

\* The DSN or the pool's settings are refused, or the ping fails; Open closes its pool.
OpenFails ==
  /\ cfg.dsn /\ app = "opening" /\ ExitAs("error")
  /\ UNCHANGED <<env, listener, opened, signalled, pool, request>>

\* Variant: the test of the setting is turned round.
OpenTimesOutUnlessSet == cfg.connectTimeout <= 0 /\ OpenFails

\* The ping has a time limit only if the setting is positive: New's context has none.
OpenTimesOut == cfg.connectTimeout > 0 /\ OpenFails

\* NotifyContext, Run, and the goroutine of ListenAndServe.
Start ==
  /\ Goto("starting", "serving") /\ listener' = "binding"
  /\ UNCHANGED <<env, exit, opened, signalled, pool, request>>

\* Before NotifyContext a signal ends the process; afterwards it cancels the context, and
\* any further one is swallowed.
Signal ==
  \/ /\ app \in {"opening", "starting"} /\ ExitAs("killed")
     /\ UNCHANGED <<env, listener, opened, signalled, pool, request>>
  \/ /\ app \notin {"opening", "starting", "exited"} /\ ~signalled /\ signalled' = TRUE
     /\ UNCHANGED <<env, app, exit, listener, opened, pool, request>>
-----------------------------------------------------------------------------
(* The HTTP server. *)

Listen ==
  /\ app # "exited" /\ listener = "binding"
  /\ listener' = "listening" /\ opened' = TRUE
  /\ UNCHANGED <<env, app, exit, signalled, pool, request>>

\* The address is in use, or Accept fails later.
ListenerFails ==
  /\ app # "exited" /\ listener \in {"binding", "listening"} /\ listener' = "failed"
  /\ UNCHANGED <<env, app, exit, opened, signalled, pool, request>>

\* A connection that was accepted may bring requests until Shutdown has closed it, which it
\* does while no request is on it.
Arrive(q) ==
  /\ opened /\ app \in {"serving", "shutdown", "polling", "abandoning"}
  /\ request[q] = NoRequest
  /\ request' = [request EXCEPT ![q] =
       IF q \in Probes THEN RequestAt("probing", 0) ELSE RequestAt("working", Statements)]
  /\ UNCHANGED <<env, app, exit, listener, opened, signalled, pool>>
-----------------------------------------------------------------------------
(* Run's two ways out. *)

Close == pool' = IF pool.state = "open" THEN [pool EXCEPT !.state = "closed"] ELSE pool

\* Variant: the pool is closed when the signal comes.
ShutdownClosingFirst ==
  /\ app = "serving" /\ signalled
  /\ app' = "shutdown" /\ listener' = IF listener = "failed" THEN listener ELSE "closed"
  /\ Close
  /\ UNCHANGED <<env, exit, opened, signalled, request>>

\* Shutdown closes the listener, also one that has not been bound yet.
Shutdown ==
  /\ app = "serving" /\ signalled
  /\ app' = "shutdown" /\ listener' = IF listener = "failed" THEN listener ELSE "closed"
  /\ UNCHANGED <<env, exit, opened, signalled, pool, request>>

\* It finds no request on any connection, closes them, and returns nil even if its time is
\* up; Run closes the pool.
FindIdle ==
  /\ app \in {"shutdown", "polling"} /\ InFlight = {}
  /\ app' = "closing" /\ Close
  /\ UNCHANGED <<env, exit, listener, opened, signalled, request>>

\* It finds one busy, or too new to tell, and looks again later.
FindBusy ==
  /\ Goto("shutdown", "polling")
  /\ UNCHANGED <<env, exit, listener, opened, signalled, pool, request>>

\* Variant: an error of Shutdown is logged, and Run returns nil.
ShutdownTimesOutUnnoticed ==
  /\ app = "polling" /\ ExitAs("ok")
  /\ UNCHANGED <<env, listener, opened, signalled, pool, request>>

\* Variant: Shutdown has no deadline, and returns only when nothing is in flight.
ShutdownWaits == app = "polling" /\ InFlight = {} /\ FindIdle

\* SHUTDOWN_TIMEOUT passes: Run returns the error and leaves the pool open.
ShutdownTimesOut ==
  /\ app = "polling" /\ ExitAs("error")
  /\ UNCHANGED <<env, listener, opened, signalled, pool, request>>

\* The listener's error: the pool is closed at once, under whatever is in flight.
Abandon ==
  /\ Goto("serving", "abandoning") /\ listener = "failed" /\ Close
  /\ UNCHANGED <<env, exit, listener, opened, signalled, request>>

\* Variant: Close waits for the requests and not for their connections.
CloseReturnsLast ==
  /\ InFlight = {}
  /\ \/ app = "closing" /\ ExitAs("ok")
     \/ app = "abandoning" /\ ExitAs("error")
  /\ UNCHANGED <<env, listener, opened, signalled, pool, request>>

\* Pool.Close returns when every connection has been given back, and main ends.
CloseReturns ==
  /\ Held = {}
  /\ \/ app = "closing" /\ ExitAs("ok")
     \/ app = "abandoning" /\ ExitAs("error")
  /\ UNCHANGED <<env, listener, opened, signalled, pool, request>>
-----------------------------------------------------------------------------
(* Requests and the pool. *)

\* A request takes a step of its own while the process lives.
Runs(q, here) == app # "exited" /\ request[q].pc = here

Becomes(q, new) ==
  /\ request' = [request EXCEPT ![q] = new]
  /\ UNCHANGED <<env, app, exit, listener, opened, signalled, pool>>

Answer(q, status) == Becomes(q, [request[q] EXCEPT !.pc = "answered", !.status = status])

MayAcquire == pool.state = "open" /\ Cardinality(Held) < pool.max

\* Variant: a connection is taken once more than it is counted.
WantConnectionAgain(q) ==
  /\ Runs(q, "working")
  /\ IF pool.state = "none" THEN Answer(q, "error")
     ELSE Becomes(q, [request[q] EXCEPT !.pc = "waiting"])

\* The authorize endpoint: without a database neither a decision nor a denial is recorded.
WantConnection(q) ==
  /\ Runs(q, "working") /\ request[q].left > 0
  /\ IF pool.state = "none" THEN Answer(q, "error")
     ELSE Becomes(q, [request[q] EXCEPT !.pc = "waiting"])

Acquire(q) ==
  /\ Runs(q, "waiting") /\ MayAcquire
  /\ Becomes(q, [request[q] EXCEPT !.pc = "holding"])

\* The pool is closed or cannot connect, or the client has left.
AcquireFails(q) ==
  /\ Runs(q, "waiting") /\ Answer(q, "error")

\* A statement or transaction is over, and the connection given back; nothing but the
\* client's patience limits its time.
Release(q) ==
  /\ Runs(q, "holding")
  /\ \/ Becomes(q, [request[q] EXCEPT !.pc = "working", !.left = @ - 1])
     \/ Answer(q, "error")

\* The decision, or the denial for want of TaifaID.
Finish(q) ==
  /\ Runs(q, "working") /\ request[q].left = 0
  /\ Answer(q, IF IsConfigured(cfg) THEN "decision" ELSE "unconfigured")
-----------------------------------------------------------------------------
(* /readyz. *)

\* The database is asked first, if there is one.
Probe(q) ==
  /\ Runs(q, "probing")
  /\ IF pool.state = "none"
       THEN Becomes(q, [request[q] EXCEPT !.pc = "asking", !.database = "not_configured"])
       ELSE Becomes(q, [request[q] EXCEPT !.pc = "queued"])

Ping(q) ==
  /\ Runs(q, "queued") /\ MayAcquire
  /\ Becomes(q, [request[q] EXCEPT !.pc = "pinging"])

PingAnswered(q) ==
  /\ Runs(q, "pinging")
  /\ Becomes(q, [request[q] EXCEPT !.pc = "asking", !.database = "ok"])

\* An error of the database.
PingFails(q) ==
  /\ Runs(q, "pinging")
  /\ Becomes(q, [request[q] EXCEPT !.pc = "asking", !.database = "unavailable"])

\* Variant: the ping has the request's context only, and ends early on a closed pool.
PingWaits(q) ==
  /\ Runs(q, "queued") /\ pool.state = "closed"
  /\ Becomes(q, [request[q] EXCEPT !.pc = "asking", !.database = "unavailable"])

\* Two seconds are over, also while waiting for a connection; or the pool is closed, or
\* cannot connect.
PingTimesOut(q) ==
  /\ Runs(q, "queued") \/ Runs(q, "pinging")
  /\ Becomes(q, [request[q] EXCEPT !.pc = "asking", !.database = "unavailable"])

\* What readyz answers: 200 or 503.
ProbeStatus(database, taifaID) ==
  IF "unavailable" \in {database, taifaID} THEN "degraded" ELSE "ok"

Report(q, taifaID) ==
  Becomes(q, [request[q] EXCEPT !.pc = "answered", !.taifaID = taifaID,
                                !.status = ProbeStatus(request[q].database, taifaID)])

\* Variant: a dependency counts as ok until it fails.
ReadyUnaskedAsOk(q) == Runs(q, "asking") /\ ~IsConfigured(cfg) /\ Report(q, "ok")

\* A client of New's without an address is as good as none.
ReadyUnasked(q) == Runs(q, "asking") /\ ~IsConfigured(cfg) /\ Report(q, "not_configured")

\* Ready: 200 with a body whose status is "ok".
ReadyAnswered(q) == Runs(q, "asking") /\ IsConfigured(cfg) /\ Report(q, "ok")

\* Any other answer, an error, or the timeout.
ReadyFails(q) == Runs(q, "asking") /\ IsConfigured(cfg) /\ Report(q, "unavailable")
-----------------------------------------------------------------------------
\* The steps of main and Run that wait for nobody.
Proceed == NewWithoutDatabase \/ Start \/ Shutdown \/ FindIdle \/ FindBusy \/ Abandon
           \/ CloseReturns

\* What the handlers do by themselves, their timers included.
Handle(q) == \/ WantConnection(q) \/ Acquire(q) \/ Finish(q)
             \/ Probe(q) \/ Ping(q) \/ PingTimesOut(q) \/ ReadyUnasked(q) \/ ReadyFails(q)

\* What the database, TaifaID and clients may do, or may not.
Outside(q) == \/ Arrive(q) \/ AcquireFails(q) \/ Release(q)
              \/ PingAnswered(q) \/ PingFails(q) \/ ReadyAnswered(q)

Terminated == app = "exited" /\ UNCHANGED vars

Next == \/ Proceed \/ Open \/ OpenFails \/ OpenTimesOut \/ ShutdownTimesOut
        \/ Signal \/ Listen \/ ListenerFails
        \/ \E q \in Requests : Handle(q) \/ Outside(q)
        \/ Terminated

Spec == Init /\ [][Next]_vars

\* The process is scheduled and its timers fire; the database, TaifaID and the clients may
\* hang for ever.
FairSpec ==
  /\ Spec /\ WF_vars(Proceed) /\ WF_vars(OpenTimesOut) /\ WF_vars(ShutdownTimesOut)
  /\ \A q \in Requests : WF_vars(Handle(q))
=============================================================================
