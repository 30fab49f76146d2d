-------------------------- MODULE LifecycleProperties --------------------------
(* What a process of the service promises from its start to its end. *)
EXTENDS Lifecycle

RequestRecord ==
  [pc : {"none", "working", "waiting", "holding", "probing", "queued", "pinging", "asking",
         "answered"},
   left : 0 .. Statements,
   database : {"", "not_configured", "ok", "unavailable"},
   taifaID : {"", "not_configured", "ok", "unavailable"},
   status : {"", "decision", "unconfigured", "error", "ok", "degraded"}]

\* Every variable has the shape the code gives it.
TypeOK ==
  /\ env \in Environments
  /\ app \in {"opening", "starting", "serving", "shutdown", "polling", "closing",
              "abandoning", "exited"}
  /\ exit \in {"none", "ok", "error", "killed"}
  /\ listener \in {"unbound", "binding", "listening", "failed", "closed"}
  /\ opened \in BOOLEAN /\ signalled \in BOOLEAN
  /\ pool \in [state : {"none", "open", "closed"}, max : Nat]
  /\ request \in [Requests -> RequestRecord]
-----------------------------------------------------------------------------
\* README "graceful shutdown": a process that reports a clean end (app.go:197) has let every
\* request finish, although the listener may fail, requests may arrive on connections kept
\* alive and the deadline may pass while it waits.
CleanExitKillsNobody == exit = "ok" => InFlight = {}

\* app.go:187-192, the order of Shutdown and Close: no request is refused by a closed pool,
\* or held up by Close, unless the listener has failed.
PoolClosesUnderNobody ==
  pool.state = "closed" /\ InFlight # {} => listener = "failed" /\ exit # "ok"

\* db.go:23-38, config.go:95: the pool has the size that was written, in the environment or
\* the DSN, or a default's, never one that a number out of range was turned into.  It is at
\* least its minimum, the DSN's where no other is set, and no more connections are in use.
PoolAsWritten ==
  pool.state # "none" =>
    /\ pool.max \in {env.maxConns.number, env.minConns.number, 1, 5,
                     DriverMaxConns, DriverMinConns}
    /\ pool.max >= 1 /\ pool.max >= cfg.minConns
    /\ cfg.minConns <= 0 => pool.max >= DriverMinConns
    /\ Cardinality(Held) <= pool.max

\* app.go:89, service.go:68: both endpoints mean the same by a configured TaifaID: where
\* authorize answers 503 for want of it, no probe reports it as anything but not_configured,
\* and where the database is missing no request gets further than an error.
ProbesAndRequestsAgree ==
  \A q \in Probes, other \in Requests \ Probes :
    request[q].pc = "answered" /\ request[other].pc = "answered" =>
      /\ request[other].status = "unconfigured" => request[q].taifaID = "not_configured"
      /\ request[other].status = "decision" => request[q].taifaID # "not_configured"
      /\ Statements > 0 /\ request[q].database = "not_configured" =>
           request[other].status = "error"
-----------------------------------------------------------------------------
\* app.go:184: from the signal on, shutdown takes no longer than its deadline, whatever the
\* database, TaifaID and the clients do: Close waits for nobody.
ShutdownEnds == app = "shutdown" ~> app = "exited"

\* app.go:77 and 95: a probe ends, although the pool may be exhausted for ever and both
\* dependencies may hang; unless the process ends first.
ProbesEnd ==
  \A q \in Probes :
    request[q].pc = "probing" ~> request[q].pc = "answered" \/ app = "exited"

\* db.go:49: startup ends if connecting has a time limit.
StartupEnds ==
  cfg.connectTimeout > 0 => (app = "opening" ~> app # "opening")

\* app.go:199: after the listener has failed, the process ends if no statement hangs; a
\* signal cannot help any more.
AbandonmentEnds ==
  (\A q \in Requests : []<>(request[q].pc # "holding"))
    => (app = "abandoning" ~> app = "exited")
-----------------------------------------------------------------------------
\* What a request's state says of the process: it got there through the pool and the
\* configuration there is.
Fits(q, r) ==
  /\ r.pc # "none" => app \notin {"opening", "starting"}
  /\ pool.state = "none" => r.pc \notin {"holding", "pinging"}
  /\ q \in Probes =>
       /\ r.pc \in {"none", "probing", "queued", "pinging", "asking", "answered"}
       /\ r.database = "not_configured" => pool.state = "none" /\ r.pc # "none"
       /\ r.pc = "answered" => (r.taifaID = "not_configured" <=> ~IsConfigured(cfg))
  /\ q \notin Probes =>
       /\ r.pc \in {"none", "working", "waiting", "holding", "answered"}
       /\ r.pc \in {"waiting", "holding"} => r.left > 0
       /\ r.pc = "answered" /\ r.status = "unconfigured" => ~IsConfigured(cfg)
       /\ r.pc = "answered" /\ r.status = "decision" => IsConfigured(cfg)
       /\ pool.state = "none" /\ Statements > 0 =>
            /\ r.pc \in {"none", "working", "answered"}
            /\ r.pc = "working" => r.left = Statements
            /\ r.pc = "answered" => r.status = "error"

ProcessInv ==
  /\ app = "closing" => InFlight = {}
  /\ exit = "ok" => app = "exited" /\ InFlight = {}
  /\ app = "opening" => pool.state = "none"
  /\ app = "abandoning" => listener = "failed"
  /\ pool.state = "closed" => app \in {"closing", "abandoning", "exited"}
  /\ pool.state = "closed" /\ app = "exited" => exit = "ok" \/ (listener = "failed" /\ exit = "error")

PoolInv ==
  pool.state # "none" => pool.max = PoolMaxConns(cfg) /\ Cardinality(Held) <= pool.max

\* The inductive invariant.
LifecycleInv ==
  TypeOK /\ ProcessInv /\ PoolInv /\ \A q \in Requests : Fits(q, request[q])
=============================================================================
