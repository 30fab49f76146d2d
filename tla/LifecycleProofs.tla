---------------------------- MODULE LifecycleProofs ----------------------------
(***************************************************************************)
(* Proofs about a process of the service, for any number of requests and   *)
(* probes, any settings and any size of the pool.                          *)
(***************************************************************************)
EXTENDS LifecycleProperties, FiniteSetTheorems, TLAPS

(* Settings. *)

LEMMA SettingsTyped ==
  ASSUME NEW e \in Environment
  PROVE  /\ e.minConns \in Setting /\ e.maxConns \in Setting
         /\ EnvInt32(e.minConns, 1) \in Int /\ EnvInt32(e.maxConns, 5) \in Int
BY DEF Environment, Setting, EnvInt32

\* The pool is at least as large as the minimum in force and can serve a request.
LEMMA PoolMaxType ==
  ASSUME env \in Environment
  PROVE  /\ PoolMaxConns(cfg) \in Nat
         /\ PoolMaxConns(cfg) >= 1 /\ PoolMaxConns(cfg) >= cfg.minConns
         /\ cfg.minConns <= 0 => PoolMaxConns(cfg) >= DriverMinConns
<1>1. cfg.minConns \in Int /\ cfg.maxConns \in Int
  BY SettingsTyped DEF cfg, Config
<1>2. DriverMaxConns \in Nat /\ DriverMaxConns >= 1 /\ DriverMinConns \in Int
  BY SettingsAssumption
<1> HIDE DEF cfg
<1> QED
  BY <1>1, <1>2 DEF PoolMinConns, PoolMaxConns

\* Its size is a number that was written, or a default.
LEMMA PoolMaxWritten ==
  ASSUME env \in Environment
  PROVE  PoolMaxConns(cfg) \in {env.maxConns.number, env.minConns.number, 1, 5,
                                DriverMaxConns, DriverMinConns}
<1>1. cfg.minConns \in {env.minConns.number, 1} /\ cfg.maxConns \in {env.maxConns.number, 5}
  BY DEF cfg, Config, EnvInt32
<1>2. /\ cfg.minConns \in Int /\ cfg.maxConns \in Int
      /\ DriverMaxConns \in Nat /\ DriverMaxConns >= 1 /\ DriverMinConns \in Int
  BY SettingsTyped, SettingsAssumption DEF cfg, Config
<1>3. PoolMaxConns(cfg) \in {cfg.maxConns, cfg.minConns, DriverMaxConns, DriverMinConns}
  <2> HIDE DEF cfg
  <2> QED
    BY <1>2 DEF PoolMaxConns, PoolMinConns
<1> HIDE DEF cfg
<1> QED
  BY <1>1, <1>3
-----------------------------------------------------------------------------
(* The requests that hold a connection. *)

LEMMA HeldFinite == IsFiniteSet(Held) /\ Cardinality(Held) \in Nat
<1>1. IsFiniteSet(Requests) /\ Held \subseteq Requests
  BY LifecycleAssumption DEF Held
<1> QED
  BY <1>1, FS_Subset, FS_CardinalityType

\* A request that takes a connection, or none, leaves room in the pool.
LEMMA HeldAfter ==
  ASSUME TypeOK, NEW q \in Requests, NEW new \in RequestRecord,
         request' = [request EXCEPT ![q] = new],
         Cardinality(Held) <= pool.max,
         new.pc \in {"holding", "pinging"} => q \in Held \/ Cardinality(Held) < pool.max
  PROVE  Cardinality(Held') <= pool.max
<1>1. pool.max \in Nat /\ request'[q] = new /\ \A s \in Requests \ {q} : request'[s] = request[s]
  BY DEF TypeOK
<1>2. CASE new.pc \in {"holding", "pinging"} /\ q \notin Held
  <2>1. Held' \subseteq Held \cup {q}
    BY <1>1 DEF Held
  <2>2. IsFiniteSet(Held \cup {q}) /\ Cardinality(Held \cup {q}) = Cardinality(Held) + 1
    BY <1>2, HeldFinite, FS_AddElement
  <2>3. Cardinality(Held') <= Cardinality(Held) + 1 /\ Cardinality(Held') \in Nat
    BY <2>1, <2>2, FS_Subset, FS_CardinalityType
  <2> QED
    BY <1>1, <1>2, <2>3, HeldFinite
<1>3. CASE new.pc \notin {"holding", "pinging"} \/ q \in Held
  <2>1. Held' \subseteq Held
    BY <1>1, <1>3 DEF Held
  <2>2. Cardinality(Held') <= Cardinality(Held) /\ Cardinality(Held') \in Nat
    BY <2>1, HeldFinite, FS_Subset, FS_CardinalityType
  <2> QED
    BY <1>1, <2>2, HeldFinite
<1> QED
  BY <1>2, <1>3
-----------------------------------------------------------------------------
(* The steps of main and Run. *)

LEMMA RequestsUntouched ==
  ASSUME LifecycleInv, UNCHANGED <<env, request>>,
         app' \in {"opening", "starting"} => app \in {"opening", "starting"},
         (pool'.state = "none" <=> pool.state = "none")
           \/ (app \in {"opening", "starting"} /\ pool.state = "none")
  PROVE  \A q \in Requests : Fits(q, request[q])'
<1> SUFFICES ASSUME NEW q \in Requests PROVE Fits(q, request[q])'
  OBVIOUS
<1>1. Fits(q, request[q]) /\ request'[q] = request[q] /\ cfg' = cfg
  BY DEF LifecycleInv, cfg
<1>2. CASE pool'.state = "none" <=> pool.state = "none"
  BY <1>1, <1>2 DEF Fits
<1>3. CASE app \in {"opening", "starting"} /\ pool.state = "none"
  <2>1. request[q].pc = "none"
    BY <1>1, <1>3 DEF Fits
  <2> QED
    BY <1>1, <1>3, <2>1 DEF Fits
<1> QED
  BY <1>2, <1>3

LEMMA PoolUntouched ==
  ASSUME LifecycleInv, UNCHANGED <<env, request>>, pool'.state # "none" => pool.state # "none",
         pool'.max = pool.max
  PROVE  PoolInv'
BY DEF LifecycleInv, PoolInv, Held, cfg

\* Closing changes nothing but the pool's state.
LEMMA CloseType ==
  ASSUME TypeOK, Close
  PROVE  /\ pool' \in [state : {"none", "open", "closed"}, max : Nat]
         /\ pool'.max = pool.max /\ (pool'.state = "none" <=> pool.state = "none")
         /\ pool'.state # "open"
BY DEF TypeOK, Close

LEMMA OpenStep == ASSUME LifecycleInv, Open PROVE LifecycleInv'
<1> USE DEF Open, Goto
<1>1. env \in Environment /\ cfg' = cfg
  BY LifecycleAssumption DEF LifecycleInv, TypeOK, cfg
<1>2. TypeOK'
  BY <1>1, PoolMaxType DEF LifecycleInv, TypeOK
<1>3. \A q \in Requests : Fits(q, request[q])'
  BY RequestsUntouched DEF LifecycleInv, ProcessInv
<1>4. InFlight = {} /\ Held = {}
  BY DEF LifecycleInv, Fits, ProcessInv, InFlight, Held
<1>5. ProcessInv'
  BY <1>4 DEF LifecycleInv, ProcessInv, InFlight
<1>6. PoolInv'
  <2>1. Held' = {} /\ Cardinality({}) = 0
    BY <1>4, FS_EmptySet DEF Held
  <2> QED
    BY <1>1, <2>1, PoolMaxType DEF PoolInv
<1> QED
  BY <1>2, <1>3, <1>5, <1>6 DEF LifecycleInv

\* The steps that leave pool and requests alone.
LEMMA ProcessSteps ==
  ASSUME LifecycleInv,
         \/ NewWithoutDatabase \/ OpenFails \/ OpenTimesOut \/ Start \/ Signal \/ Listen
         \/ ListenerFails \/ Shutdown \/ FindBusy \/ ShutdownTimesOut \/ CloseReturns
         \/ UNCHANGED vars
  PROVE  LifecycleInv'
<1>1. /\ UNCHANGED <<env, pool, request>>
      /\ app' \in {"opening", "starting"} => app \in {"opening", "starting"}
  BY DEF NewWithoutDatabase, OpenFails, OpenTimesOut, Start, Signal, Listen, ListenerFails,
         Shutdown, FindBusy, ShutdownTimesOut, CloseReturns, Goto, ExitAs, vars
<1>2. TypeOK'
  <2>1. TypeOK
    BY DEF LifecycleInv
  <2>2. CASE NewWithoutDatabase \/ Start \/ FindBusy \/ Listen \/ ListenerFails
    BY <2>1, <2>2 DEF TypeOK, NewWithoutDatabase, Start, FindBusy, Listen, ListenerFails, Goto
  <2>3. CASE OpenFails \/ OpenTimesOut \/ ShutdownTimesOut \/ CloseReturns
    BY <2>1, <2>3 DEF TypeOK, OpenFails, OpenTimesOut, ShutdownTimesOut, CloseReturns, ExitAs
  <2>4. CASE Signal
    BY <2>1, <2>4 DEF TypeOK, Signal, ExitAs
  <2>5. CASE Shutdown \/ UNCHANGED vars
    BY <2>1, <2>5 DEF TypeOK, Shutdown, vars
  <2> QED
    BY <2>2, <2>3, <2>4, <2>5
<1>3. \A q \in Requests : Fits(q, request[q])'
  BY <1>1, RequestsUntouched
<1>4. PoolInv'
  BY <1>1, PoolUntouched
<1>5. ProcessInv'
  <2> USE DEF LifecycleInv, ProcessInv, InFlight, Goto, ExitAs, TypeOK
  <2>1. CASE NewWithoutDatabase
    BY <2>1 DEF NewWithoutDatabase
  <2>2. CASE OpenFails \/ OpenTimesOut
    BY <2>2 DEF OpenFails, OpenTimesOut
  <2>3. CASE Start
    BY <2>3 DEF Start
  <2>4. CASE Signal
    BY <2>4 DEF Signal
  <2>5. CASE Listen \/ ListenerFails
    BY <2>5 DEF Listen, ListenerFails
  <2>6. CASE Shutdown
    BY <2>6 DEF Shutdown
  <2>7. CASE FindBusy \/ ShutdownTimesOut
    BY <2>7 DEF FindBusy, ShutdownTimesOut
  <2>8. CASE CloseReturns
    BY <2>8 DEF CloseReturns
  <2>9. CASE UNCHANGED vars
    BY <2>9 DEF vars
  <2> QED
    BY <2>1, <2>2, <2>3, <2>4, <2>5, <2>6, <2>7, <2>8, <2>9
<1> QED
  BY <1>2, <1>3, <1>4, <1>5 DEF LifecycleInv

LEMMA ClosingSteps ==
  ASSUME LifecycleInv, FindIdle \/ Abandon PROVE LifecycleInv'
<1>1. Close /\ UNCHANGED <<env, exit, listener, opened, signalled, request>>
      /\ app' \in {"closing", "abandoning"}
  BY DEF FindIdle, Abandon, Goto
<1>2. TypeOK'
  BY <1>1, CloseType DEF LifecycleInv, TypeOK
<1>3. \A q \in Requests : Fits(q, request[q])'
  BY <1>1, CloseType, RequestsUntouched DEF LifecycleInv
<1>4. PoolInv'
  BY <1>1, CloseType, PoolUntouched DEF LifecycleInv
<1>5. ProcessInv'
  <2>1. CASE FindIdle
    BY <1>1, <2>1 DEF FindIdle, LifecycleInv, ProcessInv, InFlight
  <2>2. CASE Abandon
    BY <1>1, <2>2 DEF Abandon, Goto, LifecycleInv, ProcessInv, InFlight
  <2> QED
    BY <2>1, <2>2
<1> QED
  BY <1>2, <1>3, <1>4, <1>5 DEF LifecycleInv
-----------------------------------------------------------------------------
(* The steps of requests. *)

\* A request that becomes something fitting, within the pool's size.
LEMMA BecomesStep ==
  ASSUME LifecycleInv, NEW q \in Requests, NEW new \in RequestRecord, Becomes(q, new),
         Fits(q, new), app \in {"serving", "shutdown", "polling", "abandoning"},
         new.pc \in {"holding", "pinging"} => q \in Held \/ MayAcquire
  PROVE  LifecycleInv'
<1>1. /\ request' = [request EXCEPT ![q] = new]
      /\ UNCHANGED <<env, app, exit, listener, opened, signalled, pool>>
  BY DEF Becomes
<1>2. TypeOK'
  BY <1>1 DEF LifecycleInv, TypeOK
<1>3. ASSUME NEW s \in Requests PROVE Fits(s, request[s])'
  <2>1. request'[s] = IF s = q THEN new ELSE request[s]
    BY <1>1 DEF LifecycleInv, TypeOK
  <2>2. Fits(s, request'[s])
    BY <2>1 DEF LifecycleInv
  <2> QED
    BY <1>1, <2>2 DEF Fits, cfg
<1>4. PoolInv'
  <2>1. SUFFICES ASSUME pool.state # "none"
                 PROVE  pool.max = PoolMaxConns(cfg) /\ Cardinality(Held') <= pool.max
    BY <1>1 DEF PoolInv, cfg
  <2>2. Cardinality(Held) <= pool.max /\ pool.max = PoolMaxConns(cfg)
    BY <2>1 DEF LifecycleInv, PoolInv
  <2> QED
    BY <1>1, <2>2, HeldAfter DEF LifecycleInv, MayAcquire
<1>5. ProcessInv'
  BY <1>1 DEF LifecycleInv, ProcessInv
<1> QED
  BY <1>2, <1>3, <1>4, <1>5 DEF LifecycleInv

\* A handler runs only where connections are served or nobody waits for it any more.
LEMMA RunningProcess ==
  ASSUME LifecycleInv, NEW q \in Requests, NEW here, here \notin {"none", "answered"},
         Runs(q, here)
  PROVE  /\ app \in {"serving", "shutdown", "polling", "abandoning"}
         /\ request[q] \in RequestRecord /\ request[q].pc = here /\ Fits(q, request[q])
<1>1. Fits(q, request[q]) /\ request[q].pc = here /\ q \in InFlight /\ app # "exited"
  BY DEF LifecycleInv, Runs, InFlight
<1>2. app \notin {"opening", "starting", "closing"}
  BY <1>1 DEF Fits, LifecycleInv, ProcessInv
<1> QED
  BY <1>1, <1>2 DEF LifecycleInv, TypeOK

LEMMA ArriveStep ==
  ASSUME LifecycleInv, NEW q \in Requests, Arrive(q) PROVE LifecycleInv'
<1> DEFINE probe == RequestAt("probing", 0)
           authorization == RequestAt("working", Statements)
<1>0. /\ app \in {"serving", "shutdown", "polling", "abandoning"}
      /\ 0 \in 0 .. Statements /\ Statements \in 0 .. Statements
  BY LifecycleAssumption DEF Arrive
<1>1. CASE q \in Probes
  <2>1. Becomes(q, probe)
    BY <1>1 DEF Arrive, Becomes
  <2>2. probe \in RequestRecord /\ probe.pc = "probing"
    BY <1>0 DEF RequestAt, RequestRecord
  <2>3. Fits(q, probe)
    BY <1>0, <1>1 DEF Fits, RequestAt
  <2> HIDE DEF probe
  <2> QED
    BY <1>0, <2>1, <2>2, <2>3, BecomesStep
<1>2. CASE q \notin Probes
  <2>1. Becomes(q, authorization)
    BY <1>2 DEF Arrive, Becomes
  <2>2. authorization \in RequestRecord /\ authorization.pc = "working"
    BY <1>0 DEF RequestAt, RequestRecord
  <2>3. Fits(q, authorization)
    BY <1>0, <1>2 DEF Fits, RequestAt
  <2> HIDE DEF authorization
  <2> QED
    BY <1>0, <2>1, <2>2, <2>3, BecomesStep
<1> QED
  BY <1>1, <1>2

LEMMA AnswerStep ==
  ASSUME LifecycleInv, NEW q \in Requests \ Probes, Answer(q, "error"),
         Runs(q, "working") \/ Runs(q, "waiting") \/ Runs(q, "holding")
  PROVE  LifecycleInv'
<1> DEFINE new == [request[q] EXCEPT !.pc = "answered", !.status = "error"]
<1>1. /\ app \in {"serving", "shutdown", "polling", "abandoning"}
      /\ request[q] \in RequestRecord /\ Fits(q, request[q])
  BY RunningProcess
<1>2. new \in RequestRecord /\ new.pc = "answered" /\ new.status = "error"
  BY <1>1 DEF RequestRecord
<1>3. Fits(q, new)
  BY <1>1, <1>2 DEF Fits
<1>4. Becomes(q, new)
  BY DEF Answer
<1> HIDE DEF new
<1> QED
  BY <1>1, <1>2, <1>3, <1>4, BecomesStep

\* A request of one endpoint never takes a step of the other's.
LEMMA EndpointOf ==
  ASSUME LifecycleInv, NEW q \in Requests
  PROVE  /\ request[q].pc \in {"working", "waiting", "holding"} => q \notin Probes
         /\ request[q].pc \in {"probing", "queued", "pinging", "asking"} => q \in Probes
BY DEF LifecycleInv, Fits

LEMMA AuthorizeSteps ==
  ASSUME LifecycleInv, NEW q \in Requests,
         WantConnection(q) \/ Acquire(q) \/ AcquireFails(q) \/ Release(q) \/ Finish(q)
  PROVE  LifecycleInv'
<1>1. Runs(q, "working") \/ Runs(q, "waiting") \/ Runs(q, "holding")
  BY DEF WantConnection, Acquire, AcquireFails, Release, Finish
<1>2. /\ app \in {"serving", "shutdown", "polling", "abandoning"} /\ q \notin Probes
      /\ request[q] \in RequestRecord /\ Fits(q, request[q])
      /\ request[q].pc \in {"working", "waiting", "holding"}
  BY <1>1, RunningProcess, EndpointOf DEF Runs
<1>3. CASE Answer(q, "error")
  BY <1>1, <1>2, <1>3, AnswerStep
<1>4. CASE WantConnection(q) /\ ~Answer(q, "error")
  <2> DEFINE new == [request[q] EXCEPT !.pc = "waiting"]
  <2>1. Becomes(q, new) /\ pool.state # "none"
    BY <1>4 DEF WantConnection
  <2>2. request[q].left > 0
    BY <1>4 DEF WantConnection
  <2>3. new \in RequestRecord /\ new.pc = "waiting" /\ Fits(q, new)
    BY <1>2, <2>1, <2>2 DEF RequestRecord, Fits
  <2> HIDE DEF new
  <2> QED
    BY <1>2, <2>1, <2>3, BecomesStep
<1>5. CASE Acquire(q)
  <2> DEFINE new == [request[q] EXCEPT !.pc = "holding"]
  <2>1. Becomes(q, new) /\ MayAcquire /\ pool.state # "none"
    BY <1>5 DEF Acquire, MayAcquire
  <2>2. request[q].pc = "waiting"
    BY <1>5 DEF Acquire, Runs
  <2>3. new \in RequestRecord /\ Fits(q, new)
    BY <1>2, <2>1, <2>2 DEF RequestRecord, Fits
  <2> HIDE DEF new
  <2> QED
    BY <1>2, <2>1, <2>3, BecomesStep
<1>6. CASE Release(q) /\ ~Answer(q, "error")
  <2> DEFINE new == [request[q] EXCEPT !.pc = "working", !.left = request[q].left - 1]
  <2>1. Becomes(q, new) /\ request[q].pc = "holding"
    BY <1>6 DEF Release, Runs
  <2>2. pool.state # "none" /\ request[q].left > 0
    BY <1>2, <2>1 DEF Fits
  <2>3. request[q].left - 1 \in 0 .. Statements
    <3>1. request[q].left \in 0 .. Statements /\ Statements \in Nat
      BY <1>2, LifecycleAssumption, Zenon DEF RequestRecord
    <3> DEFINE left == request[q].left
    <3>2. left \in 0 .. Statements /\ left > 0
      BY <2>2, <3>1
    <3> HIDE DEF left
    <3>3. left - 1 \in 0 .. Statements
      BY <3>1, <3>2
    <3> QED
      BY <3>3 DEF left
  <2>4. new \in RequestRecord /\ new.pc = "working"
    BY <1>2, <2>3 DEF RequestRecord
  <2>5. Fits(q, new)
    BY <1>2, <2>2, <2>4 DEF Fits
  <2> HIDE DEF new
  <2> QED
    BY <1>2, <2>1, <2>4, <2>5, BecomesStep
<1>7. CASE Finish(q)
  <2> DEFINE status == IF IsConfigured(cfg) THEN "decision" ELSE "unconfigured"
             new == [request[q] EXCEPT !.pc = "answered", !.status = status]
  <2>1. Becomes(q, new) /\ request[q].pc = "working" /\ request[q].left = 0
    BY <1>7 DEF Finish, Answer, Runs
  <2>2. new \in RequestRecord /\ new.pc = "answered" /\ new.status = status
    BY <1>2 DEF RequestRecord
  <2>3. ~(pool.state = "none" /\ Statements > 0)
    BY <1>2, <2>1 DEF Fits
  <2>4. Fits(q, new)
    BY <1>2, <2>2, <2>3 DEF Fits
  <2> HIDE DEF new, status
  <2> QED
    BY <1>2, <2>1, <2>2, <2>4, BecomesStep
<1> QED
  BY <1>3, <1>4, <1>5, <1>6, <1>7 DEF WantConnection, Acquire, AcquireFails, Release, Finish

LEMMA ProbeSteps ==
  ASSUME LifecycleInv, NEW q \in Requests,
         \/ Probe(q) \/ Ping(q) \/ PingAnswered(q) \/ PingFails(q) \/ PingTimesOut(q)
         \/ ReadyUnasked(q) \/ ReadyAnswered(q) \/ ReadyFails(q)
  PROVE  LifecycleInv'
<1>1. \/ Runs(q, "probing") \/ Runs(q, "queued") \/ Runs(q, "pinging") \/ Runs(q, "asking")
  BY DEF Probe, Ping, PingAnswered, PingFails, PingTimesOut, ReadyUnasked, ReadyAnswered,
         ReadyFails
<1>2. /\ app \in {"serving", "shutdown", "polling", "abandoning"} /\ q \in Probes
      /\ request[q] \in RequestRecord /\ Fits(q, request[q])
      /\ request[q].pc \in {"probing", "queued", "pinging", "asking"}
  BY <1>1, RunningProcess, EndpointOf DEF Runs
<1>3. CASE Probe(q)
  <2> DEFINE unasked == [request[q] EXCEPT !.pc = "asking", !.database = "not_configured"]
             queued == [request[q] EXCEPT !.pc = "queued"]
  <2>1. unasked \in RequestRecord /\ unasked.pc = "asking" /\ queued \in RequestRecord
        /\ queued.pc = "queued"
    BY <1>2 DEF RequestRecord
  <2>2. CASE pool.state = "none"
    <3>1. Becomes(q, unasked) /\ Fits(q, unasked)
      BY <1>2, <1>3, <2>2 DEF Probe, Fits, RequestRecord
    <3> HIDE DEF unasked
    <3> QED
      BY <1>2, <2>1, <3>1, BecomesStep
  <2>3. CASE pool.state # "none"
    <3>1. Becomes(q, queued) /\ Fits(q, queued)
      BY <1>2, <1>3, <2>3 DEF Probe, Fits, RequestRecord
    <3> HIDE DEF queued
    <3> QED
      BY <1>2, <2>1, <3>1, BecomesStep
  <2> QED
    BY <2>2, <2>3
<1>4. CASE Ping(q)
  <2> DEFINE new == [request[q] EXCEPT !.pc = "pinging"]
  <2>1. Becomes(q, new) /\ MayAcquire /\ pool.state # "none"
    BY <1>4 DEF Ping, MayAcquire
  <2>2. new \in RequestRecord /\ Fits(q, new)
    BY <1>2, <2>1 DEF RequestRecord, Fits
  <2> HIDE DEF new
  <2> QED
    BY <1>2, <2>1, <2>2, BecomesStep
<1>5. CASE PingAnswered(q) \/ PingFails(q) \/ PingTimesOut(q)
  <2>1. PICK database \in {"ok", "unavailable"} :
          Becomes(q, [request[q] EXCEPT !.pc = "asking", !.database = database])
    BY <1>5 DEF PingAnswered, PingFails, PingTimesOut
  <2> DEFINE new == [request[q] EXCEPT !.pc = "asking", !.database = database]
  <2>2. new \in RequestRecord /\ new.pc = "asking" /\ Fits(q, new)
    BY <1>2 DEF RequestRecord, Fits
  <2>3. Becomes(q, new)
    BY <2>1
  <2> HIDE DEF new
  <2> QED
    BY <1>2, <2>2, <2>3, BecomesStep
<1>6. CASE ReadyUnasked(q) \/ ReadyAnswered(q) \/ ReadyFails(q)
  <2>1. PICK taifaID \in {"not_configured", "ok", "unavailable"} :
          Report(q, taifaID) /\ (taifaID = "not_configured" <=> ~IsConfigured(cfg))
    BY <1>6 DEF ReadyUnasked, ReadyAnswered, ReadyFails
  <2> DEFINE status == ProbeStatus(request[q].database, taifaID)
             new == [request[q] EXCEPT !.pc = "answered", !.taifaID = taifaID,
                                       !.status = status]
  <2>2. status \in {"ok", "degraded"}
    BY DEF ProbeStatus
  <2>3. Becomes(q, new)
    BY <2>1 DEF Report
  <2> HIDE DEF status
  <2>4. new \in RequestRecord /\ new.pc = "answered" /\ new.taifaID = taifaID
        /\ new.database = request[q].database
    BY <1>2, <2>2 DEF RequestRecord
  <2> HIDE DEF new
  <2>5. Fits(q, new)
    BY <1>2, <2>1, <2>4 DEF Fits
  <2> QED
    BY <1>2, <2>3, <2>4, <2>5, BecomesStep
<1> QED
  BY <1>3, <1>4, <1>5, <1>6
-----------------------------------------------------------------------------
LEMMA InitLifecycle == Init => LifecycleInv
<1> SUFFICES ASSUME Init PROVE LifecycleInv
  OBVIOUS
<1>1. TypeOK
  <2>1. NoRequest \in RequestRecord
    BY LifecycleAssumption DEF NoRequest, RequestAt, RequestRecord
  <2> QED
    BY <2>1 DEF Init, TypeOK, NoPool
<1>2. \A q \in Requests : request[q] = NoRequest
  BY DEF Init
<1>3. ProcessInv
  BY <1>2 DEF Init, ProcessInv, NoPool
<1>4. PoolInv
  BY DEF Init, PoolInv, NoPool
<1>5. \A q \in Requests : Fits(q, request[q])
  BY <1>2 DEF Init, Fits, NoRequest, RequestAt, NoPool
<1> QED
  BY <1>1, <1>3, <1>4, <1>5 DEF LifecycleInv

LEMMA NextLifecycle == LifecycleInv /\ [Next]_vars => LifecycleInv'
<1> SUFFICES ASSUME LifecycleInv, [Next]_vars PROVE LifecycleInv'
  OBVIOUS
<1>1. ASSUME NEW q \in Requests, Handle(q) \/ Outside(q) PROVE LifecycleInv'
  BY <1>1, ArriveStep, AuthorizeSteps, ProbeSteps DEF Handle, Outside
<1>2. CASE Proceed
  BY <1>2, ProcessSteps, ClosingSteps DEF Proceed
<1>3. CASE \/ Open \/ OpenFails \/ OpenTimesOut \/ ShutdownTimesOut \/ Signal \/ Listen
           \/ ListenerFails \/ UNCHANGED vars
  BY <1>3, OpenStep, ProcessSteps
<1> QED
  BY <1>1, <1>2, <1>3 DEF Next, Terminated

\* The invariant of a process, for any number of requests, any settings and pool size.
THEOREM LifecycleHolds == Spec => []LifecycleInv
<1> QED
  BY InitLifecycle, NextLifecycle, PTL DEF Spec

\* A clean end leaves no request unfinished (app.go:197).
THEOREM CleanExit == Spec => []CleanExitKillsNobody
<1>1. LifecycleInv => CleanExitKillsNobody
  BY DEF LifecycleInv, ProcessInv, CleanExitKillsNobody
<1> QED
  BY <1>1, LifecycleHolds, PTL

\* The pool is closed under requests only after the listener has failed (app.go:201).
THEOREM PoolClosesLast == Spec => []PoolClosesUnderNobody
<1>1. LifecycleInv => PoolClosesUnderNobody
  BY DEF LifecycleInv, ProcessInv, PoolClosesUnderNobody
<1> QED
  BY <1>1, LifecycleHolds, PTL

\* The pool's size is as written in the environment or the DSN, or a default, no minimum in
\* force is above it, and it is kept to (db.go:23-38).
THEOREM PoolSized == Spec => []PoolAsWritten
<1>1. LifecycleInv => PoolAsWritten
  <2> SUFFICES ASSUME LifecycleInv, pool.state # "none"
               PROVE  /\ PoolMaxConns(cfg) \in
                            {env.maxConns.number, env.minConns.number, 1, 5,
                             DriverMaxConns, DriverMinConns}
                      /\ PoolMaxConns(cfg) >= 1 /\ PoolMaxConns(cfg) >= cfg.minConns
                      /\ cfg.minConns <= 0 => PoolMaxConns(cfg) >= DriverMinConns
                      /\ Cardinality(Held) <= PoolMaxConns(cfg)
    BY DEF PoolAsWritten, LifecycleInv, PoolInv
  <2>1. env \in Environment
    BY LifecycleAssumption DEF LifecycleInv, TypeOK
  <2> QED
    BY <2>1, PoolMaxType, PoolMaxWritten DEF LifecycleInv, PoolInv
<1> QED
  BY <1>1, LifecycleHolds, PTL

\* Probes and requests mean the same by a configured dependency (app.go:89, service.go:68).
THEOREM EndpointsAgree == Spec => []ProbesAndRequestsAgree
<1>1. LifecycleInv => ProbesAndRequestsAgree
  <2> SUFFICES ASSUME LifecycleInv, NEW q \in Probes, NEW other \in Requests \ Probes,
                      request[q].pc = "answered", request[other].pc = "answered"
               PROVE  /\ request[other].status = "unconfigured"
                           => request[q].taifaID = "not_configured"
                      /\ request[other].status = "decision"
                           => request[q].taifaID # "not_configured"
                      /\ Statements > 0 /\ request[q].database = "not_configured"
                           => request[other].status = "error"
    BY DEF ProbesAndRequestsAgree
  <2>1. Fits(q, request[q]) /\ Fits(other, request[other])
    BY LifecycleAssumption DEF LifecycleInv
  <2> QED
    BY <2>1 DEF Fits
<1> QED
  BY <1>1, LifecycleHolds, PTL
=============================================================================
