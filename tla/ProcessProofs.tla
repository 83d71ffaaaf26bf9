--------------------------- MODULE ProcessProofs ----------------------------
(***************************************************************************)
(* Two programs from start to exit.  run() of the controller frees nothing *)
(* that is still used, for any number of ops in the pool and every way the *)
(* threads, signals, failures and the shutdown may interleave.  What a run *)
(* of the dependency checker reports and saves is what it learned, for any *)
(* set of dependencies and workers, any lifetime of the cache and any      *)
(* sequence of runs, failures and crashes.                                 *)
(***************************************************************************)
EXTENDS Lifecycle, DepsCache, TLAPS

------------------------------------------------------------------------------
(* run().                                                                    *)


\* run() seen as phases.
Up        == {"spawn_listener", "spawn_ticker", "spawn_http", "serve",
              "join_http"}
Joined    == {"begin_shutdown", "wait_for_ops", "teardown", "torn", "close",
              "join_queue"}
Serving   == Up \cup {"spawn_queue", "join_ticker", "join_listener"}
                \cup Joined \cup {"destroy_server"}
Freeing   == {"destroy_server", "destroy_controller", "close_client", "returned"}
Places    == {"connect", "new", "start"} \cup Serving \cup Freeing

\* Which objects are there is a matter of where main is.
ObjInv ==
    /\ pc \in Places
    /\ (obj["server"] = "live") <=> pc \in Serving
    /\ (obj["controller"] = "live") <=>
           pc \in Serving \cup {"start", "destroy_controller"}
    /\ (obj["client"] = "live") <=>
           pc \in Serving \cup {"new", "start", "destroy_controller",
                                "close_client"}

Down(t) == thr[t] \in {"none", "exited"}

\* Which threads may be up.
ThrInv ==
    /\ pc \in {"connect", "new", "start", "spawn_queue"} =>
           \A t \in Threads : thr[t] = "none"
    /\ pc \in {"spawn_listener", "spawn_ticker", "spawn_http"} =>
           thr["http"] = "none" /\ thr["queue"] = "run"
    /\ pc \in {"spawn_listener", "spawn_ticker"} => thr["ticker"] = "none"
    /\ pc = "spawn_listener" => thr["listener"] = "none"
    /\ thr["listener"] # "stopping" /\ thr["ticker"] # "stopping"
       /\ thr["queue"] # "stopping"
    /\ rc = 1 => thr["http"] = "none"
    /\ pc \in {"connect", "new", "start", "spawn_queue", "join_http"} \cup Up => rc = 0
    /\ pc \in {"join_ticker", "join_listener"} \cup Joined \cup Freeing =>
           Down("http")
    /\ pc \in {"join_listener"} \cup Joined \cup Freeing => Down("ticker")
    /\ pc \in Joined \cup Freeing => Down("listener")
    /\ pc \in Freeing => Down("queue")

\* The queue thread outlives everyone who waits for it.
QueueInv ==
    /\ thr["queue"] = "none" =>
           /\ \A t \in Threads : thr[t] = "none"
           /\ pc \in {"connect", "new", "start", "spawn_queue"} \/ rc = 1
           /\ pc \notin Joined
    /\ thr["queue"] = "exited" => q_closed
    /\ q_closed => pc \in {"join_queue"} \cup Freeing
    /\ "http" \in blocked => thr["http"] \in {"run", "stopping"}
    /\ "listener" \in blocked => thr["listener"] = "run"
    /\ "main" \in blocked => pc = "torn"
    /\ jobs > 0 => pc \in Up \cup {"join_ticker", "join_listener"} \cup Joined
                           \cup {"destroy_server", "destroy_controller"}
    /\ subscribers => thr["http"] # "none"
    /\ pc \in {"destroy_controller", "close_client", "returned"} => ~subscribers
    /\ pc \in {"begin_shutdown", "wait_for_ops", "teardown", "torn"} => rc = 0
    /\ pc = "torn" => "main" \in blocked \/ torn
    /\ pc \in {"close", "join_queue"} \cup Freeing => rc = 1 \/ torn

LInv == LTypeOK /\ ObjInv /\ ThrInv /\ QueueInv

\* Nothing exists yet.
LEMMA LInit == Init => LInv
<1> SUFFICES ASSUME Init PROVE LInv
  OBVIOUS
<1> USE DEF Init
<1>1. thr \in [Threads -> {"none", "run", "stopping", "exited"}]
      /\ obj \in [Objects -> {"none", "live", "freed"}]
  OBVIOUS
<1>2. LTypeOK
  <2>1. {g_sig_flag, g_http_fatal, shutdown_requested, subscribers,
         shutting_down, q_closed, reconcile_queued, torn} \subseteq BOOLEAN
    BY Zenon
  <2>2. rc \in {0, 1} /\ blocked \subseteq Callers /\ jobs \in 0 .. MaxJobs
    BY JobsAssumption
  <2>3. QED
    BY <1>1, <2>1, <2>2, Zenon DEF LTypeOK
<1>3. ObjInv
  BY Zenon DEF ObjInv, Objects, Up, Joined, Serving, Freeing, Places
<1>4. ThrInv
  BY Zenon DEF ThrInv, Threads, Joined, Freeing, Down
<1>5. QueueInv
  BY DEF QueueInv, Threads, Up, Joined, Freeing
<1>6. QED
  BY <1>2, <1>3, <1>4, <1>5, Zenon DEF LInv

------------------------------------------------------------------------------
\* Start-up keeps the invariant.
LEMMA StartStep ==
    ASSUME LInv,
           ConnectFails \/ Connect \/ NewFails \/ New \/ StartFails \/ Start
    PROVE  LInv'
<1> USE DEF LInv, LTypeOK, ObjInv, ThrInv, QueueInv, Threads, Objects, Callers,
           Up, Joined, Serving, Freeing, Places, Down, flags, queue
<1>1. CASE ConnectFails
  BY <1>1, Zenon DEF ConnectFails
<1>2. CASE Connect
  BY <1>2, Zenon DEF Connect
<1>3. CASE NewFails
  BY <1>3, Zenon DEF NewFails
<1>4. CASE New
  BY <1>4 DEF New
<1>5. CASE StartFails
  BY <1>5, Zenon DEF StartFails
<1>6. CASE Start
  BY <1>6, Zenon DEF Start
<1>7. QED
  BY <1>1, <1>2, <1>3, <1>4, <1>5, <1>6, Zenon

\* So does creating the threads, or failing to.
LEMMA SpawnStep ==
    ASSUME LInv, 
           Spawn("spawn_queue", "queue", "spawn_listener")
             \/ Spawn("spawn_listener", "listener", "spawn_ticker")
             \/ Spawn("spawn_ticker", "ticker", "spawn_http")
             \/ Spawn("spawn_http", "http", "serve") \/ ThreadFail
    PROVE  LInv'
<1> USE DEF LInv, LTypeOK, ObjInv, ThrInv, QueueInv, Threads, Objects, Callers,
           Up, Joined, Serving, Freeing, Places, Down, flags, queue
<1>1. CASE Spawn("spawn_queue", "queue", "spawn_listener")
  BY <1>1, JobsAssumption, Zenon DEF Spawn
<1>2. CASE Spawn("spawn_listener", "listener", "spawn_ticker")
  BY <1>2, JobsAssumption, Zenon DEF Spawn
<1>3. CASE Spawn("spawn_ticker", "ticker", "spawn_http")
  BY <1>3, JobsAssumption, Zenon DEF Spawn
<1>4. CASE Spawn("spawn_http", "http", "serve")
  BY <1>4, JobsAssumption DEF Spawn
<1>5. CASE ThreadFail
  BY <1>5, JobsAssumption DEF ThreadFail
<1>6. QED
  BY <1>1, <1>2, <1>3, <1>4, <1>5, Zenon

\* The HTTP thread, and the signal handler.
LEMMA HttpStep ==
    ASSUME LInv, 
           SignalArrives \/ HttpRequest \/ HttpSubscribe \/ HttpFatal \/ HttpLeaveLoop
             \/ HttpUnsubscribe \/ HttpExit
    PROVE  LInv'
<1> USE DEF LInv, LTypeOK, ObjInv, ThrInv, QueueInv, Threads, Objects, Callers,
           Up, Joined, Serving, Freeing, Places, Down, flags, queue
<1>1. CASE SignalArrives
  BY <1>1, JobsAssumption DEF SignalArrives
<1>2. CASE HttpRequest
  BY <1>2, JobsAssumption, ZenonT(30) DEF HttpRequest, CanSubmit
<1>3. CASE HttpSubscribe
  BY <1>3, JobsAssumption DEF HttpSubscribe, CanSubmit
<1>4. CASE HttpFatal
  BY <1>4, JobsAssumption DEF HttpFatal
<1>5. CASE HttpLeaveLoop
  BY <1>5, JobsAssumption DEF HttpLeaveLoop
<1>6. CASE HttpUnsubscribe
  BY <1>6, JobsAssumption, ZenonT(30) DEF HttpUnsubscribe, CanSubmit
<1>7. CASE HttpExit
  BY <1>7, JobsAssumption, Zenon DEF HttpExit
<1>8. QED
  BY <1>1, <1>2, <1>3, <1>4, <1>5, <1>6, <1>7, Zenon

\* The listener, the ticker and the workers.
LEMMA OtherThreadsStep ==
    ASSUME LInv, 
           ListenerSubmit \/ ListenerExit \/ ListenerGivesUp \/ TickerRequest \/ TickerExit
             \/ OpEnds
    PROVE  LInv'
<1> USE DEF LInv, LTypeOK, ObjInv, ThrInv, QueueInv, Threads, Objects, Callers,
           Up, Joined, Serving, Freeing, Places, Down, flags, queue
<1>1. CASE ListenerSubmit
  BY <1>1, JobsAssumption DEF ListenerSubmit, CanSubmit
<1>2. CASE ListenerExit
  BY <1>2, JobsAssumption DEF ListenerExit
<1>3. CASE ListenerGivesUp
  BY <1>3, JobsAssumption DEF ListenerGivesUp
<1>4. CASE TickerRequest
  BY <1>4, JobsAssumption DEF TickerRequest
<1>5. CASE TickerExit
  BY <1>5, JobsAssumption DEF TickerExit
<1>6. CASE OpEnds
  BY <1>6, JobsAssumption DEF OpEnds
<1>7. QED
  BY <1>1, <1>2, <1>3, <1>4, <1>5, <1>6, Zenon

\* The queue thread.
LEMMA QueueThreadStep ==
    ASSUME LInv, NEW c \in Callers,
           QueueReconcile \/ QueueExit \/ QueueAnswer(c)
    PROVE  LInv'
<1> USE DEF LInv, LTypeOK, ObjInv, ThrInv, QueueInv, Threads, Objects, Callers,
           Up, Joined, Serving, Freeing, Places, Down, flags, queue
<1>1. CASE QueueReconcile
  <2>1. jobs' \in 0 .. MaxJobs
    BY <1>1, JobsAssumption DEF QueueReconcile
  <2>2. UNCHANGED <<pc, rc, thr, obj, flags, shutting_down, q_closed, blocked, torn>>
        /\ reconcile_queued' = FALSE /\ thr["queue"] = "run"
    BY <1>1, Zenon DEF QueueReconcile
  <2>3. LTypeOK'
    BY <2>1, <2>2, Zenon
  <2>4. ObjInv'
    BY <2>2, Zenon
  <2>5. ThrInv'
    BY <2>2
  <2>6. QueueInv'
    BY <2>1, <2>2, Zenon
  <2>7. QED
    BY <2>3, <2>4, <2>5, <2>6, Zenon
<1>2. CASE QueueExit
  BY <1>2, JobsAssumption DEF QueueExit
<1>3. CASE QueueAnswer(c)
  <2>1. UNCHANGED <<pc, rc, thr, obj, flags, shutting_down, q_closed, reconcile_queued, jobs>>
        /\ blocked' = blocked \ {c} /\ (torn' <=> (torn \/ c = "main")) /\ torn' \in BOOLEAN
    BY <1>3, Zenon DEF QueueAnswer
  <2>2. LTypeOK'
    BY <2>1, Zenon
  <2>3. ObjInv' /\ ThrInv'
    BY <2>1
  <2>4. QueueInv'
    BY <2>1
  <2>5. QED
    BY <2>2, <2>3, <2>4, Zenon
<1>4. QED
  BY <1>1, <1>2, <1>3, Zenon

\* main on its way out.
LEMMA ShutdownStep ==
    ASSUME LInv, 
           LeaveServe \/ Join("join_http", "http", "join_ticker")
             \/ Join("join_ticker", "ticker", "join_listener") \/ JoinListener
             \/ Join("join_queue", "queue", "destroy_server") \/ BeginShutdown \/ WaitForOps
             \/ Teardown \/ TeardownReturns \/ Close \/ DestroyServer \/ DestroyController
             \/ CloseClient
    PROVE  LInv'
<1> USE DEF LInv, LTypeOK, ObjInv, ThrInv, QueueInv, Threads, Objects, Callers,
           Up, Joined, Serving, Freeing, Places, Down, flags, queue
<1>1. CASE LeaveServe
  BY <1>1, JobsAssumption DEF LeaveServe
<1>2. CASE Join("join_http", "http", "join_ticker")
  BY <1>2, JobsAssumption, Zenon DEF Join
<1>3. CASE Join("join_ticker", "ticker", "join_listener")
  BY <1>3, JobsAssumption, Zenon DEF Join
<1>4. CASE JoinListener
  BY <1>4, JobsAssumption DEF JoinListener, Join
<1>5. CASE Join("join_queue", "queue", "destroy_server")
  BY <1>5, JobsAssumption, Zenon DEF Join
<1>6. CASE BeginShutdown
  BY <1>6, JobsAssumption, Zenon DEF BeginShutdown
<1>7. CASE WaitForOps
  BY <1>7, JobsAssumption, Zenon DEF WaitForOps
<1>8. CASE Teardown
  BY <1>8, JobsAssumption, Zenon DEF Teardown
<1>9. CASE TeardownReturns
  BY <1>9, JobsAssumption, Zenon DEF TeardownReturns
<1>10. CASE Close
  BY <1>10, JobsAssumption, Zenon DEF Close
<1>11. CASE DestroyServer
  BY <1>11, JobsAssumption, ZenonT(30) DEF DestroyServer
<1>12. CASE DestroyController
  BY <1>12, JobsAssumption DEF DestroyController, PoolDrained
<1>13. CASE CloseClient
  BY <1>13, JobsAssumption DEF CloseClient
<1>14. QED
  BY <1>1, <1>2, <1>3, <1>4, <1>5, <1>6, <1>7, <1>8, <1>9, <1>10, <1>11, <1>12, <1>13, Zenon

------------------------------------------------------------------------------
LEMMA LStep == LInv /\ [Next]_vars => LInv'
<1> SUFFICES ASSUME LInv, [Next]_vars PROVE LInv'
  OBVIOUS
<1>1. CASE Main
  BY <1>1, StartStep, SpawnStep, ShutdownStep, Zenon DEF Main, SpawnAny, Shutdown
<1>2. CASE SignalArrives \/ HttpRequest \/ HttpSubscribe \/ HttpFatal \/ HttpStops
  BY <1>2, HttpStep, Zenon DEF HttpStops
<1>3. CASE ListenerSubmit \/ ListenerExit \/ ListenerGivesUp \/ TickerRequest \/ TickerExit
           \/ OpEnds
  BY <1>3, OtherThreadsStep, Zenon
<1>4. CASE QueueSteps
  <2>1. PICK c \in Callers : QueueReconcile \/ QueueExit \/ QueueAnswer(c)
    BY <1>4, Zenon DEF QueueSteps, Callers
  <2>2. QED
    BY <2>1, QueueThreadStep, Zenon
<1>5. CASE UNCHANGED vars
  BY <1>5 DEF LInv, LTypeOK, ObjInv, ThrInv, QueueInv, Down, vars
<1>6. QED
  BY <1>1, <1>2, <1>3, <1>4, <1>5, Zenon DEF Next

\* Every flag, thread and object keeps its type, and the pool its bound.
THEOREM LifecycleTyped == Spec => []LTypeOK
<1>1. LInv => LTypeOK
  BY Zenon DEF LInv
<1>2. QED
  BY <1>1, LInit, LStep, PTL DEF Spec

\* The order of joins and destroys in run() is enough: no thread, op or blocked
\* caller is left with a freed object, on either way out, however many ops are in
\* the pool.
THEOREM NoUseAfterFree == Spec => []UsersHoldLiveObjects
<1>1. LInv => UsersHoldLiveObjects
  <2> SUFFICES ASSUME LInv PROVE UsersHoldLiveObjects
    OBVIOUS
  <2> USE DEF LInv, LTypeOK, ObjInv, ThrInv, QueueInv, Threads, Objects, Callers, Up,
              Joined, Serving, Freeing, Places, Down
  <2>1. \A t \in Threads : thr[t] \in {"run", "stopping"} =>
            pc \in Serving /\ \A o \in Uses(t) : o \in Objects
    BY DEF Uses
  <2>2. pc \in Serving => \A o \in Objects : obj[o] = "live"
    OBVIOUS
  <2>3. jobs > 0 => obj["controller"] = "live" /\ obj["client"] = "live"
    OBVIOUS
  <2>4. blocked # {} => thr["queue"] = "run"
    BY ZenonT(30)
  <2>5. QED
    BY <2>1, <2>2, <2>3, <2>4, Zenon DEF UsersHoldLiveObjects
<1>2. QED
  BY <1>1, LInit, LStep, PTL DEF Spec

\* Whatever the way out, run() returns with no thread, op or object left, and
\* with 0 only after Teardown.
THEOREM ReturnLeavesNothing == Spec => []ReturnsClean
<1>1. LInv => ReturnsClean
  BY DEF LInv, LTypeOK, ObjInv, ThrInv, QueueInv, Threads, Objects, Callers, Up, Joined, Serving,
         Freeing, Places, Down, ReturnsClean
<1>2. QED
  BY <1>1, LInit, LStep, PTL DEF Spec

------------------------------------------------------------------------------
(* The dependency checker.                                                   *)

Steps   == {"peek", "fetch", "again", "commit"}
Answers == Nat \cup {None, Unknown}

DTypeOK ==
  /\ now \in Nat /\ written \in Nat \cup {Missing}
  /\ file \in [D -> Nat \cup {None}] /\ entries \in [D -> Nat \cup {None}]
  /\ loaded \in [D -> Nat \cup {None}] /\ fetched \in [D -> Answers]
  /\ results \in [D -> Int]
  /\ next \in 1..(Len(Deps) + 1)
  /\ worker \in [Workers -> ({"idle", "gone"} \cup Steps) \X D \X Answers]

Busy(w) == worker[w][1] \in Steps
Fed(d) == \E k \in 1..(next - 1) : Deps[k] = d
Held(d) == \E w \in Workers : Busy(w) /\ worker[w][2] = d
InRun == phase \in {"feed", "wait", "save", "rename", "report"}

\* A worker holds a dependency that was fed, no two the same one, and when the
\* pool was waited for none holds any.
PoolInv ==
  /\ \A w \in Workers : Busy(w) \/ worker[w] \in {Idle, Gone}
  /\ \A w \in Workers : Busy(w) => phase \in {"feed", "wait"} /\ Fed(worker[w][2])
  /\ \A v, w \in Workers : Busy(v) /\ Busy(w) /\ worker[v][2] = worker[w][2] => v = w
  /\ phase \in {"wait", "save", "rename", "report"} => next = Len(Deps) + 1
  /\ phase \notin {"feed", "wait"} /\ phase # "refused" => \A w \in Workers : worker[w] = Gone
  /\ saved => phase = "report" /\ written \in Nat /\ file = entries

\* What a dependency's answer and entry must be in the end.
Right(d) == CASE Kind[d] = "local" -> Local
              [] Kind[d] = "nomatch" -> Unknown
              [] OTHER -> IF "offline" \in opts THEN Skipped
                          ELSE IF "fresh" \in opts \/ loaded[d] = None THEN fetched[d]
                          ELSE loaded[d]
Learned(d) == CASE fetched[d] = Unknown -> None
                [] fetched[d] = None -> loaded[d]
                [] OTHER -> fetched[d]

Skips(d) == "offline" \in opts /\ Kind[d] = "net"
Asked(d) == Kind[d] = "net" /\ "offline" \notin opts /\ ("fresh" \in opts \/ loaded[d] = None)
Untouched(d) == fetched[d] = None /\ entries[d] = loaded[d]

\* What a worker knows of the dependency it holds.
Holds(w) ==
  LET d == worker[w][2]
  IN /\ ~Skips(d) /\ entries[d] = loaded[d]
     /\ worker[w][1] # "peek" => Asked(d)
     /\ worker[w][1] # "commit" => fetched[d] = None
     /\ worker[w][1] = "commit" => fetched[d] = worker[w][3] /\ worker[w][3] # None

\* What is known of a dependency before it is fed, on a worker, and after.
DepInv ==
  InRun =>
    /\ \A d \in D : ~Fed(d) => Untouched(d)
    /\ \A w \in Workers : Busy(w) => Holds(w)
    /\ \A d \in D : Fed(d) /\ ~Held(d) => results[d] = Right(d) /\ entries[d] = Learned(d)

CInv == DTypeOK /\ PoolInv /\ DepInv

------------------------------------------------------------------------------
\* The dependency the feeder is at is one that was not fed.
LEMMA FeederAt ==
    ASSUME DTypeOK, next <= Len(Deps)
    PROVE  Deps[next] \in D /\ ~Fed(Deps[next]) /\ next + 1 \in 1..(Len(Deps) + 1)
BY DepsAssumption DEF DTypeOK, Fed, D

LEMMA FirstDep == Deps[1] \in D /\ Idle \in ({"idle", "gone"} \cup Steps) \X D \X Answers
                  /\ Gone \in ({"idle", "gone"} \cup Steps) \X D \X Answers
BY DepsAssumption DEF D, Idle, Gone, Answers, Steps, None, Unknown

LEMMA CInit == CacheInit => CInv
<1> SUFFICES ASSUME CacheInit PROVE CInv
  OBVIOUS
<1>1. DTypeOK
  BY FirstDep, DepsAssumption DEF CacheInit, DTypeOK, NoEntries, Answers, None, Missing, Unknown
<1>2. PoolInv /\ DepInv
  BY Zenon DEF CacheInit, PoolInv, DepInv, InRun, Busy, Gone, Steps
<1>3. QED
  BY <1>1, <1>2, Zenon DEF CInv

\* What Load returns is a set of entries.
LEMMA LoadTyped == DTypeOK => Load \in [D -> Nat \cup {None}]
BY Zenon DEF DTypeOK, Load, NoEntries

\* After peek the worker is idle again or fetches the dependency it holds.
LEMMA PeekMoves ==
    ASSUME NEW w \in Workers, Peek(w)
    PROVE  \/ worker' = [worker EXCEPT ![w] = Idle]
           \/ worker' = [worker EXCEPT ![w] = <<"fetch", worker[w][2], None>>]
BY Zenon DEF Peek, Step

LEMMA TypeStep ==
    ASSUME DTypeOK, [CacheNext]_cacheVars
    PROVE  DTypeOK'
<1> USE DEF DTypeOK, guard, disk, world, request
<1>1. CASE \E o \in {{}, {"fresh"}, {"offline"}}, n \in 0..Cardinality(Workers) : StartRun(o, n)
  <2>1. PICK o \in {{}, {"fresh"}, {"offline"}}, n \in 0..Cardinality(Workers) : StartRun(o, n)
    BY <1>1, Zenon
  <2>2. worker' \in [Workers -> ({"idle", "gone"} \cup Steps) \X D \X Answers]
    <3>1. worker' = [w \in Workers |-> IF w <= n THEN Idle ELSE Gone]
      BY <2>1, Zenon DEF StartRun
    <3>2. QED
      BY <3>1, FirstDep, Zenon
  <2>3. NoEntries \in [D -> Nat \cup {None}] /\ NoEntries \in [D -> Answers]
        /\ NoEntries \in [D -> Int]
    BY DEF NoEntries, Answers, None
  <2>4. 1 \in 1..(Len(Deps) + 1)
    BY DepsAssumption
  <2>5. QED
    BY <2>1, <2>2, <2>3, <2>4, LoadTyped, Zenon DEF StartRun
<1>2. CASE Run
  <2>1. CASE FeedSkip
    BY <2>1, FeederAt DEF FeedSkip, Skipped
  <2>2. CASE Rename
    BY <2>2, Zenon DEF Rename
  <2>3. QED
    BY <1>2, <2>1, <2>2, Zenon DEF Run, CloseJobs, Waited, SaveTemp, SaveFails
<1>3. CASE \E w \in Workers : Work(w)
  <2>1. PICK w \in Workers : Work(w)
    BY <1>3, Zenon
  <2>2. worker[w] \in ({"idle", "gone"} \cup Steps) \X D \X Answers
    OBVIOUS
  <2>3. worker[w][2] \in D /\ worker[w][3] \in Answers
    BY <2>2, Zenon
  <2>4. CASE FeedJob(w)
    BY <2>4, FeederAt, Zenon DEF FeedJob, Step, Steps, Answers, None
  <2>5. CASE WorkerEnds(w)
    BY <2>5, FirstDep, Zenon DEF WorkerEnds
  <2>6. CASE Peek(w)
    <3>1. worker' \in [Workers -> ({"idle", "gone"} \cup Steps) \X D \X Answers]
      <4>1. CASE worker' = [worker EXCEPT ![w] = Idle]
        BY <4>1, FirstDep, Zenon
      <4>2. CASE worker' = [worker EXCEPT ![w] = <<"fetch", worker[w][2], None>>]
        BY <4>2, <2>3, Zenon DEF Steps, Answers
      <4>3. QED
        BY <2>6, <4>1, <4>2, PeekMoves, Zenon
    <3>2. entries[worker[w][2]] \in Int
      BY <2>3 DEF None
    <3>3. results' \in [D -> Int]
      BY <2>6, <2>3, <3>2 DEF Peek, Unknown, Local
    <3>4. QED
      BY <2>6, <3>1, <3>3, Zenon DEF Peek
  <2>7. CASE Commit(w)
    <3>1. entries' \in [D -> Nat \cup {None}]
      BY <2>7, <2>3, Zenon DEF Commit, Committed, Answers
    <3>2. results' \in [D -> Int]
      BY <2>7, <2>3 DEF Commit, Answers, None, Unknown
    <3>3. QED
      BY <2>7, <3>1, <3>2, FirstDep, Zenon DEF Commit
  <2>8. CASE FetchLimited(w)
    BY <2>8, <2>3, Zenon DEF FetchLimited, Step, Steps, Answers, None
  <2>9. CASE \E answer \in {now, Unknown} : Fetch(w, answer)
    BY <2>9, <2>3 DEF Fetch, Step, Steps, Answers
  <2>10. QED
    BY <2>1, <2>4, <2>5, <2>6, <2>7, <2>8, <2>9, Zenon DEF Work
<1>4. CASE Crash
  BY <1>4, FirstDep, Zenon DEF Crash
<1>5. CASE Tick
  BY <1>5 DEF Tick
<1>6. CASE UNCHANGED cacheVars
  BY <1>6, Zenon DEF cacheVars
<1>7. QED
  BY <1>1, <1>2, <1>3, <1>4, <1>5, <1>6, Zenon DEF CacheNext

------------------------------------------------------------------------------
\* Who holds what after worker w has moved on.
LEMMA WorkerMoves ==
    ASSUME DTypeOK, NEW w \in Workers, NEW x, worker' = [worker EXCEPT ![w] = x]
    PROVE  worker'[w] = x /\ \A v \in Workers : v # w => worker'[v] = worker[v]
BY Zenon DEF DTypeOK

LEMMA NotBusy == Idle[1] \notin Steps /\ Gone[1] \notin Steps
BY Zenon DEF Idle, Gone, Steps

LEMMA PoolStep ==
    ASSUME DTypeOK, DTypeOK', PoolInv, [CacheNext]_cacheVars
    PROVE  PoolInv'
<1> USE NotBusy DEF PoolInv, Busy, guard, disk, world, request
<1>1. CASE \E o \in {{}, {"fresh"}, {"offline"}}, n \in 0..Cardinality(Workers) : StartRun(o, n)
  BY <1>1, DepsAssumption, Zenon DEF StartRun
<1>2. CASE Run
  <2>1. CASE FeedSkip
    BY <2>1 DEF FeedSkip, Fed, DTypeOK
  <2>2. CASE Rename
    BY <2>2, Zenon DEF Rename, DTypeOK, Fed
  <2>3. CASE CloseJobs
    BY <2>3 DEF CloseJobs, Fed, DTypeOK
  <2>4. CASE Waited
    BY <2>4, Zenon DEF Waited, Fed, Gone, Steps
  <2>5. CASE SaveTemp \/ SaveFails
    BY <2>5 DEF SaveTemp, SaveFails, Fed
  <2>6. QED
    BY <1>2, <2>1, <2>2, <2>3, <2>4, <2>5, Zenon DEF Run
<1>3. CASE \E w \in Workers : Work(w)
  <2>1. PICK w \in Workers : Work(w)
    BY <1>3, Zenon
  <2>2. CASE FeedJob(w)
    <3>1. worker'[w] = <<"peek", Deps[next], None>> /\ \A v \in Workers : v # w
          => worker'[v] = worker[v]
      BY <2>2, WorkerMoves, Zenon DEF FeedJob, Step
    <3>2. phase = "feed" /\ phase' = "feed" /\ next' = next + 1 /\ next <= Len(Deps) /\ ~saved
          /\ saved' = saved
      BY <2>2, Zenon DEF FeedJob
    <3>3. \A d : Fed(d) => Fed(d)'
      BY <3>2 DEF Fed, DTypeOK
    <3>4. \A d : d = Deps[next] => Fed(d)'
      BY <3>2 DEF Fed, DTypeOK
    <3>5. ~Fed(Deps[next])
      BY <3>2, FeederAt, Zenon
    <3>6. QED
      BY <3>1, <3>2, <3>3, <3>4, <3>5 DEF Steps
  <2>3. CASE WorkerEnds(w)
    <3>1. worker'[w] = Gone /\ \A v \in Workers : v # w => worker'[v] = worker[v]
      BY <2>3, WorkerMoves, Zenon DEF WorkerEnds
    <3>2. QED
      BY <2>3, <3>1 DEF WorkerEnds, Fed
  <2>4. CASE Peek(w) \/ Commit(w) \/ FetchLimited(w)
             \/ \E answer \in {now, Unknown} : Fetch(w, answer)
    <3>1. Busy(w) /\ UNCHANGED <<phase, next, saved, written, file>> /\ ~saved
      BY <2>4, Zenon DEF Peek, Commit, FetchLimited, Fetch, Steps
    <3>2. /\ \A v \in Workers : v # w => worker'[v] = worker[v]
          /\ worker'[w] = Idle \/ (worker'[w][1] \in Steps /\ worker'[w][2] = worker[w][2])
      <4>1. CASE Peek(w)
        <5>1. CASE worker' = [worker EXCEPT ![w] = Idle]
          BY <5>1, WorkerMoves, Zenon
        <5>2. CASE worker' = [worker EXCEPT ![w] = <<"fetch", worker[w][2], None>>]
          <6>1. worker'[w] = <<"fetch", worker[w][2], None>> /\ \A v \in Workers : v # w
                => worker'[v] = worker[v]
            BY <5>2, WorkerMoves, Zenon
          <6>2. QED
            BY <6>1 DEF Steps
        <5>3. QED
          BY <4>1, <5>1, <5>2, PeekMoves, Zenon
      <4>2. CASE Commit(w)
        BY <4>2, WorkerMoves, Zenon DEF Commit
      <4>3. CASE FetchLimited(w)
        BY <4>3, WorkerMoves DEF FetchLimited, Step, Steps
      <4>4. CASE \E answer \in {now, Unknown} : Fetch(w, answer)
        BY <4>4, WorkerMoves DEF Fetch, Step, Steps
      <4>5. QED
        BY <2>4, <4>1, <4>2, <4>3, <4>4, Zenon
    <3>3. QED
      BY <3>1, <3>2 DEF Fed
  <2>5. QED
    BY <2>1, <2>2, <2>3, <2>4, Zenon DEF Work
<1>4. CASE Crash
  BY <1>4, Zenon DEF Crash
<1>5. CASE Tick
  BY <1>5, Zenon DEF Tick, Fed
<1>6. CASE UNCHANGED cacheVars
  BY <1>6, Zenon DEF cacheVars, Fed
<1>7. QED
  BY <1>1, <1>2, <1>3, <1>4, <1>5, <1>6, Zenon DEF CacheNext

------------------------------------------------------------------------------
\* What a worker knows stands while its dependency is left alone.
LEMMA StillHolds ==
    ASSUME NEW v, Holds(v), UNCHANGED <<opts, loaded>>, worker'[v] = worker[v],
           NEW d, d = worker[v][2], entries'[d] = entries[d], fetched'[d] = fetched[d]
    PROVE  Holds(v)'
BY Zenon DEF Holds, Skips, Asked

\* A step that leaves the dependencies alone.
LEMMA DepQuiet ==
    ASSUME DepInv, InRun' => InRun,
           UNCHANGED <<next, worker, opts, loaded, entries, fetched, results>>
    PROVE  DepInv'
BY DEF DepInv, Fed, Held, Busy, Holds, Skips, Asked, Untouched, Right, Learned

\* A step of a worker touches the dependency it holds and no other.
LEMMA DepWorker ==
    ASSUME DTypeOK, PoolInv, DepInv, InRun, NEW w \in Workers, Busy(w),
           UNCHANGED <<phase, next, opts, loaded>>,
           NEW d \in D, d = worker[w][2],
           \A v \in Workers : v # w => worker'[v] = worker[v],
           \A e \in D : e # d => /\ results'[e] = results[e]
                                 /\ entries'[e] = entries[e] /\ fetched'[e] = fetched[e],
           \/ worker'[w] = Idle /\ results'[d] = Right(d)' /\ entries'[d] = Learned(d)'
           \/ Busy(w)' /\ worker'[w][2] = d /\ Holds(w)'
    PROVE  DepInv'
<1>1. \A v \in Workers : Busy(v) /\ v # w => worker[v][2] \in D /\ worker[v][2] # d
  BY Zenon DEF PoolInv, DTypeOK
<1>2. Fed(d) /\ \A e : Fed(e)' <=> Fed(e)
  BY Zenon DEF PoolInv, Fed
<1>3. \A v \in Workers : Busy(v)' /\ v # w => Holds(v)'
  <2>1. SUFFICES ASSUME NEW v \in Workers, Busy(v)', v # w PROVE Holds(v)'
    BY Zenon
  <2>2. worker'[v] = worker[v] /\ Busy(v) /\ Holds(v)
    BY <2>1, Zenon DEF DepInv, Busy
  <2>3. worker[v][2] \in D /\ worker[v][2] # d
    BY <1>1, <2>1, <2>2, Zenon
  <2>4. QED
    BY <2>2, <2>3, StillHolds
<1>4. \A v \in Workers : Busy(v)' => Holds(v)'
  BY <1>3, NotBusy, Zenon DEF Busy
<1>5. \A e \in D : ~Fed(e)' => Untouched(e)'
  BY <1>2, Zenon DEF DepInv, Untouched
<1>6. \A e \in D : e # d /\ ~Held(e)' => ~Held(e)
  BY Zenon DEF Held, Busy
<1>7. \A e \in D : e # d /\ Fed(e)' /\ ~Held(e)' => results'[e] = Right(e)'
      /\ entries'[e] = Learned(e)'
  BY <1>2, <1>6 DEF DepInv, Right, Learned
<1>8. Fed(d)' /\ ~Held(d)' => results'[d] = Right(d)' /\ entries'[d] = Learned(d)'
  BY Zenon DEF Held
<1>9. QED
  BY <1>4, <1>5, <1>7, <1>8, Zenon DEF DepInv

\* A run is on while a worker holds a dependency.
LEMMA BusyHolds ==
    ASSUME PoolInv, DepInv, NEW w \in Workers, Busy(w)
    PROVE  InRun /\ Holds(w)
BY Zenon DEF PoolInv, DepInv, InRun

\* The feeder hands the worker a job.
LEMMA DepFeed ==
    ASSUME DTypeOK, PoolInv, DepInv, NEW w \in Workers, FeedJob(w)
    PROVE  DepInv'
<1> USE DEF guard, disk, world, request
<1>0. PICK d0 \in D : d0 = Deps[next] /\ ~Fed(d0)
  BY FeederAt, Zenon DEF FeedJob
<1>1. InRun /\ ~Skips(d0) /\ worker[w] = Idle
  BY <1>0, Zenon DEF FeedJob, InRun, Skips
<1>2. \A e : Fed(e)' <=> (Fed(e) \/ e = d0)
  <2>1. next' = next + 1 /\ next \in 1 .. Len(Deps) + 1 /\ Len(Deps) \in Nat
    BY DepsAssumption DEF FeedJob, DTypeOK
  <2>2. QED
    BY <1>0, <2>1 DEF Fed
<1>3. UNCHANGED <<opts, loaded, entries, fetched, results>>
  BY Zenon DEF FeedJob
<1>4. worker'[w] = <<"peek", d0, None>> /\ \A v \in Workers : v # w => worker'[v] = worker[v]
  BY <1>0, WorkerMoves, Zenon DEF FeedJob, Step
<1>5. \A v \in Workers : v # w /\ Busy(v)' => Holds(v)'
  BY <1>1, <1>3, <1>4, StillHolds, Zenon DEF DepInv, Busy
<1>6. Busy(w)' /\ worker'[w][2] = d0 /\ Holds(w)'
  <2>1. entries'[d0] = loaded'[d0] /\ ~Skips(d0)' /\ fetched'[d0] = None
    BY <1>0, <1>1, <1>3, Zenon DEF DepInv, Untouched, Skips
  <2>2. worker'[w][1] = "peek" /\ worker'[w][2] = d0
    BY <1>4
  <2>3. QED
    BY <2>1, <2>2, Zenon DEF Busy, Steps, Holds
<1>7. \A e \in D : e # d0 => (Held(e)' <=> Held(e))
  BY <1>1, <1>4, <1>6, NotBusy, Zenon DEF Held, Busy
<1>8. \A e \in D : e = d0 => Held(e)'
  BY <1>6, Zenon DEF Held
<1>9. \A e \in D : Fed(e)' /\ ~Held(e)' => results'[e] = Right(e)' /\ entries'[e] = Learned(e)'
  BY <1>1, <1>2, <1>3, <1>7, <1>8, Zenon DEF DepInv, Right, Learned
<1>10. \A e \in D : ~Fed(e)' => Untouched(e)'
  BY <1>1, <1>2, <1>3, Zenon DEF DepInv, Untouched
<1>11. QED
  BY <1>5, <1>6, <1>9, <1>10, Zenon DEF DepInv

\* The worker ends.
LEMMA DepEnds ==
    ASSUME DTypeOK, PoolInv, DepInv, NEW w \in Workers, WorkerEnds(w)
    PROVE  DepInv'
<1> USE DEF guard, disk, world, request
<1>1. worker[w] = Idle /\ worker'[w] = Gone /\ \A v \in Workers : v # w => worker'[v] = worker[v]
  BY WorkerMoves, Zenon DEF WorkerEnds
<1>2. UNCHANGED <<next, opts, loaded, entries, fetched, results>> /\ InRun
  BY Zenon DEF WorkerEnds, InRun
<1>3. \A v \in Workers : Busy(v)' => Busy(v) /\ worker'[v] = worker[v]
  BY <1>1, NotBusy, Zenon DEF Busy
<1>4. \A e \in D : Held(e) => Held(e)'
  BY <1>1, NotBusy, Zenon DEF Held, Busy
<1>5. \A v \in Workers : Busy(v)' => Holds(v)'
  BY <1>2, <1>3, StillHolds, Zenon DEF DepInv
<1>6. \A e : /\ Fed(e)' <=> Fed(e)
             /\ Untouched(e)' <=> Untouched(e)
             /\ Right(e)' = Right(e) /\ Learned(e)' = Learned(e)
  BY <1>2, Zenon DEF Fed, Untouched, Right, Learned
<1>7. QED
  BY <1>2, <1>4, <1>5, <1>6, Zenon DEF DepInv

\* The worker answers from the cache, or goes upstream.
LEMMA DepPeek ==
    ASSUME DTypeOK, PoolInv, DepInv, NEW w \in Workers, NEW d \in D, d = worker[w][2],
           Peek(w)
    PROVE  DepInv'
<1> USE DEF guard, disk, world, request
<1>1. Busy(w) /\ worker[w][1] = "peek" /\ UNCHANGED <<phase, next, opts, loaded, entries, fetched>>
  BY Zenon DEF Peek, Busy, Steps
<1>2. d \in D /\ InRun /\ Holds(w)
  BY BusyHolds, <1>1, Zenon
<1>3. CASE Answered(d)
  <2>1. /\ worker'[w] = Idle /\ \A v \in Workers : v # w => worker'[v] = worker[v]
        /\ results' = [results EXCEPT ![d] = CASE Kind[d] = "nomatch" -> Unknown
                                               [] Kind[d] = "local" -> Local
                                               [] OTHER -> entries[d]]
    BY <1>3, WorkerMoves, Zenon DEF Peek
  <2>2. results'[d] = Right(d)'
    <3>1. entries[d] = loaded[d] /\ ~Skips(d) /\ fetched[d] = None
      BY <1>1, <1>2, Zenon DEF Holds
    <3>2. Kind[d] \in {"local", "nomatch", "net"}
      BY <1>2, DepsAssumption, Zenon
    <3>3. results'[d] = CASE Kind[d] = "nomatch" -> Unknown
                          [] Kind[d] = "local" -> Local
                          [] OTHER -> entries[d]
      BY <1>2, <2>1, Zenon DEF DTypeOK
    <3>4. QED
      BY <1>1, <1>3, <3>1, <3>2, <3>3 DEF Right, Skips, Answered
  <2>3. entries'[d] = Learned(d)'
    <3>1. fetched'[d] = None /\ entries'[d] = loaded'[d]
      BY <1>1, <1>2, Zenon DEF Holds
    <3>2. None # Unknown
      BY DEF None, Unknown
    <3>3. QED
      BY <3>1, <3>2, Zenon DEF Learned
  <2>4. \A e \in D : e # d => results'[e] = results[e]
    BY <2>1, Zenon DEF DTypeOK
  <2>5. QED
    BY <1>1, <1>2, <2>1, <2>2, <2>3, <2>4, DepWorker, Zenon
<1>4. CASE ~Answered(d)
  <2>1. results' = results /\ worker' = [worker EXCEPT ![w] = <<"fetch", d, None>>]
    BY <1>4, Zenon DEF Peek, Step
  <2>2. worker'[w] = <<"fetch", d, None>> /\ \A v \in Workers : v # w => worker'[v] = worker[v]
    BY <2>1, WorkerMoves, Zenon
  <2>3. Busy(w)' /\ worker'[w][2] = d /\ Holds(w)'
    <3>1. entries'[d] = loaded'[d] /\ ~Skips(d)' /\ Asked(d)' /\ fetched'[d] = None
      BY <1>1, <1>2, <1>4, Zenon DEF Holds, Skips, Asked, Answered
    <3>2. worker'[w][1] = "fetch" /\ worker'[w][2] = d
      BY <2>2
    <3>3. QED
      BY <3>1, <3>2, Zenon DEF Busy, Steps, Holds
  <2>4. QED
    BY <1>1, <1>2, <2>1, <2>2, <2>3, DepWorker, Zenon
<1>5. QED
  BY <1>3, <1>4, Zenon

\* The worker is told to come back and asks again.
LEMMA DepLimited ==
    ASSUME DTypeOK, PoolInv, DepInv, NEW w \in Workers, NEW d \in D, d = worker[w][2],
           FetchLimited(w)
    PROVE  DepInv'
<1> USE DEF guard, disk, world, request
<1>1. Busy(w) /\ worker[w][1] = "fetch"
      /\ UNCHANGED <<phase, next, opts, loaded, entries, fetched, results>>
  BY Zenon DEF FetchLimited, Busy, Steps
<1>2. d \in D /\ InRun /\ Holds(w)
  BY BusyHolds, <1>1, Zenon
<1>3. worker'[w] = <<"again", d, None>> /\ \A v \in Workers : v # w => worker'[v] = worker[v]
  <2>1. worker' = [worker EXCEPT ![w] = <<"again", d, None>>]
    BY Zenon DEF FetchLimited, Step
  <2>2. QED
    BY <2>1, WorkerMoves, Zenon
<1>4. Busy(w)' /\ worker'[w][2] = d /\ Holds(w)'
  <2>1. entries'[d] = loaded'[d] /\ ~Skips(d)' /\ Asked(d)' /\ fetched'[d] = None
    BY <1>1, <1>2, Zenon DEF Holds, Skips, Asked
  <2>2. worker'[w][1] = "again" /\ worker'[w][2] = d
    BY <1>3
  <2>3. QED
    BY <2>1, <2>2, Zenon DEF Busy, Steps, Holds
<1>5. QED
  BY <1>1, <1>2, <1>3, <1>4, DepWorker, Zenon

\* Upstream answers the worker.
LEMMA DepFetch ==
    ASSUME DTypeOK, PoolInv, DepInv, NEW w \in Workers, NEW d \in D, d = worker[w][2],
           NEW answer \in {now, Unknown}, Fetch(w, answer)
    PROVE  DepInv'
<1> USE DEF guard, disk, world, request
<1>1. Busy(w) /\ worker[w][1] \in {"fetch", "again"}
      /\ UNCHANGED <<phase, next, opts, loaded, entries, results>>
  BY Zenon DEF Fetch, Busy, Steps
<1>2. d \in D /\ InRun /\ Holds(w)
  BY BusyHolds, <1>1, Zenon
<1>3. worker'[w] = <<"commit", d, answer>> /\ \A v \in Workers : v # w => worker'[v] = worker[v]
  <2>1. worker' = [worker EXCEPT ![w] = <<"commit", d, answer>>]
    BY Zenon DEF Fetch, Step
  <2>2. QED
    BY <2>1, WorkerMoves, Zenon
<1>4. fetched'[d] = answer /\ \A e \in D : e # d => fetched'[e] = fetched[e]
  BY <1>2, Zenon DEF Fetch, DTypeOK
<1>5. answer # None
  <2>1. now \in Nat
    BY Zenon DEF DTypeOK
  <2>2. QED
    BY <2>1 DEF None, Unknown
<1>6. Busy(w)' /\ worker'[w][2] = d /\ Holds(w)'
  <2>1. entries'[d] = loaded'[d] /\ ~Skips(d)' /\ Asked(d)'
    BY <1>1, <1>2, Zenon DEF Holds, Skips, Asked
  <2>2. worker'[w][1] = "commit" /\ worker'[w][2] = d /\ worker'[w][3] = answer
    BY <1>3
  <2>3. QED
    BY <1>4, <1>5, <2>1, <2>2, Zenon DEF Busy, Steps, Holds
<1>7. QED
  BY <1>1, <1>2, <1>3, <1>4, <1>6, DepWorker, Zenon

\* The worker commits the answer.
LEMMA DepCommit ==
    ASSUME DTypeOK, PoolInv, DepInv, NEW w \in Workers, NEW d \in D, d = worker[w][2],
           Commit(w)
    PROVE  DepInv'
<1> USE DEF guard, disk, world, request
<1>1. Busy(w) /\ worker[w][1] = "commit" /\ UNCHANGED <<phase, next, opts, loaded, fetched>>
  BY Zenon DEF Commit, Busy, Steps
<1>2. d \in D /\ InRun /\ Holds(w)
  BY BusyHolds, <1>1, Zenon
<1>3. worker'[w] = Idle /\ \A v \in Workers : v # w => worker'[v] = worker[v]
  BY WorkerMoves, Zenon DEF Commit
<1>4. /\ results'[d] = worker[w][3] /\ entries'[d] = Committed(d, worker[w][3])[d]
      /\ \A e \in D : e # d => results'[e] = results[e] /\ entries'[e] = entries[e]
  BY <1>2, Zenon DEF Commit, Committed, DTypeOK
<1>5. fetched[d] = worker[w][3] /\ worker[w][3] # None /\ Asked(d) /\ entries[d] = loaded[d]
  BY <1>1, <1>2, Zenon DEF Holds
<1>6. results'[d] = Right(d)'
  BY <1>1, <1>4, <1>5, Zenon DEF Right, Asked
<1>7. entries'[d] = Learned(d)'
  BY <1>1, <1>2, <1>4, <1>5, Zenon DEF Learned, Committed, Asked, DTypeOK
<1>8. QED
  BY <1>1, <1>2, <1>3, <1>4, <1>6, <1>7, DepWorker, Zenon

\* Every step keeps what is known of the dependencies.
LEMMA DepStep ==
    ASSUME DTypeOK, DTypeOK', PoolInv, PoolInv', DepInv, [CacheNext]_cacheVars
    PROVE  DepInv'
<1> USE DEF guard, disk, world, request
<1>1. CASE \E o \in {{}, {"fresh"}, {"offline"}}, n \in 0..Cardinality(Workers) : StartRun(o, n)
  <2>1. next' = 1 /\ entries' = loaded' /\ fetched' = NoEntries
    BY <1>1, Zenon DEF StartRun
  <2>2. \A w \in Workers : ~Busy(w)'
    BY <1>1, NotBusy, Zenon DEF StartRun, Busy
  <2>3. \A d : ~Fed(d)'
    BY <2>1 DEF Fed
  <2>4. QED
    BY <2>1, <2>2, <2>3, Zenon DEF DepInv, Untouched, NoEntries
<1>2. CASE FeedSkip
  <2> DEFINE d0 == Deps[next]
  <2>1. d0 \in D /\ ~Fed(d0)
    BY <1>2, FeederAt, Zenon DEF FeedSkip
  <2>2. \A d : Fed(d)' <=> (Fed(d) \/ d = d0)
    BY <1>2 DEF FeedSkip, Fed, DTypeOK
  <2>3. InRun /\ UNCHANGED <<opts, loaded, entries, fetched, worker>> /\ Skips(d0)
        /\ results' = [results EXCEPT ![d0] = Skipped]
    BY <1>2, Zenon DEF FeedSkip, InRun, Skips
  <2>4. \A d : Held(d)' <=> Held(d)
    BY <2>3, Zenon DEF Held, Busy
  <2>5. \A w \in Workers : Busy(w)' => Holds(w)'
    BY <2>3, Zenon DEF DepInv, Busy, Holds, Skips, Asked
  <2>6. results'[d0] = Skipped /\ \A d \in D : d # d0 => results'[d] = results[d]
    BY <2>1, <2>3, Zenon DEF DTypeOK
  <2>7. \A d \in D : d = d0 => results'[d] = Right(d)' /\ entries'[d] = Learned(d)'
    BY <2>1, <2>3, <2>6 DEF DepInv, Untouched, Right, Learned, Skips, None, Unknown
  <2>8. \A d \in D : d # d0 /\ Fed(d)' /\ ~Held(d)' => results'[d] = Right(d)'
        /\ entries'[d] = Learned(d)'
    BY <2>2, <2>3, <2>4, <2>6, Zenon DEF DepInv, Right, Learned
  <2>9. \A d \in D : ~Fed(d)' => Untouched(d)'
    BY <2>2, <2>3, Zenon DEF DepInv, Untouched
  <2>10. QED
    BY <2>5, <2>7, <2>8, <2>9, Zenon DEF DepInv
<1>3. CASE CloseJobs \/ Waited \/ SaveTemp \/ SaveFails \/ Rename \/ Tick
  BY <1>3, DepQuiet, Zenon DEF CloseJobs, Waited, SaveTemp, SaveFails, Rename, Tick, InRun
<1>4. CASE \E w \in Workers : Work(w)
  <2>1. PICK w \in Workers : Work(w)
    BY <1>4, Zenon
  <2>2. PICK d \in D : d = worker[w][2]
    BY Zenon DEF DTypeOK
  <2>3. CASE \E answer \in {now, Unknown} : Fetch(w, answer)
    BY <2>2, <2>3, DepFetch, Zenon
  <2>4. CASE FeedJob(w) \/ WorkerEnds(w)
    BY <2>4, DepFeed, DepEnds, Zenon
  <2>5. CASE Peek(w) \/ FetchLimited(w) \/ Commit(w)
    BY <2>2, <2>5, DepPeek, DepLimited, DepCommit, Zenon
  <2>6. QED
    BY <2>1, <2>3, <2>4, <2>5, Zenon DEF Work
<1>5. CASE Crash
  BY <1>5, Zenon DEF Crash, DepInv, InRun
<1>6. CASE UNCHANGED cacheVars
  BY <1>6, DepQuiet, Zenon DEF cacheVars, InRun
<1>7. QED
  BY <1>1, <1>2, <1>3, <1>4, <1>5, <1>6, Zenon DEF CacheNext, Run

LEMMA CStep == CInv /\ [CacheNext]_cacheVars => CInv'
BY TypeStep, PoolStep, DepStep, Zenon DEF CInv

LEMMA Invariance == CacheSpec => []CInv
BY CInit, CStep, PTL DEF CacheSpec

------------------------------------------------------------------------------
\* At the end of a run every dependency was fed and none is held.
LEMMA AllSettled ==
    ASSUME CInv, phase = "report", NEW d \in D
    PROVE  results[d] = Right(d) /\ entries[d] = Learned(d)
<1>1. Fed(d)
  BY DepsAssumption DEF CInv, PoolInv, Fed, D
<1>2. ~Held(d)
  BY Zenon DEF CInv, PoolInv, Held
<1>3. QED
  BY <1>1, <1>2, Zenon DEF CInv, DepInv, InRun

\* Every answer of every run is earned, whatever the workers' order.
LEMMA AnswersAreEarned == CInv => AnswersEarned
BY AllSettled, Zenon DEF AnswersEarned, Right

\* What is saved is what the run learned and nothing else.
LEMMA SavesWhatItLearned == CInv => SavedIsLearned
<1> SUFFICES ASSUME CInv, phase = "report", saved
             PROVE  written >= 0 /\ \A d \in D : file[d] = Learned(d)
  BY Zenon DEF SavedIsLearned, Learned
<1>1. written \in Nat /\ file = entries
  BY Zenon DEF CInv, PoolInv
<1>2. QED
  BY <1>1, AllSettled

\* A run that loads the file finds it whole or finds none: Save replaces it by
\* a rename, so no crash leaves half of it behind.
LEMMA FileStaysWhole == CInv => FileWhole
BY DEF CInv, DTypeOK, FileWhole, Missing, Torn

\* The cache is sound over any number of runs, workers, failures and crashes:
\* every answer is earned, what is saved was learned, and the file is whole.
THEOREM CacheStaysSound == CacheSpec => []CacheSound
<1>1. CInv => CacheSound
  BY AnswersAreEarned, SavesWhatItLearned, FileStaysWhole, Zenon DEF CacheSound
<1>2. QED
  BY <1>1, Invariance, PTL
=============================================================================
