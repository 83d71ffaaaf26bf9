----------------------------- MODULE Controller -----------------------------
(***************************************************************************)
(* The controller core (core/controller/c/core/controller.c): the handlers  *)
(* the queue thread runs, the reconcile pass that fires stage ops, the      *)
(* worker pool that runs them, the wait group that counts them, and the     *)
(* shutdown sequence of main.                                               *)
(*                                                                         *)
(* The queue is a FIFO whose actions run one at a time: that is what module *)
(* SerialQueue promises and module ActionQueue implements.  A handler that  *)
(* touches only the queue thread's own state is one step.  A reconcile pass *)
(* and a teardown take one step per stage, because begin_shutdown and the   *)
(* running ops interleave with them; a fire takes two (the generation is    *)
(* bumped before the job is handed over, and running ops read it).          *)
(* What an op does to its container is the subject of module StageOps; here *)
(* an op returns success or failure at any time.                            *)
(***************************************************************************)
EXTENDS Integers, Sequences, FiniteSets

CONSTANTS
    NStages,          \* STRIM_STAGE_NAME_COUNT
    Paths,            \* strim_path_name
    PathRoutes,       \* [some of Paths \X PathStatus -> Target]
    ControlRoutes,    \* [commands with a route -> Target]
    Commands,         \* the commands a client sends; one without a route stands
                      \* for every POST the handlers reject (a field is missing)
    NoPath,           \* "no prerequisite"
    InitialDesired,   \* status.desired each stage is seeded with
    Workers,          \* STRIM_CTRL_WORKERS
    Timeout,          \* inflight_timeout_ms
    MaxNow,           \* bound: the clock stops here
    MaxFires,         \* bound: fires of one stage
    MaxQueue          \* bound: actions queued when another input arrives

Stages     == 1..NStages
StageState == {"stopped", "running"}
PathStatus == {"unknown", "ready", "not_ready"}
Target     == [stage : Stages, state : StageState, prereq : Paths \cup {NoPath}]

ASSUME ConfigAssumption ==
    /\ NStages \in Nat \ {0}
    /\ NoPath \notin Paths
    /\ DOMAIN PathRoutes \subseteq Paths \X PathStatus
    /\ \A k \in DOMAIN PathRoutes : PathRoutes[k] \in Target
    /\ \A k \in DOMAIN ControlRoutes : ControlRoutes[k] \in Target
    /\ InitialDesired \in [Stages -> StageState]
    /\ Workers \in Nat \ {0}
    /\ Timeout \in Nat \ {0}
    /\ MaxNow \in Nat \ {0}
    /\ MaxFires \in Nat
    /\ MaxQueue \in Nat

\* Actions: the blocking submits of the HTTP thread, of the event listener and
\* of main, the coalesced reconcile, and the clear of a failed op.
PathEvent(p, st)  == [kind |-> "path", path |-> p, status |-> st]
Control(cmd)      == [kind |-> "control", cmd |-> cmd]
StageEvent(s, st) == [kind |-> "stage", stage |-> s, state |-> st]
Reconcile         == [kind |-> "reconcile"]
Clear(s, g)       == [kind |-> "clear", stage |-> s, gen |-> g]
Teardown          == [kind |-> "teardown"]

VARIABLES
    desired, actual,     \* strim_stage.status
    in_flight_since,     \* 0: not in flight
    op_generation,
    paths,
    now,                 \* now_ms(), monotonic
    q, reconcile_queued, q_closed,
    shutting_down,
    act,                 \* the queue thread: "idle", or the pass it is inside
    cursor,              \* the loop index of a reconcile or teardown pass
    pool,                \* jobs no worker has taken yet
    active,              \* jobs on a worker, with the worker's position
    wg,                  \* ops_wg.count
    http,                \* "idle", "blocked", or "accepted" (rc = 0)
    listener,            \* "idle" or "blocked"
    main                 \* how far strim's run() is into its shutdown

stageVars == <<desired, actual, in_flight_since, op_generation>>
queueVars == <<q, reconcile_queued, q_closed>>
opVars    == <<pool, active, wg>>
callers   == <<http, listener, main>>
vars == <<stageVars, paths, now, queueVars, shutting_down, act, cursor,
          opVars, callers>>

\* strim_op_job, and the same job on a worker.
Job       == [stage : Stages, gen : Nat, target : StageState, deadline : Nat]
ActiveJob == [stage : Stages, gen : Nat, target : StageState, deadline : Nat,
              pc : {"op", "clear", "done"}]

\* strim_controller_new, with the seeds of main's run().
Init ==
    /\ desired = InitialDesired
    /\ actual = [s \in Stages |-> "stopped"]
    /\ in_flight_since = [s \in Stages |-> 0]
    /\ op_generation = [s \in Stages |-> 0]
    /\ paths = [p \in Paths |-> "unknown"]
    /\ now = 1
    /\ q = <<>> /\ reconcile_queued = FALSE /\ q_closed = FALSE
    /\ shutting_down = FALSE
    /\ act = "idle" /\ cursor = 1
    /\ pool = <<>> /\ active = {} /\ wg = 0
    /\ http = "idle" /\ listener = "idle" /\ main = "serving"

\* q_lock is held from the generation bump of a fire to its submit.
LockFree == act # "firing"

Tick ==
    /\ now < MaxNow
    /\ now' = now + 1
    /\ UNCHANGED <<stageVars, paths, queueVars, shutting_down, act, cursor,
                   opVars, callers>>

------------------------------------------------------------------------------
(* The submit surface, as the HTTP thread, the listener, the ticker and main *)
(* call it while they are up.                                                *)

\* A POST /event or /control the HTTP thread accepted, blocked on its reply.
HttpSubmit ==
    /\ main = "serving" /\ http = "idle" /\ LockFree
    /\ Len(q) < MaxQueue
    /\ \E a \in {PathEvent(p, st) : p \in Paths, st \in PathStatus}
                \cup {Control(cmd) : cmd \in Commands} :
          q' = Append(q, a)
    /\ http' = "blocked"
    /\ UNCHANGED <<stageVars, paths, now, reconcile_queued, q_closed,
                   shutting_down, act, cursor, opVars, listener, main>>

\* Mutant: the listener is not joined, and goes on while main shuts down.
ListenerSubmitUnjoined ==
    /\ ~q_closed /\ listener = "idle" /\ LockFree
    /\ Len(q) < MaxQueue
    /\ \E s \in Stages, st \in StageState : q' = Append(q, StageEvent(s, st))
    /\ listener' = "blocked"
    /\ UNCHANGED <<stageVars, paths, now, reconcile_queued, q_closed,
                   shutting_down, act, cursor, opVars, http, main>>

\* A TaskStart or TaskExit event of a configured container.
ListenerSubmit ==
    /\ main = "serving" /\ listener = "idle" /\ LockFree
    /\ Len(q) < MaxQueue
    /\ \E s \in Stages, st \in StageState : q' = Append(q, StageEvent(s, st))
    /\ listener' = "blocked"
    /\ UNCHANGED <<stageVars, paths, now, reconcile_queued, q_closed,
                   shutting_down, act, cursor, opVars, http, main>>

EnqueueReconcile ==
    IF q_closed \/ reconcile_queued
      THEN UNCHANGED queueVars
      ELSE /\ q' = Append(q, Reconcile)
           /\ reconcile_queued' = TRUE
           /\ UNCHANGED q_closed

\* dispatch_post requests a reconcile once the submit returned 0.
HttpRequestReconcile ==
    /\ http = "accepted" /\ LockFree
    /\ EnqueueReconcile
    /\ http' = "idle"
    /\ UNCHANGED <<stageVars, paths, now, shutting_down, act, cursor, opVars,
                   listener, main>>

TickerRequestReconcile ==
    /\ main = "serving" /\ LockFree
    /\ ~reconcile_queued
    /\ EnqueueReconcile
    /\ UNCHANGED <<stageVars, paths, now, shutting_down, act, cursor, opVars,
                   callers>>

------------------------------------------------------------------------------
(* The handlers, run by the queue thread.                                    *)

Pops(kind) == act = "idle" /\ q # <<>> /\ Head(q).kind = kind

\* apply_desired_stage_target fails: the target is new and its prerequisite
\* path is not ready.
Rejected(t, ps) ==
    /\ desired[t.stage] # t.state
    /\ t.prereq # NoPath
    /\ ps[t.prereq] # "ready"

ApplyDesiredStageTarget(t, ps) ==
    IF Rejected(t, ps)
      THEN desired' = desired /\ http' = "idle"
      ELSE desired' = [desired EXCEPT ![t.stage] = t.state] /\ http' = "accepted"

\* The status is recorded first, whether or not a route matches.
HandlePathEvent ==
    /\ Pops("path")
    /\ LET e   == Head(q)
           key == <<e.path, e.status>>
       IN  /\ paths' = [paths EXCEPT ![e.path] = e.status]
           /\ IF key \in DOMAIN PathRoutes
                THEN ApplyDesiredStageTarget(PathRoutes[key], paths')
                ELSE desired' = desired /\ http' = "accepted"
    /\ q' = Tail(q)
    /\ UNCHANGED <<actual, in_flight_since, op_generation, now,
                   reconcile_queued, q_closed, shutting_down, act, cursor,
                   opVars, listener, main>>

HandleControl ==
    /\ Pops("control")
    /\ LET cmd == Head(q).cmd
       IN  IF cmd \in DOMAIN ControlRoutes
             THEN ApplyDesiredStageTarget(ControlRoutes[cmd], paths)
             ELSE desired' = desired /\ http' = "idle"
    /\ q' = Tail(q)
    /\ UNCHANGED <<actual, in_flight_since, op_generation, paths, now,
                   reconcile_queued, q_closed, shutting_down, act, cursor,
                   opVars, listener, main>>

\* Mutant: an event nobody waits for is taken for a late one.
HandleStageEventInFlight ==
    /\ Pops("stage")
    /\ actual' = IF in_flight_since[Head(q).stage] = 0 THEN actual
                 ELSE [actual EXCEPT ![Head(q).stage] = Head(q).state]
    /\ in_flight_since' = [in_flight_since EXCEPT ![Head(q).stage] = 0]
    /\ listener' = "idle"
    /\ q' = Tail(q)
    /\ UNCHANGED <<desired, op_generation, paths, now, reconcile_queued,
                   q_closed, shutting_down, act, cursor, opVars, http, main>>

HandleStageEvent ==
    /\ Pops("stage")
    /\ actual' = [actual EXCEPT ![Head(q).stage] = Head(q).state]
    /\ in_flight_since' = [in_flight_since EXCEPT ![Head(q).stage] = 0]
    /\ listener' = "idle"
    /\ q' = Tail(q)
    /\ UNCHANGED <<desired, op_generation, paths, now, reconcile_queued,
                   q_closed, shutting_down, act, cursor, opVars, http, main>>

\* Mutant: any clear wipes the marker, whichever fire it belongs to.
HandleClearUnstamped ==
    /\ Pops("clear")
    /\ in_flight_since' = [in_flight_since EXCEPT ![Head(q).stage] = 0]
    /\ q' = Tail(q)
    /\ UNCHANGED <<desired, actual, op_generation, paths, now,
                   reconcile_queued, q_closed, shutting_down, act, cursor,
                   opVars, callers>>

\* ACTION_CLEAR_INFLIGHT: only the clear of the live generation counts.
HandleClear ==
    /\ Pops("clear")
    /\ in_flight_since' =
         IF op_generation[Head(q).stage] = Head(q).gen
           THEN [in_flight_since EXCEPT ![Head(q).stage] = 0]
           ELSE in_flight_since
    /\ q' = Tail(q)
    /\ UNCHANGED <<desired, actual, op_generation, paths, now,
                   reconcile_queued, q_closed, shutting_down, act, cursor,
                   opVars, callers>>

\* The loop of a pass goes on to the next stage, or ends.
Advance ==
    IF cursor < NStages
      THEN cursor' = cursor + 1
      ELSE cursor' = 1

\* Mutant: a pass starts over when it has done the last stage.
PassRepeats(pass) == pass

AfterStage(pass) == IF cursor < NStages THEN pass ELSE "idle"

------------------------------------------------------------------------------
(* handle_reconcile.                                                         *)

\* Mutant: reconcile_queued is not reset, so no request gets through again.
ReconcileBeginKeepsFlag ==
    /\ Pops("reconcile")
    /\ q' = Tail(q)
    /\ act' = IF shutting_down THEN "idle" ELSE "reconcile"
    /\ UNCHANGED <<stageVars, paths, now, reconcile_queued, q_closed,
                   shutting_down, cursor, opVars, callers>>

ReconcileBegin ==
    /\ Pops("reconcile")
    /\ q' = Tail(q)
    /\ reconcile_queued' = FALSE
    /\ act' = IF shutting_down THEN "idle" ELSE "reconcile"
    /\ UNCHANGED <<stageVars, paths, now, q_closed, shutting_down, cursor,
                   opVars, callers>>

Converged(s) == desired[s] = actual[s]

\* planReconcile: not in flight, or in flight for too long.
PlanReconcile(s) ==
    \/ in_flight_since[s] = 0
    \/ now - in_flight_since[s] >= Timeout

ReconcileConverged ==
    /\ act = "reconcile" /\ Converged(cursor)
    /\ in_flight_since' = [in_flight_since EXCEPT ![cursor] = 0]
    /\ act' = AfterStage("reconcile") /\ Advance
    /\ UNCHANGED <<desired, actual, op_generation, paths, now, queueVars,
                   shutting_down, opVars, callers>>

\* In flight and not timed out, or suppressed by the re-check of
\* shutting_down under q_lock.
ReconcileSkip ==
    /\ act = "reconcile" /\ ~Converged(cursor)
    /\ ~PlanReconcile(cursor) \/ shutting_down
    /\ act' = AfterStage("reconcile") /\ Advance
    /\ UNCHANGED <<stageVars, paths, now, queueVars, shutting_down, opVars,
                   callers>>

\* The job cannot be allocated: the stage is left untouched.
FireNoMemory ==
    /\ act = "reconcile" /\ ~Converged(cursor) /\ PlanReconcile(cursor)
    /\ ~shutting_down
    /\ act' = AfterStage("reconcile") /\ Advance
    /\ UNCHANGED <<stageVars, paths, now, queueVars, shutting_down, opVars,
                   callers>>

\* Mutant: only the check at the top of handle_reconcile is left.
FireUnchecked ==
    /\ act = "reconcile" /\ ~Converged(cursor) /\ PlanReconcile(cursor)
    /\ op_generation[cursor] < MaxFires
    /\ in_flight_since' = [in_flight_since EXCEPT ![cursor] = now]
    /\ op_generation' = [op_generation EXCEPT ![cursor] = @ + 1]
    /\ wg' = wg + 1
    /\ act' = "firing"
    /\ UNCHANGED <<desired, actual, paths, now, queueVars, shutting_down,
                   cursor, pool, active, callers>>

\* Mutant: a retry reuses the generation of the op it replaces.
FireSameGeneration ==
    /\ act = "reconcile" /\ ~Converged(cursor) /\ PlanReconcile(cursor)
    /\ ~shutting_down
    /\ op_generation[cursor] < MaxFires
    /\ in_flight_since' = [in_flight_since EXCEPT ![cursor] = now]
    /\ op_generation' = [op_generation EXCEPT
                           ![cursor] = IF in_flight_since[cursor] = 0
                                         THEN @ + 1 ELSE @]
    /\ wg' = wg + 1
    /\ act' = "firing"
    /\ UNCHANGED <<desired, actual, paths, now, queueVars, shutting_down,
                   cursor, pool, active, callers>>

\* The fire, under q_lock: mark the stage in flight, bump the generation,
\* count the op ...
Fire ==
    /\ act = "reconcile" /\ ~Converged(cursor) /\ PlanReconcile(cursor)
    /\ ~shutting_down
    /\ op_generation[cursor] < MaxFires
    /\ in_flight_since' = [in_flight_since EXCEPT ![cursor] = now]
    /\ op_generation' = [op_generation EXCEPT ![cursor] = @ + 1]
    /\ wg' = wg + 1
    /\ act' = "firing"
    /\ UNCHANGED <<desired, actual, paths, now, queueVars, shutting_down,
                   cursor, pool, active, callers>>

\* ... and hand it to the pool,
FireSubmitted ==
    /\ act = "firing"
    /\ pool' = Append(pool, [stage |-> cursor, gen |-> op_generation[cursor],
                             target |-> desired[cursor],
                             deadline |-> in_flight_since[cursor] + Timeout])
    /\ act' = AfterStage("reconcile") /\ Advance
    /\ UNCHANGED <<stageVars, paths, now, queueVars, shutting_down, active, wg,
                   callers>>

WgDone(n) == IF n > 0 THEN n - 1 ELSE n

\* ... or, when workerpool_submit is out of memory, undo all of it.
FireUndone ==
    /\ act = "firing"
    /\ wg' = WgDone(wg)
    /\ in_flight_since' = [in_flight_since EXCEPT ![cursor] = 0]
    /\ op_generation' = [op_generation EXCEPT ![cursor] = @ - 1]
    /\ act' = AfterStage("reconcile") /\ Advance
    /\ UNCHANGED <<desired, actual, paths, now, queueVars, shutting_down,
                   pool, active, callers>>

------------------------------------------------------------------------------
(* The workers: worker_main and run_stage_op.                                *)

OnWorker(j, pc) == [stage |-> j.stage, gen |-> j.gen, target |-> j.target,
                    deadline |-> j.deadline, pc |-> pc]

WorkerTake ==
    /\ pool # <<>>
    /\ Cardinality(active) < Workers
    /\ active' = active \cup {OnWorker(Head(pool), "op")}
    /\ pool' = Tail(pool)
    /\ UNCHANGED <<stageVars, paths, now, queueVars, shutting_down, act, cursor,
                   wg, callers>>

\* strim_stage_op_superseded
Superseded(j) == op_generation[j.stage] # j.gen

\* The op succeeded, or failed after it was superseded: only wg_done is left.
OpReturn(j) ==
    /\ j \in active /\ j.pc = "op"
    /\ active' = active \ {j}
    /\ wg' = WgDone(wg)
    /\ UNCHANGED <<stageVars, paths, now, queueVars, shutting_down, act, cursor,
                   pool, callers>>

\* The op failed while it was the live fire: its marker is to be cleared.
OpFail(j) ==
    /\ j \in active /\ j.pc = "op"
    /\ ~Superseded(j)
    /\ active' = (active \ {j}) \cup {OnWorker(j, "clear")}
    /\ UNCHANGED <<stageVars, paths, now, queueVars, shutting_down, act, cursor,
                   pool, wg, callers>>

\* The stamped clear is posted, unless memory is short or the queue is closed.
OpPostClear(j) ==
    /\ j \in active /\ j.pc = "clear" /\ LockFree
    /\ active' = (active \ {j}) \cup {OnWorker(j, "done")}
    /\ \/ ~q_closed /\ q' = Append(q, Clear(j.stage, j.gen))
       \/ q' = q
    /\ UNCHANGED <<stageVars, paths, now, reconcile_queued, q_closed,
                   shutting_down, act, cursor, pool, wg, callers>>

OpDone(j) ==
    /\ j \in active /\ j.pc = "done"
    /\ active' = active \ {j}
    /\ wg' = WgDone(wg)
    /\ UNCHANGED <<stageVars, paths, now, queueVars, shutting_down, act, cursor,
                   pool, callers>>

------------------------------------------------------------------------------
(* Shutdown: run() joins the HTTP, ticker and listener threads, then calls   *)
(* begin_shutdown, WaitForOps, Teardown and Close, and joins the queue thread *)

JoinThreads ==
    /\ main = "serving" /\ http = "idle" /\ listener = "idle"
    /\ main' = "joined"
    /\ UNCHANGED <<stageVars, paths, now, queueVars, shutting_down, act, cursor,
                   opVars, http, listener>>

BeginShutdown ==
    /\ main = "joined" /\ LockFree
    /\ shutting_down' = TRUE
    /\ main' = "begun"
    /\ UNCHANGED <<stageVars, paths, now, queueVars, act, cursor, opVars, http,
                   listener>>

WaitForOps ==
    /\ main = "begun" /\ wg = 0
    /\ main' = "waited"
    /\ UNCHANGED <<stageVars, paths, now, queueVars, shutting_down, act, cursor,
                   opVars, http, listener>>

SubmitTeardown ==
    /\ main = "waited" /\ LockFree
    /\ q' = Append(q, Teardown)
    /\ main' = "tearing"
    /\ UNCHANGED <<stageVars, paths, now, reconcile_queued, q_closed,
                   shutting_down, act, cursor, opVars, http, listener>>

Close ==
    /\ main = "torn" /\ LockFree
    /\ q_closed' = TRUE
    /\ shutting_down' = TRUE
    /\ main' = "closed"
    /\ UNCHANGED <<stageVars, paths, now, q, reconcile_queued, act, cursor,
                   opVars, http, listener>>

\* The queue thread leaves its loop, closed and drained; main joins it.
RunReturns ==
    /\ act = "idle" /\ q = <<>> /\ q_closed
    /\ main = "closed"
    /\ act' = "exited"
    /\ main' = "done"
    /\ UNCHANGED <<stageVars, paths, now, queueVars, shutting_down, cursor,
                   opVars, http, listener>>

TeardownBegin ==
    /\ Pops("teardown")
    /\ q' = Tail(q)
    /\ act' = "teardown"
    /\ UNCHANGED <<stageVars, paths, now, reconcile_queued, q_closed,
                   shutting_down, cursor, opVars, callers>>

\* After the last stage run_action replies to main.
TeardownAdvance ==
    /\ act' = AfterStage("teardown") /\ Advance
    /\ main' = IF cursor < NStages THEN main ELSE "torn"

TeardownSkip ==
    /\ act = "teardown" /\ actual[cursor] # "running"
    /\ TeardownAdvance
    /\ UNCHANGED <<stageVars, paths, now, queueVars, shutting_down, opVars,
                   http, listener>>

\* The stop op runs on the queue thread, with no cancel handle ...
TeardownStop ==
    /\ act = "teardown" /\ actual[cursor] = "running"
    /\ op_generation' = [op_generation EXCEPT ![cursor] = @ + 1]
    /\ act' = "stopping"
    /\ UNCHANGED <<desired, actual, in_flight_since, paths, now, queueVars,
                   shutting_down, cursor, opVars, callers>>

\* ... and the stage is marked stopped whatever it returned.
TeardownMark ==
    /\ act = "stopping"
    /\ desired' = [desired EXCEPT ![cursor] = "stopped"]
    /\ actual' = [actual EXCEPT ![cursor] = "stopped"]
    /\ in_flight_since' = [in_flight_since EXCEPT ![cursor] = 0]
    /\ TeardownAdvance
    /\ UNCHANGED <<op_generation, paths, now, queueVars, shutting_down, opVars,
                   http, listener>>

Terminated == main = "done" /\ UNCHANGED vars

QueueThread ==
    \/ HandlePathEvent \/ HandleControl \/ HandleStageEvent \/ HandleClear
    \/ ReconcileBegin \/ ReconcileConverged \/ ReconcileSkip \/ FireNoMemory
    \/ Fire \/ FireSubmitted \/ FireUndone
    \/ TeardownBegin \/ TeardownSkip \/ TeardownStop \/ TeardownMark
    \/ RunReturns

Worker ==
    \/ WorkerTake
    \/ \E j \in active : \/ OpReturn(j)
                         \/ OpFail(j)
                         \/ OpPostClear(j)
                         \/ OpDone(j)

\* What main does once it has seen the shutdown signal.
Shutdown == BeginShutdown \/ WaitForOps \/ SubmitTeardown \/ Close

Callers ==
    \/ HttpSubmit \/ ListenerSubmit
    \/ HttpRequestReconcile \/ TickerRequestReconcile
    \/ JoinThreads

Next == Tick \/ Callers \/ QueueThread \/ Worker \/ Shutdown \/ Terminated

\* The scheduler runs every thread that can run, and an op returns: each of
\* its RPCs has a timeout.  Nothing makes a client, containerd or an operator
\* act.
Fairness == WF_vars(QueueThread) /\ WF_vars(Worker) /\ WF_vars(Shutdown)

Spec == Init /\ [][Next]_vars /\ Fairness

------------------------------------------------------------------------------
Action ==
    [kind : {"path"}, path : Paths, status : PathStatus]
      \cup [kind : {"control"}, cmd : Commands]
      \cup [kind : {"stage"}, stage : Stages, state : StageState]
      \cup [kind : {"clear"}, stage : Stages, gen : Nat]
      \cup {Reconcile, Teardown}

\* Every variable has the type the code gives it; a pass over the stages stays
\* inside the stage array.
TypeOK ==
    /\ desired \in [Stages -> StageState]
    /\ actual \in [Stages -> StageState]
    /\ in_flight_since \in [Stages -> Nat]
    /\ op_generation \in [Stages -> Nat]
    /\ paths \in [Paths -> PathStatus]
    /\ now \in Nat
    /\ q \in Seq(Action)
    /\ reconcile_queued \in BOOLEAN
    /\ q_closed \in BOOLEAN
    /\ shutting_down \in BOOLEAN
    /\ act \in {"idle", "reconcile", "firing", "teardown", "stopping", "exited"}
    /\ cursor \in Stages
    /\ pool \in Seq(Job)
    /\ active \subseteq ActiveJob
    /\ wg \in Nat
    /\ http \in {"idle", "blocked", "accepted"}
    /\ listener \in {"idle", "blocked"}
    /\ main \in {"serving", "joined", "begun", "waited", "tearing", "torn",
                 "closed", "done"}

\* The live ops of a stage: waiting for a worker or running, and not
\* superseded.
LiveInPool(s) ==
    {i \in DOMAIN pool : pool[i].stage = s /\ ~Superseded(pool[i])}
LiveOnWorker(s) ==
    {j \in active : j.stage = s /\ j.pc = "op" /\ ~Superseded(j)}

\* At most one op of a stage is live: whatever mixture of retries, stage
\* events, failures and undone fires came before, every other op of that stage
\* finds itself superseded at its next safe point (op_generation, 1045-1060).
OneLiveOp ==
    \A s \in Stages :
        /\ \A i, k \in LiveInPool(s) : i = k
        /\ \A j, k \in LiveOnWorker(s) : j = k
        /\ LiveInPool(s) = {} \/ LiveOnWorker(s) = {}

\* A queued clear can only wipe the marker of the fire that failed: whenever
\* its generation is the current one, that fire's op has already returned
\* (run_action, 1180-1191), so a clear never lets a further op start beside a
\* live one.
ClearFreesNoLiveFire ==
    [][(Pops("clear") /\ q' = Tail(q)) =>
          LET s == Head(q).stage
          IN  in_flight_since'[s] # in_flight_since[s] =>
                 LiveInPool(s) = {} /\ LiveOnWorker(s) = {}]_vars

\* The wait group counts exactly the ops that have not finished, also after a
\* fire was undone (wg_add, wg_done).
WaitGroupExact ==
    wg = Len(pool) + Cardinality(active) + (IF act = "firing" THEN 1 ELSE 0)

\* Once WaitForOps has returned, no op runs and none is fired, even when a
\* reconcile pass was half way through the stages when begin_shutdown ran
\* (controller.c 1017-1031): Teardown has the containers to itself.
NoOpAfterWait ==
    main \in {"waited", "tearing", "torn", "closed", "done"} =>
        pool = <<>> /\ active = {} /\ act # "firing"

\* When Teardown has returned every stage is recorded stopped, and stays so
\* until the process ends: no event still queued can revive one.
TeardownIsFinal ==
    main \in {"torn", "closed", "done"} =>
        \A s \in Stages : actual[s] = "stopped"

\* Once run() has joined its threads the shutdown sequence completes: neither
\* WaitForOps nor Teardown nor the join of the queue thread blocks for ever.
ShutdownCompletes == (main = "joined") ~> (main = "done")
=============================================================================
