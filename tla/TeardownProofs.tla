--------------------------- MODULE TeardownProofs ---------------------------
(***************************************************************************)
(* What Teardown leaves, for any number of stages, workers, fires and      *)
(* faults: a task that outlives it has one of three reasons to, as long as *)
(* no task ran when the controller started.                                *)
(***************************************************************************)
EXTENDS StageOpsProofs

\* The task of a stage is stopped, or there is a reason why it is not.
Explained(s) ==
    Runs(world[s]) => ~NoReport(events, s) \/ faults > 0 \/ ~world[s].container

\* Where the stop op of Teardown is, and what it has achieved by then.
StopAt(at) ==
    /\ at \in {"stop", "load_task", "wait_spawned", "kill", "wait", "task_delete",
               "task_force_delete", "task_deleted", "delete_container", "delete_bare",
               "ok", "failed"}
    /\ at = "task_delete" => world[cursor].task = "exited"
    /\ at \in {"task_deleted", "delete_container", "delete_bare"} => ~Runs(world[cursor])
    /\ at \in {"ok", "failed"} => Explained(cursor)

SurvivorInv ==
    /\ faults \in Nat
    /\ \A s \in Stages : ~Pending(s) => Explained(s)
    /\ act = "stopping" => \A o \in ops : StopAt(o.at)

\* A report in the stream stays there when another is sent, and what is
\* explained of one stage stays so when the task of another changes.
LEMMA ExplainedKept ==
    ASSUME OpsInv, NEW s \in Stages, TaskStep(s), NEW t \in Stages, t # s,
           faults \in Nat, faults' \in Nat, faults' >= faults, Explained(t)
    PROVE  Explained(t)'
<1>1. world'[t] = world[t]
  BY Zenon DEF TaskStep
<1>2. ASSUME ~NoReport(events, t) PROVE ~NoReport(events', t)
  <2>1. CASE events' = events
    BY <1>2, <2>1, Zenon
  <2>2. ASSUME NEW st \in StageState, events' = Append(events, StageEvent(s, st))
        PROVE  ~NoReport(events', t)
    <3>1. PICK k \in DOMAIN events : IsReport(events[k], t)
      BY <1>2, Zenon DEF NoReport
    <3>2. k \in DOMAIN events' /\ events'[k] = events[k]
      BY <2>2 DEF OpsInv, OpsType
    <3>3. QED
      BY <3>1, <3>2, Zenon DEF NoReport
  <2>3. QED
    BY <2>1, <2>2, Zenon DEF TaskStep
<1>3. NoReport(events, t)' <=> NoReport(events', t)
  BY Zenon DEF NoReport, IsReport
<1>4. QED
  BY <1>1, <1>2, <1>3 DEF Explained, Runs

\* A call that fails is counted; nothing else is.
LEMMA FaultsCount ==
    ASSUME OpStep
    PROVE  faults' = faults \/ faults' = faults + 1
<1>1. PICK o \in ops :
         \/ StopBegin(o) \/ LoadTask(o) \/ WaitSpawned(o) \/ Kill(o) \/ Waited(o)
         \/ TaskDelete(o) \/ TaskForceDelete(o) \/ TaskDeleted(o)
         \/ DeleteContainer(o)
         \/ StartBegin(o) \/ Prepare(o) \/ NewContainer(o) \/ Created(o)
         \/ NewTask(o) \/ Tasked(o) \/ TaskStart(o)
         \/ CallFails(o)
  BY Zenon DEF OpStep
<1>2. CASE \/ StopBegin(o) \/ LoadTask(o) \/ WaitSpawned(o) \/ Waited(o) \/ TaskDeleted(o)
           \/ StartBegin(o) \/ Prepare(o) \/ Created(o) \/ Tasked(o) \/ CallFails(o)
  BY <1>2, Zenon DEF StopBegin, LoadTask, WaitSpawned, Waited, TaskDeleted, StartBegin, Prepare,
                     Created, Tasked, CallFails, Reads
<1>3. CASE \/ Kill(o) \/ TaskDelete(o) \/ TaskForceDelete(o) \/ DeleteContainer(o)
           \/ NewContainer(o) \/ NewTask(o) \/ TaskStart(o)
  BY <1>3, Zenon DEF Kill, TaskDelete, TaskForceDelete, DeleteContainer, NewContainer, NewTask,
                     TaskStart, Answered, Refused
<1>4. QED
  BY <1>1, <1>2, <1>3, Zenon

\* The stop op of Teardown cannot be superseded, has a budget, and returns to
\* the queue thread.
LEMMA TeardownOp ==
    ASSUME NEW o, o.job = TeardownJob(cursor)
    PROVE  /\ ~OpSuperseded(o) /\ OpRpcBudget(o) > 0 /\ StopReturned(o) = "ok"
           /\ The(o) = world[cursor] /\ o.job.stage = cursor
<1>1. /\ o.job.gen = 0 /\ o.job.target = "stopped" /\ o.job.stage = cursor
  BY DEF TeardownJob
<1>2. RemainingMs(o) = -1
  BY <1>1, Zenon DEF RemainingMs
<1>3. OpRpcBudget(o) = Timeout /\ Timeout > 0
  BY <1>2, ConfigAssumption DEF OpRpcBudget
<1>4. QED
  BY <1>1, <1>3, Zenon DEF OpSuperseded, StopReturned, IsStart, The

\* The stop op of Teardown moves on, and what it claims to have achieved is
\* true.
LEMMA StopMoves ==
    ASSUME IInv, OpsInv, faults \in Nat, UNCHANGED cursor,
           NEW o \in ops, o.job = TeardownJob(cursor), StopAt(o.at),
           \/ StopBegin(o) \/ LoadTask(o) \/ WaitSpawned(o) \/ Kill(o) \/ Waited(o)
           \/ TaskDelete(o) \/ TaskForceDelete(o) \/ TaskDeleted(o)
           \/ DeleteContainer(o)
           \/ StartBegin(o) \/ Prepare(o) \/ NewContainer(o) \/ Created(o)
           \/ NewTask(o) \/ Tasked(o) \/ TaskStart(o)
           \/ CallFails(o)
    PROVE  \E at \in Position : Goto(o, at) /\ StopAt(at)'
<1>0. /\ ~OpSuperseded(o) /\ OpRpcBudget(o) > 0 /\ StopReturned(o) = "ok"
      /\ The(o) = world[cursor] /\ o.job.stage = cursor /\ OpRpcBudget(o) \in Int
      /\ cursor \in Stages
  BY TeardownOp, ConfigAssumption DEF IInv, TypeOK, OpRpcBudget, TeardownJob, RemainingMs
<1>a. PICK w \in World : w = world[cursor]
  BY <1>0, Zenon DEF OpsInv, OpsType
<1>b. ASSUME NEW at \in Position, Goto(o, at),
             at \in {"load_task", "wait_spawned", "kill", "wait", "task_force_delete"}
      PROVE  \E a \in Position : Goto(o, a) /\ StopAt(a)'
  BY <1>b, Zenon DEF StopAt
<1>c. ASSUME Goto(o, "failed"), faults' = faults + 1
      PROVE  \E a \in Position : Goto(o, a) /\ StopAt(a)'
  <2>1. StopAt("failed")'
    BY <1>c DEF StopAt, Explained
  <2>2. QED
    BY <1>c, <2>1, Zenon DEF Position
<1>d. ASSUME NEW at \in Position, Goto(o, at), ~Runs(world'[cursor]),
             at \in {"task_deleted", "delete_container", "delete_bare", "ok", "failed"}
      PROVE  \E a \in Position : Goto(o, a) /\ StopAt(a)'
  <2>1. StopAt(at)'
    BY <1>d, Zenon DEF StopAt, Explained, Runs
  <2>2. QED
    BY <1>d, <2>1, Zenon
<1>1. CASE StopBegin(o)
  <2>1. CASE w.container
    <3>1. Goto(o, "load_task")
      BY <1>0, <1>a, <1>1, <2>1 DEF StopBegin, Reads
    <3>2. QED
      BY <1>b, <3>1, Zenon DEF Position
  <2>2. CASE ~w.container
    <3>1. Goto(o, "ok") /\ world' = world
      BY <1>0, <1>a, <1>1, <2>2 DEF StopBegin, Reads
    <3>2. StopAt("ok")'
      BY <1>a, <2>2, <3>1, Zenon DEF StopAt, Explained
    <3>3. QED
      BY <3>1, <3>2, Zenon DEF Position
  <2>3. QED
    BY <2>1, <2>2, Zenon
<1>2. CASE LoadTask(o)
  <2>1. CASE w.task = "none"
    <3>1. Goto(o, "delete_bare") /\ world' = world
      BY <1>0, <1>a, <1>2, <2>1, Zenon DEF LoadTask, Reads
    <3>2. QED
      BY <1>a, <1>d, <2>1, <3>1, Zenon DEF Position, Runs
  <2>2. CASE w.task # "none"
    <3>1. Goto(o, "wait_spawned")
      BY <1>0, <1>a, <1>2, <2>2, Zenon DEF LoadTask, Reads
    <3>2. QED
      BY <1>b, <3>1, Zenon DEF Position
  <2>3. QED
    BY <2>1, <2>2, Zenon
<1>3. CASE WaitSpawned(o)
  <2>1. Goto(o, "kill")
    BY <1>0, <1>3, Zenon DEF WaitSpawned, Reads
  <2>2. QED
    BY <1>b, <2>1, Zenon DEF Position
<1>4. CASE Kill(o)
  <2>1. Goto(o, "wait") \/ (Goto(o, "failed") /\ faults' = faults + 1)
    BY <1>4, Zenon DEF Kill, Answered
  <2>2. QED
    BY <1>b, <1>c, <2>1, Zenon DEF Position
<1>5. CASE Waited(o)
  <2>0. world' = world
    BY <1>5, Zenon DEF Waited, Reads
  <2>1. CASE w.task = "exited"
    <3>1. Goto(o, "task_delete")
      BY <1>0, <1>a, <1>5, <2>1, Zenon DEF Waited, Reads
    <3>2. StopAt("task_delete")'
      BY <1>a, <2>0, <2>1, Zenon DEF StopAt
    <3>3. QED
      BY <3>1, <3>2, Zenon DEF Position
  <2>2. CASE w.task = "none"
    <3>1. Goto(o, "task_deleted")
      BY <1>0, <1>a, <1>5, <2>2, Zenon DEF Waited, Reads
    <3>2. QED
      BY <1>a, <1>d, <2>0, <2>2, <3>1, Zenon DEF Position, Runs
  <2>3. CASE w.task \notin {"exited", "none"}
    <3>1. Goto(o, "task_force_delete")
      BY <1>0, <1>a, <1>5, <2>3, Zenon DEF Waited, Reads
    <3>2. QED
      BY <1>b, <3>1, Zenon DEF Position
  <2>4. QED
    BY <2>1, <2>2, <2>3, Zenon
<1>e. ASSUME world' = [world EXCEPT ![cursor].task = "none"]
      PROVE  ~Runs(world'[cursor])
  BY <1>0, <1>a, <1>e, Zenon DEF OpsInv, OpsType, Runs, World
<1>6. CASE TaskDelete(o)
  <2>1. w.task = "exited"
    BY <1>a, <1>6, Zenon DEF TaskDelete, At, StopAt
  <2>2. world' = [world EXCEPT ![cursor].task = "none"] /\ Answered(o, "task_deleted")
    BY <1>0, <1>a, <1>6, <2>1, Zenon DEF TaskDelete
  <2>3. ~Runs(world'[cursor])
    BY <1>e, <2>2, Zenon
  <2>4. QED
    BY <1>c, <1>d, <2>2, <2>3, Zenon DEF Answered, Position
<1>7. CASE TaskForceDelete(o)
  <2>1. CASE world' = [world EXCEPT ![cursor].task = "none"] /\ Answered(o, "task_deleted")
    <3>1. ~Runs(world'[cursor])
      BY <1>e, <2>1, Zenon
    <3>2. QED
      BY <1>c, <1>d, <2>1, <3>1, Zenon DEF Answered, Position
  <2>2. CASE faults' = faults + 1 /\ Goto(o, "failed")
    BY <1>c, <2>2, Zenon
  <2>3. QED
    BY <1>0, <1>7, <2>1, <2>2, Zenon DEF TaskForceDelete
<1>8. CASE TaskDeleted(o)
  <2>1. Goto(o, "delete_container") /\ world' = world
    BY <1>0, <1>8, Zenon DEF TaskDeleted, Reads
  <2>2. ~Runs(world[cursor])
    BY <1>8, Zenon DEF TaskDeleted, At, StopAt
  <2>3. QED
    BY <1>d, <2>1, <2>2, Zenon DEF Position
<1>9. CASE DeleteContainer(o)
  <2>1. ~Runs(w)
    BY <1>a, <1>9, Zenon DEF DeleteContainer, At, StopAt
  <2>2. \E v \in World : v.task = w.task /\ world' = [world EXCEPT ![cursor] = v]
    <3>1. /\ [w EXCEPT !.container = FALSE, !.snapshot = FALSE] \in World
          /\ [w EXCEPT !.snapshot = FALSE] \in World
          /\ [w EXCEPT !.container = FALSE, !.snapshot = FALSE].task = w.task
          /\ [w EXCEPT !.snapshot = FALSE].task = w.task
      BY Zenon DEF World
    <3>2. \/ world' = [world EXCEPT ![cursor] = [w EXCEPT !.container = FALSE, !.snapshot = FALSE]]
          \/ world' = [world EXCEPT ![cursor] = [w EXCEPT !.snapshot = FALSE]]
      BY <1>0, <1>a, <1>9, Zenon DEF DeleteContainer
    <3>3. QED
      BY <3>1, <3>2, Zenon
  <2>3. ~Runs(world'[cursor])
    BY <1>0, <2>1, <2>2, Zenon DEF OpsInv, OpsType, Runs
  <2>4. Goto(o, "ok") \/ Goto(o, "failed")
    BY <1>0, <1>9, Zenon DEF DeleteContainer, Answered
  <2>5. QED
    BY <1>d, <2>3, <2>4, Zenon DEF Position
<1>10. CASE \/ StartBegin(o) \/ Prepare(o) \/ NewContainer(o) \/ Created(o)
            \/ NewTask(o) \/ Tasked(o) \/ TaskStart(o)
  BY <1>10, Zenon DEF StartBegin, Prepare, NewContainer, Created, NewTask, Tasked, TaskStart, At,
                      StopAt
<1>11. CASE CallFails(o)
  BY <1>c, <1>11, Zenon DEF CallFails
<1>12. QED
  BY <1>1, <1>2, <1>3, <1>4, <1>5, <1>6, <1>7, <1>8, <1>9, <1>10, <1>11, Zenon

\* Nothing happened to a task: what was explained, and what the stop op had
\* achieved, still is.
LEMMA SurvivorQuiet ==
    ASSUME SurvivorInv, UNCHANGED <<world, events, faults>>,
           \A s \in Stages : Pending(s)' <=> Pending(s),
           act' = "stopping" => act = "stopping" /\ UNCHANGED <<ops, cursor>>
    PROVE  SurvivorInv'
<1>1. \A s \in Stages : Explained(s)' <=> Explained(s)
  BY Zenon DEF Explained, Runs, NoReport, IsReport
<1>2. ASSUME UNCHANGED cursor, NEW at, StopAt(at) PROVE StopAt(at)'
  BY <1>2, Zenon DEF StopAt, Explained, Runs, NoReport, IsReport
<1>3. faults' \in Nat /\ \A s \in Stages : ~Pending(s)' => Explained(s)'
  BY <1>1, Zenon DEF SurvivorInv
<1>4. ASSUME act' = "stopping" PROVE \A o \in ops' : StopAt(o.at)'
  <2>1. UNCHANGED <<ops, cursor>> /\ \A o \in ops : StopAt(o.at)
    BY <1>4, Zenon DEF SurvivorInv
  <2>2. QED
    BY <1>2, <2>1, Zenon
<1>5. QED
  BY <1>3, <1>4, Zenon DEF SurvivorInv

\* Teardown leaves the stage it is at, with the fate of its task explained.
LEMMA SurvivorLeaves ==
    ASSUME IInv, FinalInv, SurvivorInv, act \in {"teardown", "stopping"}, TeardownAdvance,
           UNCHANGED <<world, events, faults>>, Explained(cursor)
    PROVE  SurvivorInv'
<1>1. \A s \in Stages : Explained(s)' <=> Explained(s)
  BY Zenon DEF Explained, Runs, NoReport, IsReport
<1>2. \A s \in Stages : ~Pending(s)' => Explained(s)'
  BY <1>1, PassMoves, Zenon DEF SurvivorInv
<1>3. act' # "stopping"
  BY Zenon DEF TeardownAdvance, AfterStage
<1>4. QED
  BY <1>2, <1>3, Zenon DEF SurvivorInv

\* A stage that Teardown skips is believed stopped, and no report is queued.
LEMMA SkippedIsExplained ==
    ASSUME IInv, FinalInv, BeliefInv, TeardownSkip
    PROVE  Explained(cursor)
<1>1. cursor \in Stages /\ cursor \in Nat /\ act = "teardown" /\ actual[cursor] # "running"
  BY DEF TeardownSkip, IInv, TypeOK, Stages
<1>2. main = "tearing" /\ None(q, "stage")
  BY <1>1, Zenon DEF FinalInv
<1>3. Believes(cursor, Truth(world[cursor]))
  BY <1>1, <1>2 DEF BeliefInv, Pending
<1>4. ~LastReport(q, cursor, Truth(world[cursor]))
  BY <1>2, Zenon DEF LastReport, IsReport, None
<1>5. LastReport(events, cursor, Truth(world[cursor])) => ~NoReport(events, cursor)
  BY Zenon DEF LastReport, NoReport
<1>6. Runs(world[cursor]) => Truth(world[cursor]) = "running"
  BY Zenon DEF Runs, Truth
<1>7. QED
  BY <1>1, <1>3, <1>4, <1>5, <1>6, Zenon DEF Believes, Explained

\* A step of an op: that of Teardown, or an op of a time before Teardown.
LEMMA SurvivorOpStep ==
    ASSUME IInv, FinalInv, OpsInv, SurvivorInv, OpStep
    PROVE  SurvivorInv'
<1>0. /\ UNCHANGED <<main, act, cursor>> /\ faults' \in Nat /\ faults' >= faults
      /\ faults \in Nat /\ cursor \in Stages /\ cursor \in Nat
  BY OpStepShape, FaultsCount DEF vars, callers, SurvivorInv, IInv, TypeOK, Stages
<1>1. PICK o \in ops :
         \/ StopBegin(o) \/ LoadTask(o) \/ WaitSpawned(o) \/ Kill(o) \/ Waited(o)
         \/ TaskDelete(o) \/ TaskForceDelete(o) \/ TaskDeleted(o)
         \/ DeleteContainer(o)
         \/ StartBegin(o) \/ Prepare(o) \/ NewContainer(o) \/ Created(o)
         \/ NewTask(o) \/ Tasked(o) \/ TaskStart(o)
         \/ CallFails(o)
  BY Zenon DEF OpStep
<1>2. \A s \in Stages : Pending(s)' <=> Pending(s)
  BY <1>0, PendingKept, Zenon
<1>3. CASE act = "stopping"
  <2>1. main = "tearing" /\ active = {}
    BY <1>3, TeardownAlone, Zenon DEF FinalInv
  <2>2. /\ o.job = TeardownJob(cursor) /\ o.job.stage = cursor
        /\ \A p \in ops : p = o
    BY <2>1 DEF OpsInv, JobsInv, TeardownJob
  <2>3. TaskStep(cursor)
    BY <1>1, <2>2, ReadingStep, ChangingStep, NoTaskStep, Zenon
  <2>4. StopAt(o.at)
    BY <1>3, Zenon DEF SurvivorInv
  <2>5. PICK at \in Position : Goto(o, at) /\ StopAt(at)'
    BY <1>0, <1>1, <2>2, <2>4, StopMoves, Zenon
  <2>6. \A p \in ops' : p.at = at
    <3>1. o \in OpRec /\ ops' = {[o EXCEPT !.at = at]}
      BY <2>2, <2>5, Zenon DEF Goto, OpsInv, OpsType
    <3>2. QED
      BY <3>1, Zenon DEF OpRec
  <2>7. Pending(cursor)
    BY <1>0, <2>1 DEF Pending
  <2>8. ASSUME NEW s \in Stages, ~Pending(s)' PROVE Explained(s)'
    <3>1. s # cursor /\ Explained(s)
      BY <1>2, <2>7, <2>8, Zenon DEF SurvivorInv
    <3>2. QED
      BY <1>0, <2>3, <3>1, ExplainedKept, Zenon
  <2>9. QED
    BY <1>0, <2>5, <2>6, <2>8, Zenon DEF SurvivorInv
<1>4. CASE act # "stopping"
  <2>1. active # {}
    BY <1>4, Zenon DEF OpsInv, JobsInv
  <2>2. main \in {"serving", "joined", "begun"} /\ act \notin {"teardown", "stopping"}
    BY <2>1, Zenon DEF IInv, WaitInv, PastWait, TypeOK
  <2>3. \A s \in Stages : Pending(s)
    BY <2>2, Zenon DEF Pending
  <2>4. QED
    BY <1>0, <1>2, <1>4, <2>3, Zenon DEF SurvivorInv
<1>5. QED
  BY <1>3, <1>4, Zenon

\* A task that exits is no survivor.
LEMMA SurvivorExits ==
    ASSUME IInv, FinalInv, OpsInv, SurvivorInv, TaskExits
    PROVE  SurvivorInv'
<1>1. PICK s \in Stages : world' = [world EXCEPT ![s].task = "exited"]
                          /\ events' = Append(events, StageEvent(s, "stopped"))
  BY Zenon DEF TaskExits
<1>2. UNCHANGED <<main, act, cursor, ops, faults>> /\ faults \in Nat /\ cursor \in Stages
  BY Zenon DEF TaskExits, vars, callers, SurvivorInv, IInv, TypeOK
<1>3. /\ world'[s].task = "exited"
      /\ \A t \in Stages : t # s => world'[t] = world[t]
  BY <1>1, Zenon DEF OpsInv, OpsType, World
<1>4. TaskStep(s)
  <2>1. world' \in [Stages -> World]
    BY ExitStep, Zenon DEF TaskStep
  <2>2. Runs(world'[s]) <=> "stopped" = "running"
    BY <1>3, Zenon DEF Runs
  <2>3. QED
    BY <1>1, <1>3, <2>1, <2>2, Zenon DEF TaskStep, StageState
<1>5. ASSUME NEW t \in Stages, Explained(t) PROVE Explained(t)'
  <2>1. CASE t = s
    BY <1>3, <2>1, Zenon DEF Explained, Runs
  <2>2. CASE t # s
    <3>1. faults' \in Nat /\ faults' >= faults
      BY <1>2
    <3>2. QED
      BY <1>2, <1>4, <1>5, <2>2, <3>1, ExplainedKept, Zenon
  <2>3. QED
    BY <2>1, <2>2, Zenon
<1>6. ASSUME NEW at, StopAt(at) PROVE StopAt(at)'
  <2>1. world'[cursor] = world[cursor] \/ world'[cursor].task = "exited"
    BY <1>2, <1>3, Zenon
  <2>2. Explained(cursor) => Explained(cursor)'
    BY <1>2, <1>5, Zenon
  <2>3. QED
    BY <1>2, <1>6, <2>1, <2>2, Zenon DEF StopAt, Runs
<1>7. \A t \in Stages : Pending(t)' <=> Pending(t)
  BY <1>2, PendingKept, Zenon
<1>8. QED
  BY <1>2, <1>5, <1>6, <1>7, Zenon DEF SurvivorInv

\* The pass of Teardown, the ops it calls and every other step.
LEMMA SurvivorStep ==
    ASSUME IInv, FinalInv, OpsInv, BeliefInv, SurvivorInv, [SNext]_allVars
    PROVE  SurvivorInv'
<1> USE DEF stageVars, queueVars, opVars, callers
<1>1. ASSUME UNCHANGED <<world, events, faults, ops, main, act, cursor>>
      PROVE  SurvivorInv'
  BY <1>1, SurvivorQuiet, PendingKept, Zenon
<1>2. CASE UNCHANGED allVars
  BY <1>1, <1>2, Zenon DEF allVars, vars, opsVars
<1>3. CASE OpStep \/ TaskExits
  BY <1>3, SurvivorOpStep, SurvivorExits, Zenon
<1>4. CASE OpBegin \/ OpEnd \/ OpCleanup
  <2>1. UNCHANGED <<world, events, faults, main, act, cursor>>
    BY <1>4, Zenon DEF OpBegin, OpEnd, OpCleanup, WorkerTake, OpReturn, OpFail, OpPostClear,
                       OpDone, Others
  <2>2. pool # <<>> \/ active # {}
    BY <1>4, Zenon DEF OpBegin, OpEnd, OpCleanup, WorkerTake, OpReturn, OpFail
  <2>3. act # "stopping"
    BY <2>2, TeardownAlone, Zenon
  <2>4. QED
    BY <2>1, <2>3, SurvivorQuiet, PendingKept, Zenon
<1>5. CASE TeardownStopBegin
  <2>1. /\ act = "teardown" /\ UNCHANGED <<world, events, faults, cursor>>
        /\ ops' = ops \cup {[job |-> TeardownJob(cursor), at |-> "stop"]}
    BY <1>5, Zenon DEF TeardownStopBegin, TeardownStop, Others
  <2>2. ops = {}
    BY <2>1, TeardownAlone, Zenon DEF OpsInv, JobsInv
  <2>3. \A o \in ops' : o.at = "stop"
    BY <2>1, <2>2
  <2>4. StopAt("stop")'
    BY Zenon DEF StopAt
  <2>5. \A s \in Stages : ~Pending(s)' => Explained(s)'
    BY <1>5, <2>1, PendingKept, Zenon DEF SurvivorInv, Explained, Runs, NoReport, IsReport
  <2>6. QED
    BY <2>1, <2>3, <2>4, <2>5, Zenon DEF SurvivorInv
<1>6. CASE TeardownStopEnd
  <2>1. PICK o \in ops : o.at \in {"ok", "failed"}
    BY <1>6, Zenon DEF TeardownStopEnd
  <2>2. act = "stopping" /\ TeardownAdvance /\ UNCHANGED <<world, events, faults>>
    BY <1>6, Zenon DEF TeardownStopEnd, TeardownMark, Others
  <2>3. Explained(cursor)
    BY <2>1, <2>2, Zenon DEF SurvivorInv, StopAt
  <2>4. QED
    BY <2>2, <2>3, SurvivorLeaves, Zenon
<1>7. CASE QueueStep /\ TeardownSkip
  <2>1. act = "teardown" /\ TeardownAdvance /\ UNCHANGED <<world, events, faults>>
    BY <1>7, Zenon DEF QueueStep, TeardownSkip, opsVars
  <2>2. QED
    BY <1>7, <2>1, SkippedIsExplained, SurvivorLeaves, Zenon
<1>8. CASE QueueStep /\ ~TeardownSkip
  <2>1. UNCHANGED <<world, events, faults, ops>>
    BY <1>8, Zenon DEF QueueStep, opsVars
  <2>2. UNCHANGED <<act, cursor>> \/ act' # "stopping"
    BY <1>8, Zenon DEF QueueStep, HandlePathEvent, HandleControl, HandleStageEvent, HandleClear,
                       ReconcileBegin, ReconcileConverged, ReconcileSkip, Fire, FireSubmitted,
                       FireNoMemory, TeardownBegin, RunReturns, AfterStage
  <2>3. QED
    BY <1>8, <2>1, <2>2, SurvivorQuiet, PendingKept, Zenon
<1>9. CASE ListenerForward
  <2>1. main = "serving" /\ UNCHANGED <<world, faults, ops, main, act, cursor>>
    BY <1>9, Zenon DEF ListenerForward, ListenerSubmit
  <2>2. act \notin {"teardown", "stopping"}
    BY <2>1, Zenon DEF FinalInv
  <2>3. \A s \in Stages : Pending(s)'
    BY <2>1, <2>2, Zenon DEF Pending
  <2>4. QED
    BY <2>1, <2>2, <2>3, Zenon DEF SurvivorInv
<1>10. CASE Ticker \/ HttpReconcile
  BY <1>1, <1>10, Zenon DEF Ticker, HttpReconcile, TickerRequestReconcile, HttpRequestReconcile,
                            opsVars
<1>11. CASE Environment \/ MainStep
  <2> SUFFICES UNCHANGED <<world, events, faults, ops, act, cursor>>
    <3>1. \A s \in Stages : Pending(s)' <=> Pending(s)
      BY <1>11, PendingKept, Zenon
    <3>2. QED
      BY <3>1, SurvivorQuiet, Zenon
  <2>1. CASE Environment
    BY <2>1 DEF Environment, opsVars, Tick, HttpSubmit, JoinThreads, Terminated, vars
  <2>2. CASE MainStep
    BY <2>2, Zenon DEF MainStep, opsVars, Shutdown, BeginShutdown, WaitForOps, SubmitTeardown,
                       Close
  <2>3. QED
    BY <1>11, <2>1, <2>2, Zenon
<1>12. QED
  BY <1>2, <1>3, <1>4, <1>5, <1>6, <1>7, <1>8, <1>9, <1>10, <1>11, Zenon DEF SNext

\* A task that still runs after Teardown was started but not reported before
\* the listener stopped, or a call failed, or its container record is gone, for
\* any number of stages, workers, fires and faults, as long as no task was
\* running when the controller started (handle_teardown, stage_stop_op).
THEOREM TeardownSurvivors ==
    ASSUME \A w \in Leftovers : w.task \notin {"running", "dying"}
    PROVE  SSpec => []SurvivorsExplained
<1>1. SInit => SurvivorInv
  BY DEF SInit, Init, SurvivorInv, Pending
<1>2. IInv /\ FinalInv /\ OpsInv /\ BeliefInv /\ SurvivorInv /\ [SNext]_allVars => SurvivorInv'
  BY SurvivorStep, Zenon
<1>3. SurvivorInv => SurvivorsExplained
  BY Zenon DEF SurvivorInv, Pending, Explained, Runs, SurvivorsExplained
<1>4. QED
  BY <1>1, <1>2, <1>3, OpsInvariant, FinalUnderOps, BeliefInvariant, PTL DEF SSpec
=============================================================================
