--------------------------- MODULE StageOpsProofs ---------------------------
(***************************************************************************)
(* The ops on top of the controller, for any number of stages, workers,    *)
(* fires and faults: a step of the composition is a step of the controller *)
(* or none of its business, so its safety theorems carry over; the ops     *)
(* under way are those of the jobs the workers hold; and the controller    *)
(* never loses track of a task, as long as none ran at the start.          *)
(***************************************************************************)
EXTENDS StageOps, ControllerProofs

\* Every step of the composition is a step of the controller, or leaves it
\* alone.
LEMMA ControllerStep == ASSUME [SNext]_allVars PROVE [Next]_vars
<1>1. CASE UNCHANGED allVars
  BY <1>1, Zenon DEF allVars
<1>2. CASE OpStep
  BY <1>2, Zenon DEF OpStep, StopBegin, LoadTask, WaitSpawned, Kill, Waited, TaskDelete,
                     TaskForceDelete, TaskDeleted, DeleteContainer, StartBegin, Prepare,
                     NewContainer, Created, NewTask, Tasked, TaskStart, CallFails, OpKeeps
<1>3. CASE OpBegin
  BY <1>3, Zenon DEF OpBegin, Next, Worker
<1>4. CASE OpEnd
  <2>1. PICK o \in ops : OpReturn(o.job) \/ OpFail(o.job)
    BY <1>4, Zenon DEF OpEnd
  <2>2. o.job \in active
    BY <2>1, Zenon DEF OpReturn, OpFail
  <2>3. QED
    BY <2>1, <2>2, Zenon DEF Next, Worker
<1>5. CASE OpCleanup
  BY <1>5, Zenon DEF OpCleanup, Next, Worker
<1>6. CASE TeardownStopBegin \/ TeardownStopEnd
  BY <1>6, Zenon DEF TeardownStopBegin, TeardownStopEnd, Next, QueueThread
<1>7. CASE ListenerForward
  BY <1>7, Zenon DEF ListenerForward, Next, Callers
<1>8. CASE TaskExits
  BY <1>8, Zenon DEF TaskExits
<1>9. CASE QueueStep
  BY <1>9, Zenon DEF QueueStep, Next, QueueThread
<1>10. CASE Ticker \/ HttpReconcile \/ Environment \/ MainStep
  BY <1>10, Zenon DEF Ticker, HttpReconcile, Environment, MainStep, Next, Callers
<1>11. QED
  BY <1>1, <1>2, <1>3, <1>4, <1>5, <1>6, <1>7, <1>8, <1>9, <1>10, Zenon DEF SNext

\* The controller's inductive invariant holds under the ops.
LEMMA ControllerInvariant == SSpec => []IInv
<1>1. SInit => IInv
  BY InitIInv, Zenon DEF SInit
<1>2. IInv /\ [SNext]_allVars => IInv'
  BY ControllerStep, NextIInv, Zenon
<1>3. QED
  BY <1>1, <1>2, PTL DEF SSpec

\* Whatever the ops do, at most one op of a stage is live: the others find
\* themselves superseded.
THEOREM LiveOpUniqueUnderOps == SSpec => []OneLiveOp
<1>1. IInv => OneLiveOp
  BY LiveOpOfInvariant, Zenon
<1>2. QED
  BY <1>1, ControllerInvariant, PTL

------------------------------------------------------------------------------
(* The ops under way.                                                        *)

Report == [kind : {"stage"}, stage : Stages, state : StageState]
OpRec  == [job : ActiveJob, at : Position]

OpsType ==
    /\ world \in [Stages -> World]
    /\ events \in Seq(Report)
    /\ ops \subseteq OpRec

\* One op for each job a worker runs, and one for the stop of Teardown.
JobsInv ==
    /\ \A o \in ops : \/ o.job \in active /\ o.job.pc = "op"
                      \/ act = "stopping" /\ o.job = TeardownJob(cursor)
    /\ \A j \in active : j.pc = "op" => \E o \in ops : o.job = j
    /\ act = "stopping" => \E o \in ops : o.job = TeardownJob(cursor)
    /\ \A o, p \in ops : o.job = p.job => o = p

OpsInv == OpsType /\ JobsInv

\* A task that runs, signalled or not.
Runs(w) == w.task \in {"running", "dying"}

\* What a step may do to the task of stage s: nothing the reports are about, or
\* a change that it reports.
TaskStep(s) ==
    /\ world' \in [Stages -> World]
    /\ \A t \in Stages : t # s => world'[t] = world[t]
    /\ \/ events' = events /\ (Runs(world'[s]) <=> Runs(world[s]))
       \/ \E st \in StageState : /\ events' = Append(events, StageEvent(s, st))
                                 /\ Runs(world'[s]) <=> st = "running"

\* An op that moves on stays the op of its job.
LEMMA GotoKeeps ==
    ASSUME OpsInv, NEW o \in ops, NEW at \in Position, Goto(o, at),
           UNCHANGED <<active, act, cursor>>
    PROVE  ops' \subseteq OpRec /\ JobsInv'
<1>1. PICK n \in OpRec : n.job = o.job /\ ops' = (ops \ {o}) \cup {n}
  <2>1. o \in OpRec
    BY Zenon DEF OpsInv, OpsType
  <2>2. [o EXCEPT !.at = at] \in OpRec /\ [o EXCEPT !.at = at].job = o.job
    BY <2>1, Zenon DEF OpRec
  <2>3. QED
    BY <2>2, Zenon DEF Goto
<1>2. \A p \in ops : p # o => p.job # o.job
  BY Zenon DEF OpsInv, JobsInv
<1>3. QED
  BY <1>1, <1>2 DEF OpsInv, OpsType, JobsInv, TeardownJob

\* The record of a stage is replaced.
LEMMA WorldSet ==
    ASSUME OpsInv, NEW s \in Stages, NEW w \in World, world' = [world EXCEPT ![s] = w],
           \/ events' = events /\ (Runs(w) <=> Runs(world[s]))
           \/ \E st \in StageState : /\ events' = Append(events, StageEvent(s, st))
                                     /\ Runs(w) <=> st = "running"
    PROVE  TaskStep(s)
<1>1. world' \in [Stages -> World] /\ world'[s] = w
      /\ \A t \in Stages : t # s => world'[t] = world[t]
  BY Zenon DEF OpsInv, OpsType
<1>2. QED
  BY <1>1, Zenon DEF TaskStep

\* A signal turns one that runs into one that dies, which still runs.
LEMMA SignalKeeps ==
    ASSUME NEW w \in World
    PROVE  LET v == [w EXCEPT !.task = Signalled(@)]
           IN  v \in World /\ (Runs(v) <=> Runs(w))
<1>1. Signalled(w.task) \in TaskState
      /\ (Signalled(w.task) \in {"running", "dying"} <=> w.task \in {"running", "dying"})
  BY Zenon DEF World, TaskState, Signalled
<1>2. QED
  BY <1>1, Zenon DEF World, Runs

\* Nothing happened to the tasks.
LEMMA NoTaskStep ==
    ASSUME OpsInv, NEW s, UNCHANGED <<world, events>>
    PROVE  TaskStep(s)
  BY Zenon DEF OpsInv, OpsType, TaskStep, Runs

\* A safe point, and the calls that only read.
LEMMA ReadingStep ==
    ASSUME OpsInv, NEW o \in ops,
           \/ StopBegin(o) \/ LoadTask(o) \/ WaitSpawned(o) \/ Waited(o) \/ TaskDeleted(o)
           \/ StartBegin(o) \/ Prepare(o) \/ Created(o) \/ Tasked(o) \/ CallFails(o)
    PROVE  (\E at \in Position : Goto(o, at)) /\ UNCHANGED <<world, events, vars>>
<1>1. StopReturned(o) \in Position
  BY Zenon DEF StopReturned, Position
<1>2. CASE \/ StopBegin(o) \/ LoadTask(o) \/ WaitSpawned(o) \/ TaskDeleted(o)
           \/ StartBegin(o) \/ Prepare(o) \/ Created(o) \/ Tasked(o)
  <2>1. (\E at \in Position : Reads(o, at)) /\ OpKeeps
    BY <1>1, <1>2, Zenon DEF StopBegin, LoadTask, WaitSpawned, TaskDeleted, StartBegin, Prepare,
                             Created, Tasked, Position
  <2>2. QED
    BY <2>1, Zenon DEF Reads, OpKeeps
<1>3. CASE Waited(o)
  <2>1. (\E at \in Position : Reads(o, at)) /\ OpKeeps
    BY <1>1, <1>3, Zenon DEF Waited, Position
  <2>2. QED
    BY <2>1, Zenon DEF Reads, OpKeeps
<1>4. CASE CallFails(o)
  BY <1>4, Zenon DEF CallFails, OpKeeps, Position
<1>5. QED
  BY <1>2, <1>3, <1>4, Zenon

\* The calls that change something.
LEMMA ChangingStep ==
    ASSUME OpsInv, NEW o \in ops,
           \/ Kill(o) \/ TaskDelete(o) \/ TaskForceDelete(o) \/ DeleteContainer(o)
           \/ NewContainer(o) \/ NewTask(o) \/ TaskStart(o)
    PROVE  (\E at \in Position : Goto(o, at)) /\ TaskStep(o.job.stage) /\ UNCHANGED vars
<1>0. PICK s \in Stages, w \in World : s = o.job.stage /\ w = world[s] /\ w = The(o)
  BY Zenon DEF OpsInv, OpsType, OpRec, ActiveJob, The
<1>1. StopReturned(o) \in Position
  BY Zenon DEF StopReturned, Position
<1>2. UNCHANGED vars
  BY Zenon DEF Kill, TaskDelete, TaskForceDelete, DeleteContainer, NewContainer, NewTask,
               TaskStart, OpKeeps
<1>3. \E at \in Position : Goto(o, at)
  BY <1>1, Zenon DEF Kill, TaskDelete, TaskForceDelete, DeleteContainer, NewContainer, NewTask,
                     TaskStart, Answered, Refused, Position
<1>4. \A v \in TaskState : [w EXCEPT !.task = v] \in World /\ [w EXCEPT !.task = v].task = v
  BY Zenon DEF World
<1>5. ASSUME NEW v \in TaskState, world' = [world EXCEPT ![s].task = v],
             \/ events' = events /\ (v \in {"running", "dying"} <=> Runs(w))
             \/ \E st \in StageState : /\ events' = Append(events, StageEvent(s, st))
                                       /\ v \in {"running", "dying"} <=> st = "running"
      PROVE  TaskStep(s)
  <2>1. PICK u \in World : u = [w EXCEPT !.task = v] /\ u.task = v
    BY <1>4, Zenon
  <2>2. world' = [world EXCEPT ![s] = u]
    BY <1>0, <1>5, <2>1, Zenon
  <2>3. Runs(u) <=> v \in {"running", "dying"}
    BY <2>1, Zenon DEF Runs
  <2>4. \/ events' = events /\ (Runs(u) <=> Runs(world[s]))
        \/ \E st \in StageState : /\ events' = Append(events, StageEvent(s, st))
                                  /\ Runs(u) <=> st = "running"
    BY <1>0, <1>5, <2>3, Zenon
  <2>5. QED
    BY <2>2, <2>4, WorldSet, Zenon
<1>6. ASSUME world' = [world EXCEPT ![s].task = Signalled(@)], events' = events
      PROVE  TaskStep(s)
  <2>1. world' = [world EXCEPT ![s] = [w EXCEPT !.task = Signalled(@)]]
    BY <1>0, <1>6, Zenon
  <2>2. QED
    BY <1>0, <1>6, <2>1, SignalKeeps, WorldSet, Zenon
<1> SUFFICES TaskStep(s)
  BY <1>0, <1>2, <1>3, Zenon
<1>7. CASE Kill(o)
  BY <1>0, <1>6, <1>7, Zenon DEF Kill
<1>8. CASE TaskDelete(o)
  <2>1. CASE The(o).task \in {"none", "created", "exited"}
             /\ world' = [world EXCEPT ![s].task = "none"] /\ events' = events
    BY <1>0, <1>5, <2>1, Zenon DEF TaskState, Runs
  <2>2. CASE UNCHANGED <<world, events>>
    BY <2>2, <1>0, NoTaskStep, Zenon
  <2>3. QED
    BY <1>0, <1>8, <2>1, <2>2, Zenon DEF TaskDelete, Refused
<1>9. CASE TaskForceDelete(o)
  <2>1. CASE /\ world' = [world EXCEPT ![s].task = "none"]
             /\ events' = IF Alive(w.task) THEN Append(events, StageEvent(s, "stopped"))
                          ELSE events
    BY <1>0, <1>5, <2>1, Zenon DEF TaskState, Runs, Alive, World, StageState
  <2>2. CASE world' = [world EXCEPT ![s].task = Signalled(@)] /\ events' = events
    BY <1>0, <1>6, <2>2, Zenon
  <2>3. QED
    BY <1>0, <1>9, <2>1, <2>2, Zenon DEF TaskForceDelete
<1>10. CASE DeleteContainer(o) \/ NewContainer(o)
  <2>1. events' = events
    BY <1>10, Zenon DEF DeleteContainer, NewContainer
  <2>2. \A b, c \in BOOLEAN :
          /\ [w EXCEPT !.container = b, !.snapshot = c] \in World
          /\ [w EXCEPT !.snapshot = c] \in World
          /\ [w EXCEPT !.container = b, !.snapshot = c].task = w.task
          /\ [w EXCEPT !.snapshot = c].task = w.task
    BY Zenon DEF World
  <2>3. PICK b \in BOOLEAN :
           \/ world' = [world EXCEPT ![s].container = b, ![s].snapshot = b]
           \/ world' = [world EXCEPT ![s].snapshot = b]
    BY <1>0, <1>10, Zenon DEF DeleteContainer, NewContainer
  <2>4. \/ world' = [world EXCEPT ![s] = [w EXCEPT !.container = b, !.snapshot = b]]
        \/ world' = [world EXCEPT ![s] = [w EXCEPT !.snapshot = b]]
    BY <1>0, <2>3, Zenon
  <2>5. QED
    BY <1>0, <2>1, <2>2, <2>4, WorldSet, Zenon DEF Runs
<1>11. CASE NewTask(o)
  <2>1. CASE w.task = "none" /\ world' = [world EXCEPT ![s].task = "created"] /\ events' = events
    BY <1>5, <2>1, Zenon DEF TaskState, Runs
  <2>2. CASE UNCHANGED <<world, events>>
    BY <2>2, <1>0, NoTaskStep, Zenon
  <2>3. QED
    BY <1>0, <1>11, <2>1, <2>2, Zenon DEF NewTask, Refused
<1>12. CASE TaskStart(o)
  <2>1. CASE /\ world' = [world EXCEPT ![s].task = "running"]
             /\ events' = Append(events, StageEvent(s, "running"))
    BY <1>5, <2>1, Zenon DEF TaskState, StageState
  <2>2. CASE UNCHANGED <<world, events>>
    BY <2>2, <1>0, NoTaskStep, Zenon
  <2>3. QED
    BY <1>0, <1>12, <2>1, <2>2, Zenon DEF TaskStart, Refused
<1>13. QED
  BY <1>7, <1>8, <1>9, <1>10, <1>11, <1>12, Zenon

\* A step that hands no job over and neither begins nor ends a stop of Teardown.
LEMMA JobsKept ==
    ASSUME JobsInv, UNCHANGED <<ops, active>>,
           \/ UNCHANGED <<act, cursor>>
           \/ act # "stopping" /\ act' # "stopping"
    PROVE  JobsInv'
<1>1. CASE UNCHANGED <<act, cursor>>
  BY <1>1, Zenon DEF JobsInv, TeardownJob
<1>2. CASE act # "stopping" /\ act' # "stopping"
  BY <1>2, Zenon DEF JobsInv
<1>3. QED
  BY <1>1, <1>2, Zenon

\* While Teardown has the queue thread no worker has a job.
LEMMA TeardownAlone ==
    ASSUME IInv, act \in {"teardown", "stopping"}
    PROVE  pool = <<>> /\ active = {}
  BY Zenon DEF IInv, WaitInv

\* run_stage_op calls the op of the job it took.
LEMMA BeginStep ==
    ASSUME IInv, OpsInv, OpBegin
    PROVE  OpsInv'
<1>1. WorkerTake /\ pool # <<>> /\ UNCHANGED <<act, cursor, world, events>>
  BY Zenon DEF OpBegin, WorkerTake, Others
<1>2. act # "stopping"
  BY <1>1, TeardownAlone, Zenon
<1>3. 1 \in DOMAIN pool /\ Head(pool) = pool[1] /\ pool[1] \in Job
  BY <1>1 DEF IInv, TypeOK
<1>4. PICK n \in ActiveJob : n = OnWorker(Head(pool), "op") /\ n.pc = "op"
  <2>1. OnWorker(Head(pool), "op") \in ActiveJob
    BY <1>3, OnWorkerTyped, Zenon
  <2>2. OnWorker(Head(pool), "op").pc = "op"
    BY Zenon DEF OnWorker
  <2>3. QED
    BY <2>1, <2>2, Zenon
<1>5. n \notin active
  <2>1. \A k \in active : ~SameFire(pool[1], k)
    BY <1>3, Zenon DEF IInv, GenInv
  <2>2. QED
    BY <1>3, <1>4, <2>1, Zenon DEF SameFire, OnWorker
<1>6. active' = active \cup {n} /\ active' \ active = {n}
  BY <1>1, <1>4, <1>5, Zenon DEF WorkerTake
<1>7. PICK m \in OpRec : m.job = n /\ ops' = ops \cup {m}
  <2>1. PICK at \in Position : ops' = ops \cup {[job |-> n, at |-> at]}
    BY <1>6 DEF OpBegin, Position
  <2>2. QED
    BY <2>1, Zenon DEF OpRec
<1>8. ops' \subseteq OpRec
  BY <1>7, Zenon DEF OpsInv, OpsType
<1>9. \A o \in ops : o.job # n
  BY <1>2, <1>5, Zenon DEF OpsInv, JobsInv
<1>10. JobsInv'
  <2>1. /\ \A o \in ops' : o.job \in active' /\ o.job.pc = "op"
        /\ \A j \in active' : j.pc = "op" => \E o \in ops' : o.job = j
    BY <1>2, <1>4, <1>6, <1>7, Zenon DEF OpsInv, JobsInv
  <2>2. \A o, p \in ops' : o.job = p.job => o = p
    BY <1>7, <1>9, Zenon DEF OpsInv, JobsInv
  <2>3. QED
    BY <1>1, <1>2, <2>1, <2>2, Zenon DEF JobsInv
<1>11. QED
  BY <1>1, <1>8, <1>10, Zenon DEF OpsInv, OpsType

\* It looks at what the op returned.
LEMMA EndStep ==
    ASSUME IInv, OpsInv, OpEnd
    PROVE  OpsInv'
<1>1. PICK o \in ops : (OpReturn(o.job) \/ OpFail(o.job)) /\ ops' = ops \ {o}
  BY Zenon DEF OpEnd
<1>2. o.job \in active /\ UNCHANGED <<act, cursor, world, events>>
  BY <1>1, Zenon DEF OpReturn, OpFail, OpEnd, Others
<1>3. act # "stopping"
  BY <1>2, TeardownAlone, Zenon
<1>4. active' = active \ {o.job}
      \/ active' = (active \ {o.job}) \cup {OnWorker(o.job, "clear")}
  BY <1>1, Zenon DEF OpReturn, OpFail
<1>5. OnWorker(o.job, "clear").pc # "op"
  BY Zenon DEF OnWorker
<1>6. \A p \in ops : p # o => p.job # o.job
  BY Zenon DEF OpsInv, JobsInv
<1>7. JobsInv'
  BY <1>1, <1>2, <1>3, <1>4, <1>5, <1>6, Zenon DEF OpsInv, JobsInv
<1>8. QED
  BY <1>1, <1>2, <1>7, Zenon DEF OpsInv, OpsType

\* The clear is posted and the job is counted off: the op is long gone.
LEMMA CleanupStep ==
    ASSUME OpsInv, OpCleanup
    PROVE  OpsInv'
<1>1. PICK j \in active : OpPostClear(j) \/ OpDone(j)
  BY Zenon DEF OpCleanup
<1>2. j.pc # "op" /\ UNCHANGED <<act, cursor, world, events, ops>>
  BY <1>1, Zenon DEF OpPostClear, OpDone, OpCleanup, Others
<1>3. active' = active \ {j} \/ active' = (active \ {j}) \cup {OnWorker(j, "done")}
  BY <1>1, Zenon DEF OpPostClear, OpDone
<1>4. OnWorker(j, "done").pc # "op"
  BY Zenon DEF OnWorker
<1>5. JobsInv'
  BY <1>2, <1>3, <1>4, Zenon DEF OpsInv, JobsInv, TeardownJob
<1>6. QED
  BY <1>2, <1>5, Zenon DEF OpsInv, OpsType

\* The stop op of Teardown, on the queue thread.
LEMMA TeardownOpStep ==
    ASSUME IInv, OpsInv, TeardownStopBegin \/ TeardownStopEnd
    PROVE  OpsInv'
<1>0. cursor \in Stages /\ act \in {"teardown", "stopping"} /\ active' = active
      /\ UNCHANGED <<world, events>>
  BY Zenon DEF IInv, TypeOK, TeardownStopBegin, TeardownStopEnd, TeardownStop, TeardownMark,
               Others, opVars
<1>1. active = {}
  BY <1>0, TeardownAlone, Zenon
<1>2. CASE TeardownStopBegin
  <2>1. act = "teardown" /\ act' = "stopping" /\ cursor' = cursor
        /\ ops' = ops \cup {[job |-> TeardownJob(cursor), at |-> "stop"]}
    BY <1>2, Zenon DEF TeardownStopBegin, TeardownStop
  <2>2. ops = {}
    BY <1>1, <2>1, Zenon DEF OpsInv, JobsInv
  <2>3. TeardownJob(cursor) \in ActiveJob
    BY <1>0, Zenon DEF TeardownJob, ActiveJob, StageState
  <2>4. ops' \subseteq OpRec
    BY <2>1, <2>2, <2>3 DEF OpRec, Position
  <2>5. JobsInv'
    BY <1>0, <1>1, <2>1, <2>2 DEF JobsInv, TeardownJob
  <2>6. QED
    BY <1>0, <2>4, <2>5, Zenon DEF OpsInv, OpsType
<1>3. CASE TeardownStopEnd
  <2>1. PICK o \in ops : o.job = TeardownJob(cursor) /\ ops' = ops \ {o}
    BY <1>3, Zenon DEF TeardownStopEnd
  <2>2. act' # "stopping"
    BY <1>3, Zenon DEF TeardownStopEnd, TeardownMark, TeardownAdvance, AfterStage
  <2>3. ops' = {}
    BY <1>1, <2>1, Zenon DEF OpsInv, JobsInv
  <2>4. QED
    BY <1>0, <1>1, <2>2, <2>3, Zenon DEF OpsInv, OpsType, JobsInv
<1>4. QED
  BY <1>2, <1>3, Zenon

\* A task exits, and says so.
LEMMA ExitStep ==
    ASSUME OpsInv, TaskExits
    PROVE  (\E s \in Stages : TaskStep(s)) /\ UNCHANGED <<vars, ops>>
<1>1. PICK s \in Stages : /\ world' = [world EXCEPT ![s].task = "exited"]
                          /\ events' = Append(events, StageEvent(s, "stopped"))
  BY Zenon DEF TaskExits
<1>2. PICK w \in World : w = [world[s] EXCEPT !.task = "exited"]
                         /\ w.task = "exited"
  <2>1. world[s] \in World /\ "exited" \in TaskState
    BY Zenon DEF OpsInv, OpsType, TaskState
  <2>2. \A w \in World, v \in TaskState :
           [w EXCEPT !.task = v] \in World /\ [w EXCEPT !.task = v].task = v
    BY Zenon DEF World
  <2>3. QED
    BY <2>1, <2>2, Zenon
<1>3. world' = [world EXCEPT ![s] = w]
  BY <1>1, <1>2, Zenon
<1>4. TaskStep(s)
  BY <1>1, <1>2, <1>3, WorldSet, Zenon DEF Runs, StageState
<1>5. QED
  BY <1>4, Zenon DEF TaskExits

\* What the step of an op is to the rest.
LEMMA OpStepShape ==
    ASSUME OpsInv, OpStep
    PROVE  /\ \E o \in ops, at \in Position : Goto(o, at)
           /\ \E s \in Stages : TaskStep(s)
           /\ UNCHANGED vars
<1>1. PICK o \in ops :
         \/ StopBegin(o) \/ LoadTask(o) \/ WaitSpawned(o) \/ Kill(o) \/ Waited(o)
         \/ TaskDelete(o) \/ TaskForceDelete(o) \/ TaskDeleted(o)
         \/ DeleteContainer(o)
         \/ StartBegin(o) \/ Prepare(o) \/ NewContainer(o) \/ Created(o)
         \/ NewTask(o) \/ Tasked(o) \/ TaskStart(o)
         \/ CallFails(o)
  BY Zenon DEF OpStep
<1>2. o.job.stage \in Stages
  BY Zenon DEF OpsInv, OpsType, OpRec, ActiveJob
<1>3. (\E at \in Position : Goto(o, at)) /\ TaskStep(o.job.stage) /\ UNCHANGED vars
  BY <1>1, ReadingStep, ChangingStep, NoTaskStep, Zenon
<1>4. QED
  BY <1>2, <1>3, Zenon

\* The types of what a task step leaves.
LEMMA TaskStepTyped ==
    ASSUME OpsInv, NEW s \in Stages, TaskStep(s)
    PROVE  world' \in [Stages -> World] /\ events' \in Seq(Report)
<1>1. \A st \in StageState : StageEvent(s, st) \in Report
  BY Zenon DEF StageEvent, Report
<1>2. QED
  BY <1>1 DEF TaskStep, OpsInv, OpsType

\* Every step keeps the ops and the jobs together.
LEMMA OpsStep ==
    ASSUME IInv, OpsInv, [SNext]_allVars
    PROVE  OpsInv'
<1> USE DEF stageVars, queueVars, opVars, callers
<1>1. CASE UNCHANGED allVars
  <2>1. UNCHANGED <<ops, active, act, cursor, world, events>>
    BY <1>1, Zenon DEF allVars, vars, opsVars
  <2>2. QED
    BY <2>1, JobsKept, Zenon DEF OpsInv, OpsType
<1>2. CASE OpStep
  <2>1. UNCHANGED <<active, act, cursor>>
    BY <1>2, OpStepShape, Zenon DEF vars
  <2>2. ops' \subseteq OpRec /\ JobsInv'
    BY <1>2, <2>1, OpStepShape, GotoKeeps, Zenon
  <2>3. QED
    BY <1>2, <2>2, OpStepShape, TaskStepTyped, Zenon DEF OpsInv, OpsType
<1>3. CASE TaskExits
  <2>1. UNCHANGED <<active, act, cursor, ops>>
    BY <1>3, ExitStep, Zenon DEF vars
  <2>2. JobsInv'
    BY <2>1, JobsKept, Zenon DEF OpsInv
  <2>3. QED
    BY <1>3, <2>1, <2>2, ExitStep, TaskStepTyped, Zenon DEF OpsInv, OpsType
<1>4. CASE OpBegin \/ OpEnd \/ OpCleanup \/ TeardownStopBegin \/ TeardownStopEnd
  BY <1>4, BeginStep, EndStep, CleanupStep, TeardownOpStep, Zenon
<1>5. CASE ListenerForward
  <2>1. UNCHANGED <<ops, active, act, cursor, world>> /\ events # <<>> /\ events' = Tail(events)
    BY <1>5, Zenon DEF ListenerForward, ListenerSubmit
  <2>2. QED
    BY <2>1, JobsKept DEF OpsInv, OpsType
<1>6. ASSUME UNCHANGED <<opsVars, active>>,
             UNCHANGED <<act, cursor>> \/ (act # "stopping" /\ act' # "stopping")
      PROVE  OpsInv'
  BY <1>6, JobsKept, Zenon DEF OpsInv, OpsType, opsVars
<1>7. CASE QueueStep
  <2>1. UNCHANGED active
    BY <1>7, Zenon DEF QueueStep, HandlePathEvent, HandleControl, HandleStageEvent, HandleClear,
                       ReconcileBegin, ReconcileConverged, ReconcileSkip, Fire, FireSubmitted,
                       FireNoMemory, TeardownBegin, TeardownSkip, RunReturns
  <2>2. UNCHANGED <<act, cursor>> \/ (act # "stopping" /\ act' # "stopping")
    BY <1>7, Zenon DEF QueueStep, HandlePathEvent, HandleControl, HandleStageEvent, HandleClear,
                       ReconcileBegin, ReconcileConverged, ReconcileSkip, Fire, FireSubmitted,
                       FireNoMemory, TeardownBegin, TeardownSkip, RunReturns, AfterStage,
                       TeardownAdvance, Pops
  <2>3. QED
    BY <1>6, <1>7, <2>1, <2>2, Zenon DEF QueueStep
<1>8. CASE Ticker \/ HttpReconcile \/ Environment \/ MainStep
  <2> SUFFICES UNCHANGED <<opsVars, active, act, cursor>>
    BY <1>6, Zenon
  <2>1. CASE Ticker \/ HttpReconcile
    BY <2>1, Zenon DEF Ticker, HttpReconcile, TickerRequestReconcile, HttpRequestReconcile
  <2>2. CASE Environment
    BY <2>2 DEF Environment, Tick, HttpSubmit, JoinThreads, Terminated, vars
  <2>3. CASE MainStep
    BY <2>3, Zenon DEF MainStep, Shutdown, BeginShutdown, WaitForOps, SubmitTeardown, Close
  <2>4. QED
    BY <1>8, <2>1, <2>2, <2>3, Zenon
<1>9. QED
  BY <1>1, <1>2, <1>3, <1>4, <1>5, <1>7, <1>8, Zenon DEF SNext

\* The ops hold throughout.
LEMMA OpsInvariant == SSpec => [](IInv /\ OpsInv)
<1>1. SInit => OpsInv
  <2> SUFFICES ASSUME SInit PROVE OpsInv
    OBVIOUS
  <2>1. OpsType
    BY OpsAssumption DEF SInit, OpsType
  <2>2. JobsInv
    BY Zenon DEF SInit, Init, JobsInv
  <2>3. QED
    BY <2>1, <2>2, Zenon DEF OpsInv
<1>2. IInv /\ OpsInv /\ [SNext]_allVars => OpsInv'
  BY OpsStep, Zenon
<1>3. QED
  BY <1>1, <1>2, ControllerInvariant, PTL DEF SSpec

\* The ops under way are those of the jobs the workers hold plus, during
\* Teardown, its own stop op, for any number of workers and fires.
THEOREM OpsMatchJobs == SSpec => []STypeOK
<1>1. IInv /\ OpsInv => STypeOK
  <2> SUFFICES ASSUME IInv, OpsInv PROVE STypeOK
    OBVIOUS
  <2>1. {o.job : o \in ops} =
           {j \in active : j.pc = "op"}
             \cup (IF act = "stopping" THEN {TeardownJob(cursor)} ELSE {})
    BY DEF OpsInv, JobsInv
  <2>2. \A o \in ops : o.at \in Position
    BY Zenon DEF OpsInv, OpsType, OpRec
  <2>3. QED
    BY <2>1, <2>2, Zenon DEF STypeOK, IInv, OpsInv, OpsType, Report
<1>2. QED
  BY <1>1, OpsInvariant, PTL

------------------------------------------------------------------------------
(* What the controller will believe.                                         *)

\* What a report appended to a sequence changes.
LEMMA AppendReport ==
    ASSUME NEW S, NEW sq \in Seq(S), NEW e, NEW s
    PROVE  /\ NoReport(sq, s) /\ ~IsReport(e, s) => NoReport(Append(sq, e), s)
           /\ IsReport(e, s) => LastReport(Append(sq, e), s, e.state)
           /\ \A st : ~IsReport(e, s) /\ LastReport(sq, s, st)
                         => LastReport(Append(sq, e), s, st)
<1>1. PICK z : z = Append(sq, e)
  BY Zenon
<1>2. /\ DOMAIN z = 1 .. Len(sq) + 1 /\ DOMAIN sq = 1 .. Len(sq) /\ Len(sq) \in Nat
      /\ z[Len(sq) + 1] = e
      /\ \A k \in 1 .. Len(sq) : z[k] = sq[k]
  BY <1>1
<1>3. NoReport(sq, s) /\ ~IsReport(e, s) => NoReport(z, s)
  BY <1>2 DEF NoReport
<1>4. IsReport(e, s) => LastReport(z, s, e.state)
  <2>1. Len(sq) + 1 \in DOMAIN z /\ \A m \in DOMAIN z : ~(m > Len(sq) + 1)
    BY <1>2
  <2>2. QED
    BY <1>2, <2>1, Zenon DEF LastReport
<1>5. ASSUME NEW st, ~IsReport(e, s), LastReport(sq, s, st)
      PROVE  LastReport(z, s, st)
  <2>1. PICK k \in DOMAIN sq : /\ IsReport(sq[k], s) /\ sq[k].state = st
                               /\ \A m \in DOMAIN sq : m > k => ~IsReport(sq[m], s)
    BY <1>5, Zenon DEF LastReport
  <2>2. k \in DOMAIN z /\ z[k] = sq[k]
    BY <1>2
  <2>3. \A m \in DOMAIN z : m > k => ~IsReport(z[m], s)
    BY <1>2, <1>5, <2>1
  <2>4. QED
    BY <2>1, <2>2, <2>3, Zenon DEF LastReport
<1>6. QED
  BY <1>1, <1>3, <1>4, <1>5, Zenon

\* What taking the oldest report off changes.
LEMMA TailReport ==
    ASSUME NEW S, NEW sq \in Seq(S), sq # <<>>, NEW s
    PROVE  /\ NoReport(sq, s) => NoReport(Tail(sq), s) /\ ~IsReport(Head(sq), s)
           /\ \A st : LastReport(sq, s, st) =>
                 \/ LastReport(Tail(sq), s, st)
                 \/ /\ NoReport(Tail(sq), s)
                    /\ IsReport(Head(sq), s) /\ Head(sq).state = st
<1>1. PICK z : z = Tail(sq)
  BY Zenon
<1>2. /\ DOMAIN sq = 1 .. Len(sq) /\ Len(sq) \in Nat \ {0} /\ Head(sq) = sq[1]
      /\ DOMAIN z = 1 .. Len(sq) - 1
      /\ \A k \in DOMAIN z : z[k] = sq[k + 1]
  BY <1>1
<1>3. NoReport(sq, s) => NoReport(z, s) /\ ~IsReport(Head(sq), s)
  BY <1>2 DEF NoReport
<1>4. ASSUME NEW st, LastReport(sq, s, st)
      PROVE  \/ LastReport(z, s, st)
             \/ NoReport(z, s) /\ IsReport(Head(sq), s) /\ Head(sq).state = st
  <2>1. PICK k \in DOMAIN sq : /\ IsReport(sq[k], s) /\ sq[k].state = st
                               /\ \A m \in DOMAIN sq : m > k => ~IsReport(sq[m], s)
    BY <1>4, Zenon DEF LastReport
  <2>2. CASE k = 1
    <3>1. \A m \in DOMAIN z : ~IsReport(z[m], s)
      BY <1>2, <2>1, <2>2
    <3>2. QED
      BY <1>2, <2>1, <2>2, <3>1, Zenon DEF NoReport
  <2>3. CASE k # 1
    <3>1. k - 1 \in DOMAIN z /\ z[k - 1] = sq[k]
      BY <1>2, <2>3
    <3>2. \A m \in DOMAIN z : m > k - 1 => ~IsReport(z[m], s)
      BY <1>2, <2>1
    <3>3. QED
      BY <2>1, <3>1, <3>2, Zenon DEF LastReport
  <2>4. QED
    BY <2>2, <2>3, Zenon
<1>5. QED
  BY <1>1, <1>3, <1>4, Zenon

\* The state a task should be believed in.
Truth(w) == IF w.task \in {"running", "dying"} THEN "running" ELSE "stopped"

\* A task that starts or stops puts the report of it last in the stream.
LEMMA TaskBelief ==
    ASSUME OpsInv, NEW s \in Stages, TaskStep(s), UNCHANGED vars,
           NEW t \in Stages, Believes(t, Truth(world[t]))
    PROVE  Believes(t, Truth(world[t]))'
<1>1. UNCHANGED <<q, actual>>
  BY Zenon DEF vars, queueVars, stageVars
<1>2. CASE events' = events /\ (t = s => (Runs(world'[s]) <=> Runs(world[s])))
  <2>1. Truth(world[t])' = Truth(world[t])
    BY <1>2, Zenon DEF TaskStep, Truth, Runs
  <2>2. QED
    BY <1>1, <1>2, <2>1, ZenonT(30) DEF Believes, LastReport, NoReport, IsReport
<1>3. ASSUME NEW st \in StageState, events' = Append(events, StageEvent(s, st)),
             Runs(world'[s]) <=> st = "running"
      PROVE  Believes(t, Truth(world[t]))'
  <2>1. events \in Seq(Report)
    BY Zenon DEF OpsInv, OpsType
  <2>2. CASE t = s
    <3>1. IsReport(StageEvent(s, st), t) /\ StageEvent(s, st).state = st
      BY <2>2, Zenon DEF IsReport, StageEvent
    <3>2. LastReport(events', t, st)
      BY <1>3, <2>1, <3>1, AppendReport, Zenon
    <3>3. Truth(world[t])' = st
      BY <1>3, <2>2, Zenon DEF Truth, Runs, StageState
    <3>4. LastReport(events, t, Truth(world[t]))'
      BY <3>2, <3>3, Zenon DEF LastReport, IsReport
    <3>5. QED
      BY <3>4, Zenon DEF Believes
  <2>3. CASE t # s
    <3>1. ~IsReport(StageEvent(s, st), t)
      BY <2>3, Zenon DEF IsReport, StageEvent
    <3>2. Truth(world[t])' = Truth(world[t])
      BY <2>3, Zenon DEF TaskStep, Truth
    <3>3. /\ NoReport(events, t) => NoReport(events', t)
          /\ \A v : LastReport(events, t, v) => LastReport(events', t, v)
      BY <1>3, <2>1, <3>1, AppendReport, Zenon
    <3>4. QED
      BY <1>1, <3>2, <3>3, SMTT(60) DEF Believes, LastReport, NoReport, IsReport
  <2>4. QED
    BY <2>2, <2>3, Zenon
<1>4. QED
  BY <1>2, <1>3, Zenon DEF TaskStep

\* The oldest report moves from the stream to the end of the queue.
LEMMA ForwardBelief ==
    ASSUME IInv, OpsInv, ListenerForward,
           NEW t \in Stages, NEW st, Believes(t, st)
    PROVE  \/ LastReport(events', t, st)
           \/ NoReport(events', t) /\ LastReport(q', t, st)
           \/ NoReport(events', t) /\ NoReport(q', t) /\ actual'[t] = st
<1>1. /\ events \in Seq(Report) /\ events # <<>> /\ events' = Tail(events)
      /\ q \in Seq(Action) /\ q' = Append(q, Head(events))
      /\ actual' = actual
  BY Zenon DEF ListenerForward, ListenerSubmit, stageVars, IInv, TypeOK, OpsInv, OpsType
<1>2. CASE LastReport(events, t, st)
  <2>1. CASE NoReport(events', t) /\ IsReport(Head(events), t) /\ Head(events).state = st
    BY <1>1, <2>1, AppendReport, Zenon
  <2>2. LastReport(events', t, st)
        \/ (NoReport(events', t) /\ IsReport(Head(events), t) /\ Head(events).state = st)
    BY <1>1, <1>2, TailReport, Zenon
  <2>3. QED
    BY <2>1, <2>2, Zenon
<1>3. CASE NoReport(events, t)
  <2>1. NoReport(events', t) /\ ~IsReport(Head(events), t)
    BY <1>1, <1>3, TailReport, Zenon
  <2>2. CASE LastReport(q, t, st)
    BY <1>1, <2>1, <2>2, AppendReport, Zenon
  <2>3. CASE NoReport(q, t) /\ actual[t] = st
    BY <1>1, <2>1, <2>3, AppendReport, Zenon
  <2>4. CASE LastReport(events, t, st)
    BY <1>2, <2>4, Zenon
  <2>5. QED
    BY <2>2, <2>3, <2>4, Zenon DEF Believes
<1>4. QED
  BY <1>2, <1>3, Zenon DEF Believes

\* The oldest report in the queue becomes what the controller believes.
LEMMA HandleBelief ==
    ASSUME IInv, HandleStageEvent, events' = events,
           NEW t \in Stages, NEW st, Believes(t, st)
    PROVE  \/ LastReport(events', t, st)
           \/ NoReport(events', t) /\ LastReport(q', t, st)
           \/ NoReport(events', t) /\ NoReport(q', t) /\ actual'[t] = st
<1>1. /\ q \in Seq(Action) /\ q # <<>> /\ q' = Tail(q)
      /\ actual \in [Stages -> StageState] /\ Head(q).kind = "stage"
      /\ actual' = [actual EXCEPT ![Head(q).stage] = Head(q).state]
  BY Zenon DEF HandleStageEvent, Pops, IInv, TypeOK
<1>2. CASE LastReport(events, t, st)
  BY <1>2, Zenon
<1>3. CASE NoReport(events, t) /\ LastReport(q, t, st)
  <2>1. \/ LastReport(q', t, st)
        \/ NoReport(q', t) /\ IsReport(Head(q), t) /\ Head(q).state = st
    BY <1>1, <1>3, TailReport, Zenon
  <2>2. ASSUME IsReport(Head(q), t) PROVE actual'[t] = Head(q).state
    BY <1>1, <2>2, Zenon DEF IsReport
  <2>3. QED
    BY <1>3, <2>1, <2>2, Zenon
<1>4. CASE NoReport(events, t) /\ NoReport(q, t) /\ actual[t] = st
  <2>1. NoReport(q', t) /\ ~IsReport(Head(q), t)
    BY <1>1, <1>4, TailReport, Zenon
  <2>2. actual'[t] = st
    BY <1>1, <1>4, <2>1, Zenon DEF IsReport
  <2>3. QED
    BY <1>4, <2>1, <2>2, Zenon
<1>5. QED
  BY <1>2, <1>3, <1>4, Zenon DEF Believes

\* A step that has nothing to do with reports.
LEMMA QuietBelief ==
    ASSUME IInv, NEW t \in Stages, events' = events, actual'[t] = actual[t],
           \/ q' = q
           \/ q # <<>> /\ q' = Tail(q) /\ Head(q).kind # "stage"
           \/ \E a : q' = Append(q, a) /\ a.kind # "stage",
           NEW st, Believes(t, st)
    PROVE  \/ LastReport(events', t, st)
           \/ NoReport(events', t) /\ LastReport(q', t, st)
           \/ NoReport(events', t) /\ NoReport(q', t) /\ actual'[t] = st
<1>1. q \in Seq(Action)
  BY Zenon DEF IInv, TypeOK
<1>2. /\ NoReport(q, t) => NoReport(q', t)
      /\ LastReport(q, t, st) => LastReport(q', t, st)
  <2>1. CASE q' = q
    BY <2>1, Zenon
  <2>2. CASE q # <<>> /\ q' = Tail(q) /\ Head(q).kind # "stage"
    <3>1. ~IsReport(Head(q), t)
      BY <2>2, Zenon DEF IsReport
    <3>2. QED
      BY <1>1, <2>2, <3>1, TailReport, Zenon
  <2>3. CASE \E a : q' = Append(q, a) /\ a.kind # "stage"
    <3>1. PICK a : q' = Append(q, a) /\ ~IsReport(a, t)
      BY <2>3, Zenon DEF IsReport
    <3>2. QED
      BY <1>1, <3>1, AppendReport, Zenon
  <2>4. QED
    BY <2>1, <2>2, <2>3, Zenon
<1>3. QED
  BY <1>2, Zenon DEF Believes

\* A stage Teardown has yet to come to, if it is under way at all.
Pending(s) ==
    /\ main \in {"serving", "joined", "begun", "waited", "tearing"}
    /\ act \in {"teardown", "stopping"} => s >= cursor

\* BeliefsCatchUp stage by stage and for longer: until Teardown has dealt with
\* the stage, and records it stopped whatever became of its task.
BeliefInv == \A s \in Stages : Pending(s) => Believes(s, Truth(world[s]))

\* The pass of Teardown moves on: the stage it leaves, and no other, ceases to
\* be pending.
LEMMA PassMoves ==
    ASSUME IInv, FinalInv, act \in {"teardown", "stopping"}, TeardownAdvance,
           NEW t \in Stages
    PROVE  Pending(t)' <=> Pending(t) /\ t # cursor
<1>0. cursor \in Stages /\ t \in 1 .. NStages /\ cursor \in 1 .. NStages /\ NStages \in Nat
  BY ConfigAssumption, Zenon DEF IInv, TypeOK, Stages
<1>1. main = "tearing"
  BY Zenon DEF FinalInv
<1>2. CASE cursor < NStages
  <2>1. act' = "teardown" /\ cursor' = cursor + 1 /\ main' = main
    BY <1>0, <1>2, LoopEnds, Zenon DEF TeardownAdvance
  <2>2. QED
    BY <1>0, <1>1, <2>1 DEF Pending
<1>3. CASE cursor >= NStages
  <2>1. cursor = NStages /\ main' = "torn"
    BY <1>0, <1>3, LoopEnds DEF TeardownAdvance
  <2>2. QED
    BY <1>0, <1>1, <2>1 DEF Pending
<1>4. QED
  BY <1>0, <1>2, <1>3

\* Every other step leaves the pending stages pending, and adds none.
LEMMA PendingKept ==
    ASSUME IInv, FinalInv, NEW t \in Stages,
           \/ UNCHANGED <<main, act, cursor>>
           \/ QueueStep /\ ~TeardownSkip
           \/ TeardownStopBegin \/ Environment \/ MainStep
    PROVE  Pending(t)' <=> Pending(t)
<1> USE DEF stageVars, queueVars, opVars, callers
<1>0. t \in Nat /\ t >= 1
  BY DEF Stages
<1>1. CASE UNCHANGED <<main, act, cursor>>
  BY <1>1, Zenon DEF Pending
<1>2. ASSUME main' = main, act \notin {"teardown", "stopping"}, act' \notin {"teardown", "stopping"}
      PROVE  Pending(t)' <=> Pending(t)
  BY <1>2, Zenon DEF Pending
<1>3. CASE HandlePathEvent \/ HandleControl \/ HandleStageEvent \/ HandleClear
  BY <1>1, <1>3, Zenon DEF HandlePathEvent, HandleControl, HandleStageEvent, HandleClear
<1>4. CASE \/ ReconcileBegin \/ ReconcileConverged \/ ReconcileSkip
           \/ Fire \/ FireSubmitted \/ FireNoMemory
  <2>1. main' = main /\ act \notin {"teardown", "stopping"}
    BY <1>4, Zenon DEF ReconcileBegin, ReconcileConverged, ReconcileSkip, Fire, FireSubmitted,
                       FireNoMemory, Pops
  <2>2. act' \notin {"teardown", "stopping"}
    BY <1>4, Zenon DEF ReconcileBegin, ReconcileConverged, ReconcileSkip, Fire, FireSubmitted,
                       FireNoMemory, AfterStage
  <2>3. QED
    BY <1>2, <2>1, <2>2, Zenon
<1>5. CASE TeardownBegin
  <2>1. act = "idle" /\ cursor = 1 /\ UNCHANGED <<main, cursor>>
    BY <1>5, Zenon DEF TeardownBegin, Pops, FinalInv
  <2>2. QED
    BY <1>0, <2>1, Zenon DEF Pending
<1>6. CASE TeardownStopBegin
  BY <1>6, Zenon DEF TeardownStopBegin, TeardownStop, Pending
<1>7. CASE RunReturns
  BY <1>7, Zenon DEF RunReturns, Pending
<1>8. CASE Tick \/ HttpSubmit \/ Terminated
  BY <1>1, <1>8 DEF Tick, HttpSubmit, Terminated, vars
<1>9. CASE JoinThreads \/ BeginShutdown \/ WaitForOps \/ SubmitTeardown \/ Close
  BY <1>9, Zenon DEF JoinThreads, BeginShutdown, WaitForOps, SubmitTeardown, Close, Pending
<1>10. QED
  BY <1>1, <1>3, <1>4, <1>5, <1>6, <1>7, <1>8, <1>9, Zenon
     DEF QueueStep, Environment, MainStep, Shutdown

\* The steps of the controller that are not about a report.
LEMMA QuietSteps ==
    ASSUME IInv, FinalInv, NEW t \in Stages, Pending(t)',
           \/ OpBegin \/ OpEnd \/ OpCleanup \/ TeardownStopBegin \/ TeardownStopEnd
           \/ QueueStep /\ ~HandleStageEvent
           \/ Ticker \/ HttpReconcile \/ Environment \/ MainStep
    PROVE  /\ Pending(t) /\ UNCHANGED <<events, world>> /\ actual'[t] = actual[t]
           /\ \/ q' = q
              \/ q # <<>> /\ q' = Tail(q) /\ Head(q).kind # "stage"
              \/ \E a : q' = Append(q, a) /\ a.kind # "stage"
<1> USE DEF stageVars, queueVars, opVars, callers
<1>1. CASE OpBegin \/ OpEnd \/ OpCleanup
  <2>1. \/ UNCHANGED q
        \/ \E s, g : q' = Append(q, Clear(s, g))
    BY <1>1, Zenon DEF OpBegin, OpEnd, OpCleanup, WorkerTake, OpReturn, OpFail, OpPostClear, OpDone
  <2>2. UNCHANGED <<main, act, cursor, actual, events, world>>
    BY <1>1, Zenon DEF OpBegin, OpEnd, OpCleanup, WorkerTake, OpReturn, OpFail, OpPostClear,
                       OpDone, Others
  <2>3. \A s, g : Clear(s, g).kind # "stage"
    BY Zenon DEF Clear
  <2>4. QED
    BY <2>1, <2>2, <2>3, PendingKept, Zenon
<1>2. CASE TeardownStopEnd \/ (QueueStep /\ TeardownSkip)
  <2>1. act \in {"teardown", "stopping"} /\ TeardownAdvance
    BY <1>2, Zenon DEF TeardownStopEnd, TeardownMark, TeardownSkip
  <2>2. Pending(t) /\ t # cursor
    BY <2>1, PassMoves, Zenon
  <2>3. UNCHANGED <<events, world, q>>
    BY <1>2, Zenon DEF TeardownStopEnd, TeardownMark, TeardownSkip, QueueStep, Others, opsVars
  <2>4. actual'[t] = actual[t]
    BY <1>2, <2>2, Zenon DEF TeardownStopEnd, TeardownMark, TeardownSkip, IInv, TypeOK
  <2>5. QED
    BY <2>2, <2>3, <2>4, Zenon
<1>3. CASE QueueStep /\ (\/ HandlePathEvent \/ HandleControl \/ HandleClear \/ ReconcileBegin
                        \/ TeardownBegin)
  <2>1. q # <<>> /\ q' = Tail(q) /\ Head(q).kind # "stage" /\ act = "idle"
    BY <1>3, Zenon DEF HandlePathEvent, HandleControl, HandleClear, ReconcileBegin,
                       TeardownBegin, Pops
  <2>2. UNCHANGED <<actual, events, world>>
    BY <1>3, Zenon DEF QueueStep, opsVars, HandlePathEvent, HandleControl, HandleClear,
                       ReconcileBegin, TeardownBegin
  <2>3. ~TeardownSkip
    BY <2>1, Zenon DEF TeardownSkip
  <2>4. QED
    BY <1>3, <2>1, <2>2, <2>3, PendingKept, Zenon
<1>4. CASE QueueStep /\ (\/ ReconcileConverged \/ ReconcileSkip \/ Fire \/ FireSubmitted
                        \/ FireNoMemory \/ RunReturns)
  <2>1. UNCHANGED <<q, actual, events, world>> /\ act \notin {"teardown", "stopping"}
    BY <1>4, Zenon DEF QueueStep, opsVars, ReconcileConverged, ReconcileSkip, Fire, FireSubmitted,
                       FireNoMemory, RunReturns
  <2>2. ~TeardownSkip
    BY <2>1, Zenon DEF TeardownSkip
  <2>3. QED
    BY <1>4, <2>1, <2>2, PendingKept, Zenon
<1>5. CASE Ticker \/ HttpReconcile
  <2>1. EnqueueReconcile /\ UNCHANGED <<main, act, cursor, actual, events, world>>
    BY <1>5, Zenon DEF Ticker, HttpReconcile, TickerRequestReconcile, HttpRequestReconcile, opsVars
  <2>2. Reconcile.kind # "stage"
    BY Zenon DEF Reconcile
  <2>3. QED
    BY <2>1, <2>2, PendingKept, Zenon DEF EnqueueReconcile
<1>6. CASE Environment
  <2>1. /\ \A p, st : PathEvent(p, st).kind # "stage"
        /\ \A cmd : Control(cmd).kind # "stage"
    BY Zenon DEF PathEvent, Control
  <2>2. Pending(t)
    BY <1>6, PendingKept, ZenonT(30)
  <2>3. CASE HttpSubmit
    <3>1. PICK a \in {PathEvent(p, st) : p \in Paths, st \in PathStatus}
                       \cup {Control(cmd) : cmd \in Commands} :
             q' = Append(q, a)
      BY <2>3 DEF HttpSubmit
    <3>2. a.kind # "stage"
      BY <2>1
    <3>3. QED
      BY <1>6, <2>2, <2>3, <3>1, <3>2 DEF HttpSubmit, Environment, opsVars
  <2>4. CASE Tick \/ JoinThreads \/ Terminated
    BY <1>6, <2>2, <2>4, Zenon DEF Environment, opsVars, Tick, JoinThreads, Terminated, vars
  <2>5. QED
    BY <1>6, <2>3, <2>4, Zenon DEF Environment
<1>7. CASE MainStep
  <2>1. Pending(t)
    BY <1>7, PendingKept, Zenon
  <2>2. q' = q \/ q' = Append(q, Teardown)
    BY <1>7, Zenon DEF MainStep, Shutdown, BeginShutdown, WaitForOps, SubmitTeardown, Close
  <2>3. Teardown.kind # "stage"
    BY Zenon DEF Teardown
  <2>4. UNCHANGED <<actual, events, world>>
    BY <1>7, Zenon DEF MainStep, Shutdown, BeginShutdown, WaitForOps, SubmitTeardown, Close, opsVars
  <2>5. QED
    BY <2>1, <2>2, <2>3, <2>4, Zenon
<1>8. CASE TeardownStopBegin
  <2>1. UNCHANGED <<q, actual, events, world>>
    BY <1>8, Zenon DEF TeardownStopBegin, TeardownStop, Others
  <2>2. QED
    BY <1>8, <2>1, PendingKept, Zenon
<1>9. QED
  BY <1>1, <1>2, <1>3, <1>4, <1>5, <1>6, <1>7, <1>8, Zenon DEF QueueStep

\* Every step keeps the belief and the truth together.
LEMMA BeliefStep ==
    ASSUME IInv, FinalInv, OpsInv, BeliefInv, [SNext]_allVars
    PROVE  BeliefInv'
<1> SUFFICES ASSUME NEW t \in Stages, Pending(t)'
             PROVE  Believes(t, Truth(world[t]))'
  BY Zenon DEF BeliefInv
<1>0. ASSUME Pending(t) PROVE Believes(t, Truth(world[t]))
  BY <1>0, ZenonT(30) DEF BeliefInv
<1>1. ASSUME UNCHANGED world,
             \A st : Believes(t, st) =>
                \/ LastReport(events', t, st)
                \/ NoReport(events', t) /\ LastReport(q', t, st)
                \/ NoReport(events', t) /\ NoReport(q', t) /\ actual'[t] = st,
             Pending(t)
      PROVE  Believes(t, Truth(world[t]))'
  BY <1>0, <1>1, SMTT(60) DEF Believes, LastReport, NoReport, IsReport, Truth
<1>2. CASE UNCHANGED allVars
  <2>1. UNCHANGED <<events, world, actual, main, act, cursor, q>>
    BY <1>2, Zenon DEF allVars, vars, opsVars, stageVars, callers, queueVars
  <2>2. QED
    BY <1>1, <2>1, QuietBelief, PendingKept, Zenon
<1>3. CASE OpStep \/ TaskExits
  <2>1. (\E s \in Stages : TaskStep(s)) /\ UNCHANGED vars
    BY <1>3, OpStepShape, ExitStep, Zenon
  <2>2. UNCHANGED <<main, act, cursor>>
    BY <2>1, Zenon DEF vars, callers
  <2>3. QED
    BY <1>0, <2>1, <2>2, TaskBelief, PendingKept, Zenon
<1>4. CASE ListenerForward
  <2>1. UNCHANGED <<world, main, act, cursor>>
    BY <1>4, Zenon DEF ListenerForward, ListenerSubmit
  <2>2. QED
    BY <1>1, <1>4, <2>1, ForwardBelief, PendingKept, Zenon
<1>5. CASE QueueStep /\ HandleStageEvent
  <2>1. UNCHANGED <<world, events, main, act, cursor>>
    BY <1>5, Zenon DEF HandleStageEvent, QueueStep, opsVars
  <2>2. QED
    BY <1>1, <1>5, <2>1, HandleBelief, PendingKept, Zenon
<1>6. CASE \/ OpBegin \/ OpEnd \/ OpCleanup \/ TeardownStopBegin \/ TeardownStopEnd
           \/ QueueStep /\ ~HandleStageEvent
           \/ Ticker \/ HttpReconcile \/ Environment \/ MainStep
  <2>1. /\ Pending(t) /\ UNCHANGED <<events, world>> /\ actual'[t] = actual[t]
        /\ \/ q' = q
           \/ q # <<>> /\ q' = Tail(q) /\ Head(q).kind # "stage"
           \/ \E a : q' = Append(q, a) /\ a.kind # "stage"
    BY <1>6, QuietSteps, Zenon
  <2>2. QED
    BY <1>1, <2>1, QuietBelief, Zenon
<1>7. QED
  BY <1>2, <1>3, <1>4, <1>5, <1>6, Zenon DEF SNext

\* The queue and the pass of Teardown are as the controller alone has them.
LEMMA FinalUnderOps == SSpec => []FinalInv
<1>1. SInit => FinalInv
  BY DEF SInit, Init, FinalInv, None, One, TeardownIsFinal
<1>2. IInv /\ FinalInv /\ [SNext]_allVars => FinalInv'
  BY ControllerStep, FinalStep, Zenon DEF IInv
<1>3. QED
  BY <1>1, <1>2, ControllerInvariant, PTL DEF SSpec

\* The belief of a pending stage follows its task, if none ran at the start.
LEMMA BeliefInvariant ==
    ASSUME \A w \in Leftovers : w.task \notin {"running", "dying"}
    PROVE  SSpec => []BeliefInv
<1>1. SInit => BeliefInv
  <2> SUFFICES ASSUME SInit, NEW s \in Stages
               PROVE  Believes(s, Truth(world[s]))
    BY Zenon DEF BeliefInv
  <2>1. q = <<>> /\ actual[s] = "stopped"
    BY Zenon DEF SInit, Init
  <2>2. events = <<>> /\ Truth(world[s]) = "stopped"
    BY Zenon DEF SInit, Truth
  <2>3. DOMAIN events = {} /\ DOMAIN q = {}
    BY <2>1, <2>2
  <2>4. QED
    BY <2>1, <2>2, <2>3, Zenon DEF Believes, NoReport
<1>2. IInv /\ FinalInv /\ OpsInv /\ BeliefInv /\ [SNext]_allVars => BeliefInv'
  BY BeliefStep, Zenon
<1>3. QED
  BY <1>1, <1>2, OpsInvariant, FinalUnderOps, PTL DEF SSpec

\* The controller never loses track of a task, for any number of stages,
\* workers, fires and faults, as long as no task was running when it started
\* (handle_stage_event, the event listener).
THEOREM BeliefsFollowTasks ==
    ASSUME \A w \in Leftovers : w.task \notin {"running", "dying"}
    PROVE  SSpec => []BeliefsCatchUp
<1>1. FinalInv /\ BeliefInv => BeliefsCatchUp
  BY Zenon DEF FinalInv, BeliefInv, Pending, BeliefsCatchUp, Truth
<1>2. QED
  BY <1>1, BeliefInvariant, FinalUnderOps, PTL
=============================================================================
