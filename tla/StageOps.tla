------------------------------ MODULE StageOps ------------------------------
(***************************************************************************)
(* The stage ops of main.c (stage_stop_op, stage_start_op) on top of module *)
(* Controller, with the containerd daemon they talk to.                     *)
(*                                                                         *)
(* An op is a sequence of RPCs with safe points between them.  A safe point *)
(* and the reads that follow it are one step; a safe point followed by an   *)
(* RPC that changes something is two, since a newer op may be fired between *)
(* them.  Every public call of the containerd client runs under the client  *)
(* lock, so one call is one step.  A call fails with or without its effect; *)
(* MaxFaults bounds how often.  Memory does not run out here: module        *)
(* Controller has those paths.                                              *)
(***************************************************************************)
EXTENDS Controller

CONSTANTS
    MaxFaults,     \* bound: calls that fail
    MaxCrashes,    \* bound: tasks that exit without being asked to
    Leftovers      \* what an earlier run of the controller may have left

VARIABLES
    world,         \* what containerd holds for the container id of a stage
    events,        \* the event stream, not yet read by the listener
    ops,           \* the ops on a worker and where each of them is
    faults, crashes

opsVars == <<world, events, ops, faults, crashes>>
allVars == <<vars, opsVars>>

\* "dying" and "aborting": a running, or a merely created, task was signalled.
TaskState == {"none", "created", "running", "dying", "aborting", "exited"}
World     == [container : BOOLEAN, snapshot : BOOLEAN, task : TaskState]
Nothing   == [container |-> FALSE, snapshot |-> FALSE, task |-> "none"]

ASSUME OpsAssumption ==
    Leftovers \subseteq World /\ MaxFaults \in Nat /\ MaxCrashes \in Nat

\* The next thing an op does; "ok" and "failed" are its return values.
Position == {"start", "stop", "load_task", "delete_bare", "wait_spawned",
             "kill", "wait", "task_delete", "task_force_delete",
             "task_deleted", "delete_container", "prepare", "new_container",
             "created", "new_task", "tasked", "task_start", "ok", "failed"}

\* Generation 0 stands for the NULL cancel handle of Teardown.
TeardownJob(s) == [stage |-> s, gen |-> 0, target |-> "stopped",
                   deadline |-> 0, pc |-> "op"]

SInit ==
    /\ Init
    /\ world \in [Stages -> Leftovers]
    /\ events = <<>> /\ ops = {}
    /\ faults = 0 /\ crashes = 0

------------------------------------------------------------------------------
(* What an op knows: op_superseded_abort and op_rpc_budget.                  *)

OpSuperseded(o) == o.job.gen # 0 /\ Superseded(o.job)

RemainingMs(o) == IF o.job.gen = 0 THEN -1 ELSE o.job.deadline - now

\* Mutant: the budget is the time left, whatever its sign.
BudgetPlain(o) == RemainingMs(o)

\* A negative remainder is taken for "no deadline".
OpRpcBudget(o) ==
    IF RemainingMs(o) < 0 THEN Timeout
    ELSE IF RemainingMs(o) < Timeout THEN RemainingMs(o) ELSE Timeout

IsStart(o) == o.job.target = "running"

\* stage_stop_op returned 0: alone, or as the cleanup of stage_start_op.
StopReturned(o) == IF IsStart(o) THEN "prepare" ELSE "ok"

At(o, at) == o \in ops /\ o.at = at

Goto(o, at) == ops' = (ops \ {o}) \cup {[o EXCEPT !.at = at]}

\* The answer to a call that had its effect: it arrives, or it is lost.
Answered(o, at) ==
    \/ Goto(o, at) /\ UNCHANGED faults
    \/ faults < MaxFaults /\ faults' = faults + 1 /\ Goto(o, "failed")

\* The daemon refuses the call.
Refused(o) == Goto(o, "failed") /\ UNCHANGED <<world, events, faults>>

Reads(o, at) == Goto(o, at) /\ UNCHANGED <<world, events, faults>>

The(o) == world[o.job.stage]

Alive(t) == t \in {"created", "running", "dying", "aborting"}

Signalled(t) == CASE t = "running" -> "dying"
                  [] t = "created" -> "aborting"
                  [] OTHER         -> t

\* A step of an op leaves the controller alone.
OpKeeps == UNCHANGED <<vars, crashes>>

\* A call that fails without effect.
CallFails(o) ==
    /\ o \in ops
    /\ o.at \notin {"start", "created", "tasked", "task_deleted", "ok", "failed"}
    /\ o.at = "stop" => ~OpSuperseded(o) /\ OpRpcBudget(o) > 0
    /\ o.at \in {"load_task", "wait_spawned", "wait", "prepare"} =>
          ~OpSuperseded(o)
    /\ faults < MaxFaults /\ faults' = faults + 1
    /\ Goto(o, "failed")
    /\ UNCHANGED <<world, events>> /\ OpKeeps

------------------------------------------------------------------------------
(* stage_stop_op.                                                            *)

\* Safe point, budget, load_container.
StopBegin(o) ==
    /\ At(o, "stop")
    /\ Reads(o, IF OpSuperseded(o) THEN StopReturned(o)
                ELSE IF OpRpcBudget(o) <= 0 THEN "failed"
                ELSE IF The(o).container THEN "load_task"
                ELSE StopReturned(o))
    /\ OpKeeps

\* Without a task only the container is left to delete.
LoadTask(o) ==
    /\ At(o, "load_task")
    /\ Reads(o, IF OpSuperseded(o) THEN StopReturned(o)
                ELSE IF The(o).task = "none" THEN "delete_bare"
                ELSE "wait_spawned")
    /\ OpKeeps

\* The waiter thread is up; the last safe point before the signal.
WaitSpawned(o) ==
    /\ At(o, "wait_spawned")
    /\ Reads(o, IF OpSuperseded(o) THEN StopReturned(o) ELSE "kill")
    /\ OpKeeps

\* NotFound is tolerated.
Kill(o) ==
    /\ At(o, "kill")
    /\ world' = [world EXCEPT ![o.job.stage].task = Signalled(@)]
    /\ Answered(o, "wait")
    /\ UNCHANGED events /\ OpKeeps

\* The waiter returned: the task has exited, is gone, or the grace period is
\* over.
Waited(o) ==
    /\ At(o, "wait")
    /\ Reads(o, IF OpSuperseded(o) THEN StopReturned(o)
                ELSE CASE The(o).task = "exited" -> "task_delete"
                       [] The(o).task = "none"   -> "task_deleted"
                       [] OTHER                  -> "task_force_delete")
    /\ OpKeeps

TaskDelete(o) ==
    /\ At(o, "task_delete")
    /\ \/ /\ The(o).task \in {"none", "created", "exited"}
          /\ world' = [world EXCEPT ![o.job.stage].task = "none"]
          /\ Answered(o, "task_deleted")
          /\ UNCHANGED events
       \/ The(o).task \in {"running", "dying", "aborting"} /\ Refused(o)
    /\ OpKeeps

\* SIGKILL, the wait for the exit, and the delete, under one hold of the lock.
\* The delete may fail with the signal sent.
TaskForceDelete(o) ==
    /\ At(o, "task_force_delete")
    /\ \/ /\ world' = [world EXCEPT ![o.job.stage].task = "none"]
          /\ events' = IF Alive(The(o).task)
                         THEN Append(events, StageEvent(o.job.stage, "stopped"))
                         ELSE events
          /\ Answered(o, "task_deleted")
       \/ /\ faults < MaxFaults /\ faults' = faults + 1
          /\ world' = [world EXCEPT ![o.job.stage].task = Signalled(@)]
          /\ Goto(o, "failed")
          /\ UNCHANGED events
    /\ OpKeeps

TaskDeleted(o) ==
    /\ At(o, "task_deleted")
    /\ Reads(o, IF OpSuperseded(o) THEN StopReturned(o) ELSE "delete_container")
    /\ OpKeeps

\* The snapshot goes first, and is gone even if the container then cannot be
\* deleted; a missing container is an error.
DeleteContainer(o) ==
    /\ At(o, "delete_container") \/ At(o, "delete_bare")
    /\ \/ /\ The(o).container
          /\ world' = [world EXCEPT ![o.job.stage].container = FALSE,
                                    ![o.job.stage].snapshot = FALSE]
          /\ Answered(o, StopReturned(o))
       \/ /\ ~The(o).container \/ faults < MaxFaults
          /\ world' = [world EXCEPT ![o.job.stage].snapshot = FALSE]
          /\ faults' = IF The(o).container THEN faults + 1 ELSE faults
          /\ Goto(o, "failed")
    /\ UNCHANGED events /\ OpKeeps

------------------------------------------------------------------------------
(* stage_start_op.                                                           *)

\* The inner stop takes the budget over.
StartBegin(o) ==
    /\ At(o, "start")
    /\ Reads(o, IF OpSuperseded(o) THEN "ok"
                ELSE IF OpRpcBudget(o) <= 0 THEN "failed" ELSE "stop")
    /\ OpKeeps

\* Argv, mounts and CDI devices, between two safe points.
Prepare(o) ==
    /\ At(o, "prepare")
    /\ Reads(o, IF OpSuperseded(o) THEN "ok" ELSE "new_container")
    /\ OpKeeps

\* The snapshot is prepared (or is there already); then the container is
\* created, which fails if the id is taken.
NewContainer(o) ==
    /\ At(o, "new_container")
    /\ \/ /\ ~The(o).container
          /\ world' = [world EXCEPT ![o.job.stage].container = TRUE,
                                    ![o.job.stage].snapshot = TRUE]
          /\ Answered(o, "created")
       \/ /\ The(o).container \/ faults < MaxFaults
          /\ world' = [world EXCEPT ![o.job.stage].snapshot = TRUE]
          /\ faults' = IF The(o).container THEN faults ELSE faults + 1
          /\ Goto(o, "failed")
    /\ UNCHANGED events /\ OpKeeps

Created(o) ==
    /\ At(o, "created")
    /\ Reads(o, IF OpSuperseded(o) THEN "ok" ELSE "new_task")
    /\ OpKeeps

NewTask(o) ==
    /\ At(o, "new_task")
    /\ \/ /\ The(o).snapshot /\ The(o).container /\ The(o).task = "none"
          /\ world' = [world EXCEPT ![o.job.stage].task = "created"]
          /\ Answered(o, "tasked")
          /\ UNCHANGED events
       \/ /\ ~(The(o).snapshot /\ The(o).container /\ The(o).task = "none")
          /\ Refused(o)
    /\ OpKeeps

Tasked(o) ==
    /\ At(o, "tasked")
    /\ Reads(o, IF OpSuperseded(o) THEN "ok" ELSE "task_start")
    /\ OpKeeps

TaskStart(o) ==
    /\ At(o, "task_start")
    /\ \/ /\ The(o).task = "created"
          /\ world' = [world EXCEPT ![o.job.stage].task = "running"]
          /\ events' = Append(events, StageEvent(o.job.stage, "running"))
          /\ Answered(o, "ok")
       \/ The(o).task # "created" /\ Refused(o)
    /\ OpKeeps

OpStep ==
    \E o \in ops :
        \/ StopBegin(o) \/ LoadTask(o) \/ WaitSpawned(o) \/ Kill(o) \/ Waited(o)
        \/ TaskDelete(o) \/ TaskForceDelete(o) \/ TaskDeleted(o)
        \/ DeleteContainer(o)
        \/ StartBegin(o) \/ Prepare(o) \/ NewContainer(o) \/ Created(o)
        \/ NewTask(o) \/ Tasked(o) \/ TaskStart(o)
        \/ CallFails(o)

------------------------------------------------------------------------------
(* The controller's side of an op.                                           *)

Others == UNCHANGED <<world, events, faults, crashes>>

\* run_stage_op calls the op ...
OpBegin ==
    /\ WorkerTake
    /\ ops' = ops \cup
         {[job |-> j, at |-> IF j.target = "running" THEN "start" ELSE "stop"]
             : j \in active' \ active}
    /\ Others

\* ... and looks at what it returned.
OpEnd ==
    /\ \E o \in ops :
          /\ \/ o.at = "ok" /\ OpReturn(o.job)
             \/ o.at = "failed" /\ OpSuperseded(o) /\ OpReturn(o.job)
             \/ o.at = "failed" /\ OpFail(o.job)
          /\ ops' = ops \ {o}
    /\ Others

OpCleanup ==
    /\ \E j \in active : \/ OpPostClear(j) /\ (q_closed \/ q' # q)
                         \/ OpDone(j)
    /\ UNCHANGED ops /\ Others

TeardownStopBegin ==
    /\ TeardownStop
    /\ ops' = ops \cup {[job |-> TeardownJob(cursor), at |-> "stop"]}
    /\ Others

TeardownStopEnd ==
    /\ \E o \in ops : /\ o.job = TeardownJob(cursor)
                      /\ o.at \in {"ok", "failed"}
                      /\ ops' = ops \ {o}
    /\ TeardownMark
    /\ Others

\* Mutant: an event that finds the controller busy is dropped.
ListenerForwardLossy ==
    /\ events # <<>> /\ events' = Tail(events)
    /\ \/ q = <<>> /\ ListenerSubmit /\ q' = Append(q, Head(events))
       \/ q # <<>> /\ UNCHANGED vars
    /\ UNCHANGED <<world, ops, faults, crashes>>

\* The listener thread forwards the oldest event.
ListenerForward ==
    /\ events # <<>>
    /\ ListenerSubmit /\ q' = Append(q, Head(events))
    /\ events' = Tail(events)
    /\ UNCHANGED <<world, ops, faults, crashes>>

\* A task that was signalled exits, or one that was not crashes.
TaskExits ==
    /\ \E s \in Stages :
          /\ \/ world[s].task \in {"dying", "aborting"} /\ UNCHANGED crashes
             \/ /\ world[s].task = "running"
                /\ crashes < MaxCrashes /\ crashes' = crashes + 1
          /\ world' = [world EXCEPT ![s].task = "exited"]
          /\ events' = Append(events, StageEvent(s, "stopped"))
    /\ UNCHANGED <<vars, ops, faults>>

QueueStep ==
    /\ \/ HandlePathEvent \/ HandleControl \/ HandleStageEvent \/ HandleClear
       \/ ReconcileBegin \/ ReconcileConverged \/ ReconcileSkip
       \/ Fire \/ FireSubmitted
       \/ op_generation[cursor] = MaxFires /\ FireNoMemory
       \/ TeardownBegin \/ TeardownSkip \/ RunReturns
    /\ UNCHANGED opsVars

Ticker == TickerRequestReconcile /\ UNCHANGED opsVars

HttpReconcile == HttpRequestReconcile /\ UNCHANGED opsVars

Environment == (Tick \/ HttpSubmit \/ JoinThreads \/ Terminated) /\ UNCHANGED opsVars

MainStep == Shutdown /\ UNCHANGED opsVars

SNext ==
    \/ OpStep \/ OpBegin \/ OpEnd \/ OpCleanup
    \/ TeardownStopBegin \/ TeardownStopEnd
    \/ ListenerForward \/ TaskExits
    \/ QueueStep \/ Ticker \/ HttpReconcile \/ Environment \/ MainStep

\* The threads run, the listener reads its stream, the ticker ticks, and the
\* daemon answers or a call times out.
SFairness ==
    /\ WF_allVars(QueueStep \/ TeardownStopBegin \/ TeardownStopEnd)
    /\ WF_allVars(OpStep \/ OpBegin \/ OpEnd \/ OpCleanup)
    /\ SF_allVars(ListenerForward)
    /\ WF_allVars(Ticker)
    /\ WF_allVars(HttpReconcile)
    /\ WF_allVars(MainStep)

SSpec == SInit /\ [][SNext]_allVars /\ SFairness

------------------------------------------------------------------------------
\* Every variable has its type, and the ops under way are those of the jobs
\* the workers hold plus, during Teardown, its own stop op.
STypeOK ==
    /\ TypeOK
    /\ world \in [Stages -> World]
    /\ events \in Seq([kind : {"stage"}, stage : Stages, state : StageState])
    /\ \A o \in ops : o.at \in Position
    /\ {o.job : o \in ops} =
         {j \in active : j.pc = "op"}
           \cup (IF act = "stopping" THEN {TeardownJob(cursor)} ELSE {})

\* What the controller will believe of a stage once it has worked off every
\* report under way: the last one in the stream, else the last one queued,
\* else what it believes now.
IsReport(e, s) == e.kind = "stage" /\ e.stage = s

NoReport(sq, s) == \A k \in DOMAIN sq : ~IsReport(sq[k], s)

LastReport(sq, s, st) ==
    \E k \in DOMAIN sq :
        /\ IsReport(sq[k], s) /\ sq[k].state = st
        /\ \A m \in DOMAIN sq : m > k => ~IsReport(sq[m], s)

Believes(s, st) ==
    \/ LastReport(events, s, st)
    \/ NoReport(events, s) /\ LastReport(q, s, st)
    \/ NoReport(events, s) /\ NoReport(q, s) /\ actual[s] = st

\* While the listener is up the controller never loses track of a task: once
\* the reports under way are handled, actual says running exactly when the
\* task runs, however ops of several fires interleaved (handle_stage_event,
\* the listener thread).
BeliefsCatchUp ==
    main = "serving" =>
        \A s \in Stages :
            Believes(s, IF world[s].task \in {"running", "dying"}
                          THEN "running" ELSE "stopped")

\* A task that still runs after Teardown is one of three: its start was not
\* reported before the listener stopped, a call of its stop op failed, or an
\* op of an older fire deleted its container record under it, so that the stop
\* op found nothing to stop.
SurvivorsExplained ==
    main \in {"torn", "closed", "done"} =>
        \A s \in Stages :
            world[s].task \in {"running", "dying"} =>
                \/ ~NoReport(events, s)
                \/ faults > 0
                \/ ~world[s].container

\* Teardown leaves no task alive: "Teardown synchronously stops every running
\* stage" (controller.h).  It stops the stages recorded as running, and a start
\* op that finished after the listener's last report is not.
TeardownStopsEveryTask ==
    main \in {"torn", "closed", "done"} =>
        \A s \in Stages : ~Alive(world[s].task)

\* A stage whose desired state stays put is brought to it, and its task with
\* it, once calls stop failing, tasks stop crashing and ops stop timing out;
\* otherwise it keeps being fired (up to the bound MaxFires).  No mixture of
\* late events, superseded ops and failed cleanups wedges it.
Convergence ==
    \A s \in Stages, d \in StageState :
        <>[](desired[s] = d /\ main = "serving") =>
            \/ <>(op_generation[s] = MaxFires)
            \/ <>[](/\ actual[s] = d
                    /\ (world[s].task \in {"running", "dying"}) = (d = "running"))
=============================================================================
