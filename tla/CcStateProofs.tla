--------------------------- MODULE CcStateProofs ---------------------------
(***************************************************************************)
(* Proofs about the single-threaded controller (CcState), for any set of    *)
(* clients, any way the stream may end and any number of requests, exits     *)
(* and failures: listeners are never behind, the two pipelines exclude each  *)
(* other, and at rest the status says what the tasks do.                     *)
(*                                                                         *)
(* The last part is about the operations it calls (CcCtr): one that reports  *)
(* success has done its work.                                                *)
(***************************************************************************)
EXTENDS CcState, TLAPS

States == {"running", "stopped"}
Marks  == {"no", "fresh", "expired"}
Labels == {"top", "poll", "polled", "http", "reconcile", "op", "start", "ret",
           "waitops", "teardown", "tdstop", "tdret", "done"}
Events == [stage : Stages, state : States]

\* The types of the variables.
Types ==
    /\ single \in BOOLEAN
    /\ paths \in [{"ingress0", "normalized"} -> {"unknown", "ready", "notReady"}]
    /\ desired \in [Stages -> States]
    /\ actual \in [Stages -> States]
    /\ inflight \in [Stages -> Marks]
    /\ listeners \subseteq Clients
    /\ seen \in [Clients -> [desired : [Stages -> States], actual : [Stages -> States]]]
    /\ pc \in Labels
    /\ at \in 1..4
    /\ tasks \in [Stages -> {"none", "running"}]
    /\ queue \in Seq(Events)

\* The stages the configured mode has no route to.
Idle == IF single THEN {"normalize", "scale"} ELSE {"single"}

\* What makes the exclusion of the pipelines inductive: an idle stage is never
\* desired, and only an operation for a desired stage gets to its start.
PipelineInv ==
    /\ \A s \in Idle : desired[s] = "stopped" /\ tasks[s] = "none"
    /\ pc = "start" => desired[Current] = "running"

IInv == Types /\ ListenersCurrent /\ PipelineInv

---------------------------------------------------------------------------
\* The stage a loop of the thread is at is one of the table.
LEMMA CurrentStage ==
    ASSUME at \in 1..4
    PROVE  Current \in Stages /\ Len(InOrder) = 4
<1>1. \/ at = 1
      \/ at = 2
      \/ at = 3
      \/ at = 4
  OBVIOUS
<1>2. Len(InOrder) = 4 /\ InOrder[1] = "mediamtx" /\ InOrder[2] = "normalize"
      /\ InOrder[3] = "scale" /\ InOrder[4] = "single"
  BY DEF InOrder
<1>3. QED
  BY <1>1, <1>2 DEF Current, Stages

\* The step to the next stage stays in the table and goes to one of two labels.
LEMMA NextStageLabels ==
    ASSUME at \in 1..4, NEW loop, NEW after, NextStage(loop, after)
    PROVE  /\ at' \in 1..4
           /\ pc' \in {loop, after}
           /\ at < 4 => pc' = loop
           /\ at = 4 => pc' = after
<1>1. Len(InOrder) = 4
  BY CurrentStage
<1>2. CASE at < 4
  BY <1>1, <1>2 DEF NextStage
<1>3. CASE at = 4
  BY <1>1, <1>3 DEF NextStage
<1>4. QED
  BY <1>2, <1>3

\* The routes lead to stages of the configured mode.
LEMMA Routes ==
    ASSUME single \in BOOLEAN, NEW p, NEW st, NEW a
    PROVE  /\ CommandRoute(a)[1].stage \in Stages \ Idle
           /\ CommandRoute(a)[1].state \in States
           /\ PathRoute(p, st) # NoRoute =>
                 /\ PathRoute(p, st)[1].stage \in Stages \ Idle
                 /\ PathRoute(p, st)[1].state \in States
<1>1. /\ CommandRoute(a)[1].stage = IF single THEN "single" ELSE "scale"
      /\ CommandRoute(a)[1].state \in States
  BY DEF CommandRoute, Target, States
<1>2. ASSUME PathRoute(p, st) # NoRoute
      PROVE  ~ single /\ PathRoute(p, st)[1].stage = "normalize" /\ PathRoute(p, st)[1].state \in States
  BY <1>2 DEF PathRoute, Target, NoRoute, States
<1>3. QED
  BY <1>1, <1>2 DEF Stages, Idle

\* A notification brings every listener up to date.
LEMMA Notified ==
    ASSUME seen \in [Clients -> [desired : [Stages -> States], actual : [Stages -> States]]],
           NEW w \in [Stages -> States], NEW h \in [Stages -> States],
           state_notify(w, h), listeners \subseteq Clients
    PROVE  /\ seen' \in [Clients -> [desired : [Stages -> States], actual : [Stages -> States]]]
           /\ \A c \in listeners : seen'[c] = Snapshot(w, h)
BY DEF state_notify, Snapshot

\* A request that was applied: the types, the listeners and the idle stages.
LEMMA ApplyTarget ==
    ASSUME IInv, pc = "http", NEW t, t.stage \in Stages \ Idle, t.state \in States,
           state_apply_target(t), UNCHANGED <<single, actual, listeners>>
    PROVE  /\ desired' \in [Stages -> States]
           /\ seen' \in [Clients -> [desired : [Stages -> States], actual : [Stages -> States]]]
           /\ pc' \in {"http", "reconcile"}
           /\ \A s \in Idle : desired'[s] = "stopped"
           /\ \A c \in listeners' : seen'[c] = Snapshot(desired', actual')
<1> USE DEF IInv, Types, ListenersCurrent, PipelineInv
<1>0. Idle \subseteq Stages
  BY DEF Idle, Stages
<1>1. CASE UNCHANGED <<desired, seen>>
  BY <1>1 DEF state_apply_target
<1>2. CASE desired' = [desired EXCEPT ![t.stage] = t.state] /\ state_notify(desired', actual)
  <2>1. desired' \in [Stages -> States]
    BY <1>2
  <2>2. /\ seen' \in [Clients -> [desired : [Stages -> States], actual : [Stages -> States]]]
        /\ \A c \in listeners : seen'[c] = Snapshot(desired', actual)
    BY <1>2, <2>1, Notified, Zenon
  <2>3. \A s \in Idle : desired'[s] = "stopped"
    BY <1>0, <1>2
  <2>4. QED
    BY <2>1, <2>2, <2>3 DEF state_apply_target
<1>3. QED
  BY <1>1, <1>2 DEF state_apply_target

\* Requests and listeners.
LEMMA ClientStep ==
    ASSUME IInv, Client
    PROVE  IInv'
<1> USE DEF IInv, Types, ListenersCurrent, PipelineInv
<1>0. Idle \subseteq Stages
  BY DEF Idle, Stages
<1>1. ASSUME NEW a \in {"start", "stop"}, cc_state_handle_control(a)
      PROVE  IInv'
  <2>1. /\ CommandRoute(a)[1].stage \in Stages \ Idle
        /\ CommandRoute(a)[1].state \in States
    BY Routes, Zenon
  <2>2. /\ pc = "http" /\ at' = 1 /\ state_apply_target(CommandRoute(a)[1])
        /\ UNCHANGED <<single, paths, actual, inflight, listeners, tasks, queue>>
    BY <1>1 DEF cc_state_handle_control, Request, daemon
  <2>3. /\ desired' \in [Stages -> States]
        /\ seen' \in [Clients -> [desired : [Stages -> States], actual : [Stages -> States]]]
        /\ pc' \in {"http", "reconcile"}
        /\ \A s \in Idle : desired'[s] = "stopped"
        /\ \A c \in listeners' : seen'[c] = Snapshot(desired', actual')
    BY <2>1, <2>2, ApplyTarget
  <2>4. QED
    BY <2>2, <2>3 DEF Labels, Idle, Snapshot
<1>2. ASSUME NEW p \in {"ingress0", "normalized"}, NEW st \in {"unknown", "ready", "notReady"},
             cc_state_handle_path_event(p, st)
      PROVE  IInv'
  <2>1. /\ pc = "http" /\ at' = 1 /\ paths' = [paths EXCEPT ![p] = st]
        /\ UNCHANGED <<single, actual, inflight, listeners, tasks, queue>>
    BY <1>2 DEF cc_state_handle_path_event, Request, daemon
  <2>2. paths' \in [{"ingress0", "normalized"} -> {"unknown", "ready", "notReady"}]
    BY <2>1
  <2>3. CASE PathRoute(p, st) = NoRoute
    <3>1. UNCHANGED <<desired, seen>> /\ pc' = "reconcile"
      BY <1>2, <2>3 DEF cc_state_handle_path_event
    <3>2. QED
      BY <2>1, <2>2, <3>1 DEF Labels, Idle, Snapshot
  <2>4. CASE PathRoute(p, st) # NoRoute
    <3>1. /\ PathRoute(p, st)[1].stage \in Stages \ Idle
          /\ PathRoute(p, st)[1].state \in States
      BY <2>4, Routes, Zenon
    <3>2. state_apply_target(PathRoute(p, st)[1])
      BY <1>2, <2>4 DEF cc_state_handle_path_event
    <3>3. /\ desired' \in [Stages -> States]
          /\ seen' \in [Clients -> [desired : [Stages -> States], actual : [Stages -> States]]]
          /\ pc' \in {"http", "reconcile"}
          /\ \A s \in Idle : desired'[s] = "stopped"
          /\ \A c \in listeners' : seen'[c] = Snapshot(desired', actual')
      BY <2>1, <3>1, <3>2, ApplyTarget
    <3>4. QED
      BY <2>1, <2>2, <3>3 DEF Labels, Idle, Snapshot
  <2>5. QED
    BY <2>3, <2>4
<1>3. ASSUME NEW c \in Clients, cc_state_add_listener(c)
      PROVE  IInv'
  <2>1. seen' \in [Clients -> [desired : [Stages -> States], actual : [Stages -> States]]]
    BY <1>3 DEF cc_state_add_listener, Snapshot
  <2>2. \A x \in listeners' : seen'[x] = Snapshot(desired', actual')
    BY <1>3 DEF cc_state_add_listener, Snapshot
  <2>3. QED
    BY <1>3, <2>1, <2>2 DEF cc_state_add_listener, daemon, Idle, Snapshot
<1>4. ASSUME NEW c \in Clients, cc_state_remove_listener(c)
      PROVE  IInv'
  BY <1>4 DEF cc_state_remove_listener, daemon, Idle, Snapshot
<1>5. QED
  BY <1>1, <1>2, <1>3, <1>4 DEF Client

\* A stage event, wherever the connection is read.
LEMMA DeliverStep ==
    ASSUME IInv, Deliver
    PROVE  IInv'
<1> USE DEF IInv, Types, ListenersCurrent, PipelineInv
<1>1. /\ queue # <<>> /\ queue' = Tail(queue)
      /\ actual' = [actual EXCEPT ![Head(queue).stage] = Head(queue).state]
      /\ inflight' = [inflight EXCEPT ![Head(queue).stage] = "no"]
      /\ IF actual' = actual THEN UNCHANGED seen ELSE state_notify(desired, actual')
      /\ pc' = IF pc = "poll" THEN "polled" ELSE pc
      /\ UNCHANGED <<single, paths, desired, listeners, at, tasks>>
  BY DEF Deliver, cc_state_handle_stage_event
<1>2. Head(queue) \in Events /\ queue' \in Seq(Events)
  BY <1>1
<1>3. Head(queue).stage \in Stages /\ Head(queue).state \in States
  BY <1>2 DEF Events
<1>4. actual' \in [Stages -> States] /\ inflight' \in [Stages -> Marks]
  BY <1>1, <1>3 DEF Marks
<1>5. /\ seen' \in [Clients -> [desired : [Stages -> States], actual : [Stages -> States]]]
      /\ pc' \notin {"teardown", "tdstop", "tdret"} =>
            \A c \in listeners : seen'[c] = Snapshot(desired, actual')
  <2>1. CASE actual' = actual
    BY <1>1, <2>1, Zenon
  <2>2. CASE actual' # actual
    BY <1>1, <1>4, <2>2, Notified, ZenonT(40)
  <2>3. QED
    BY <2>1, <2>2
<1>6. QED
  BY <1>1, <1>2, <1>4, <1>5, Zenon DEF Labels, Idle, Snapshot, Current

\* What the daemon sends keeps its type.
LEMMA EmitType ==
    ASSUME Types, NEW s \in Stages, NEW st \in States
    PROVE  Emit(s, st) \in Seq(Events)
<1>1. [stage |-> s, state |-> st] \in Events
  BY DEF Events
<1>2. queue \in Seq(Events)
  BY DEF Types
<1>3. Append(queue, [stage |-> s, state |-> st]) \in Seq(Events)
  BY <1>1, <1>2
<1>4. QED
  BY <1>2, <1>3 DEF Emit

\* The daemon, the signal and the clock.
LEMMA EnvironmentStep ==
    ASSUME IInv, Environment \/ Expiry
    PROVE  IInv'
<1> USE DEF IInv, ListenersCurrent, PipelineInv
<1>1. ASSUME NEW s \in Stages, Exits(s)
      PROVE  IInv'
  <2>1. queue' \in Seq(Events)
    BY <1>1, EmitType DEF Exits, States
  <2>2. tasks' \in [Stages -> {"none", "running"}]
        /\ \A x \in Stages : tasks[x] = "none" => tasks'[x] = "none"
    BY <1>1 DEF Exits, Types
  <2>3. Idle \subseteq Stages
    BY DEF Idle, Stages
  <2>4. QED
    BY <1>1, <2>1, <2>2, <2>3 DEF Exits, status, Types, Idle, Snapshot, Current
<1>2. ASSUME NEW how \in Losses, StreamEnds(how)
      PROVE  IInv'
  BY <1>2 DEF StreamEnds, status, Types, Idle, Snapshot, Current
<1>3. ASSUME main_sig_handler
      PROVE  IInv'
  BY <1>3 DEF main_sig_handler, status, daemon, Types, Idle, Snapshot, Current
<1>4. ASSUME NEW s \in Stages, InflightExpires(s)
      PROVE  IInv'
  BY <1>4 DEF InflightExpires, daemon, Types, Marks, Idle, Snapshot, Current
<1>5. QED
  BY <1>1, <1>2, <1>3, <1>4 DEF Environment, Expiry

\* The steps of the thread that only move it.
LEMMA GotoStep ==
    ASSUME IInv, NEW from, NEW to \in Labels \ {"start"}, Goto(from, to),
           from \in {"teardown", "tdstop", "tdret"} => to \in {"teardown", "tdstop", "tdret"}
    PROVE  IInv'
BY DEF IInv, Types, ListenersCurrent, PipelineInv, Goto, status, daemon, Idle, Snapshot, Current

\* The stop of a task, in an operation or in the teardown.
LEMMA StopStep ==
    ASSUME IInv, NEW next \in Labels, ctr_stop(next),
           next = "start" => desired[Current] = "running",
           pc \in {"teardown", "tdstop", "tdret"} => next \in {"teardown", "tdstop", "tdret"}
    PROVE  IInv'
<1> USE DEF IInv, Types, ListenersCurrent, PipelineInv
<1>1. Current \in Stages
  BY CurrentStage
<1>2. Emit(Current, "stopped") \in Seq(Events)
  BY <1>1, EmitType DEF States
<1>3. queue' \in Seq(Events)
  BY <1>2 DEF ctr_stop
<1>4. tasks' \in [Stages -> {"none", "running"}]
      /\ \A x \in Stages : tasks[x] = "none" => tasks'[x] = "none"
  BY <1>1 DEF ctr_stop
<1>5. Idle \subseteq Stages
  BY DEF Idle, Stages
<1>6. QED
  BY <1>3, <1>4, <1>5 DEF ctr_stop, status, Idle, Snapshot, Current

\* The start of a task: its stage is desired, so it is not an idle one.
LEMMA StartStep ==
    ASSUME IInv, OpStart
    PROVE  IInv'
<1> USE DEF IInv, Types, ListenersCurrent, PipelineInv
<1>1. Current \in Stages /\ desired[Current] = "running"
  BY CurrentStage DEF OpStart
<1>2. Emit(Current, "running") \in Seq(Events)
  BY <1>1, EmitType DEF States
<1>3. Current \notin Idle /\ Idle \subseteq Stages
  BY <1>1 DEF Idle, Stages
<1>4. tasks' \in [Stages -> {"none", "running"}]
      /\ \A x \in Idle : tasks'[x] = "none"
  BY <1>1, <1>3 DEF OpStart
<1>5. QED
  BY <1>2, <1>3, <1>4 DEF OpStart, status, Labels, Idle, Snapshot, Current

\* The result of an operation.
LEMMA FoldStep ==
    ASSUME IInv, NEW st \in States, Fold(st), pc \in {"op", "start", "ret"},
           inflight' \in [Stages -> Marks],
           UNCHANGED <<single, paths, desired, listeners, tasks, queue>>
    PROVE  IInv'
<1> USE DEF IInv, Types, ListenersCurrent, PipelineInv
<1>1. Current \in Stages
  BY CurrentStage
<1>2. actual' \in [Stages -> States]
  BY <1>1 DEF Fold
<1>3. /\ seen' \in [Clients -> [desired : [Stages -> States], actual : [Stages -> States]]]
      /\ \A c \in listeners : seen'[c] = Snapshot(desired, actual')
  <2>1. CASE actual' = actual
    BY <2>1 DEF Fold
  <2>2. CASE actual' # actual
    BY <1>2, <2>2, Notified, Zenon DEF Fold
  <2>3. QED
    BY <2>1, <2>2
<1>4. at' \in 1..4 /\ pc' \in {"reconcile", "http"}
  BY NextStageLabels DEF Fold
<1>5. QED
  BY <1>2, <1>3, <1>4 DEF Labels, Idle, Snapshot

\* The steps of the thread, one by one.
LEMMA ThreadStep ==
    ASSUME IInv, Thread
    PROVE  IInv'
<1> USE DEF IInv
<1>0. Types /\ Current \in Stages /\ at \in 1..4 /\ Len(InOrder) = 4
  BY CurrentStage DEF Types
<1>1. ASSUME ReconcileSkips PROVE IInv'
  <2>1. at' \in 1..4 /\ pc' \in {"reconcile", "http"}
    BY <1>0, <1>1, NextStageLabels DEF ReconcileSkips
  <2>2. inflight' \in [Stages -> Marks]
    BY <1>0, <1>1 DEF ReconcileSkips, Types, Marks
  <2>3. QED
    BY <1>1, <2>1, <2>2 DEF ReconcileSkips, Types, ListenersCurrent, PipelineInv, daemon, Labels, Idle, Snapshot
<1>2. ASSUME ReconcileApplies PROVE IInv'
  <2>1. inflight' \in [Stages -> Marks]
    BY <1>0, <1>2 DEF ReconcileApplies, Types, Marks
  <2>2. QED
    BY <1>2, <2>1 DEF ReconcileApplies, Types, ListenersCurrent, PipelineInv, daemon, Labels, Idle, Snapshot
<1>3. ASSUME OpStop PROVE IInv'
  <2>1. CASE desired[Current] = "running"
    BY <1>3, <2>1, StopStep DEF OpStop, Labels
  <2>2. CASE desired[Current] # "running"
    BY <1>3, <2>2, StopStep DEF OpStop, Labels
  <2>3. QED
    BY <2>1, <2>2
<1>4. ASSUME OpReturns PROVE IInv'
  <2>1. desired[Current] \in States /\ inflight' \in [Stages -> Marks]
    BY <1>0, <1>4 DEF OpReturns, Types
  <2>2. QED
    BY <1>4, <2>1, FoldStep DEF OpReturns, daemon
<1>5. ASSUME OpFails PROVE IInv'
  <2>1. inflight' \in [Stages -> Marks]
    BY <1>0, <1>5 DEF OpFails, Types, Marks
  <2>2. QED
    BY <1>5, <2>1, FoldStep DEF OpFails, daemon, States
<1>6. ASSUME LoopTop \/ PollTimeout \/ PollMessage \/ cc_http_service \/ WaitOver \/ WaitTimeout \/ TeardownStops
      PROVE  IInv'
  BY <1>6, GotoStep DEF LoopTop, PollTimeout, PollMessage, cc_http_service, WaitOver, WaitTimeout, TeardownStops, Labels
<1>7. ASSUME PollEnd PROVE IInv'
  BY <1>7 DEF PollEnd, Types, ListenersCurrent, PipelineInv, status, daemon, Labels, Idle, Snapshot
<1>8. ASSUME main_shutdown PROVE IInv'
  BY <1>8 DEF main_shutdown, Types, ListenersCurrent, PipelineInv, daemon, Labels, Idle, Snapshot
<1>9. ASSUME TeardownSkips PROVE IInv'
  <2>1. at' \in 1..4 /\ pc' \in {"teardown", "done"} /\ (pc' = "done" => at = 4)
    BY <1>0, <1>9, NextStageLabels DEF TeardownSkips, TeardownNext
  <2>2. /\ seen' \in [Clients -> [desired : [Stages -> States], actual : [Stages -> States]]]
        /\ at = 4 => \A c \in listeners : seen'[c] = Snapshot(desired, actual)
    BY <1>0, <1>9, Notified, Zenon DEF TeardownSkips, TeardownNext, Types
  <2>3. QED
    BY <1>9, <2>1, <2>2 DEF TeardownSkips, Types, ListenersCurrent, PipelineInv, daemon, Labels, Idle, Snapshot
<1>10. ASSUME TeardownOp PROVE IInv'
  BY <1>10, StopStep DEF TeardownOp, Labels
<1>11. ASSUME TeardownForces PROVE IInv'
  <2>1. at' \in 1..4 /\ pc' \in {"teardown", "done"} /\ (pc' = "done" => at = 4)
    BY <1>0, <1>11, NextStageLabels DEF TeardownForces, TeardownNext
  <2>2. /\ desired' \in [Stages -> States] /\ actual' \in [Stages -> States]
        /\ inflight' \in [Stages -> Marks]
        /\ \A x \in Stages : desired[x] = "stopped" => desired'[x] = "stopped"
    BY <1>0, <1>11 DEF TeardownForces, Types, States, Marks
  <2>3. /\ seen' \in [Clients -> [desired : [Stages -> States], actual : [Stages -> States]]]
        /\ at = 4 => \A c \in listeners : seen'[c] = Snapshot(desired', actual')
    <3>1. CASE at = 4
      <4>1. state_notify(desired', actual')
        BY <1>0, <1>11, <3>1 DEF TeardownForces, TeardownNext
      <4>2. QED
        BY <1>0, <2>2, <4>1 DEF Types, state_notify, Snapshot
    <3>2. CASE at # 4
      BY <1>0, <1>11, <3>2 DEF TeardownForces, TeardownNext, Types
    <3>3. QED
      BY <3>1, <3>2
  <2>4. Idle \subseteq Stages
    BY DEF Idle, Stages
  <2>5. QED
    BY <1>11, <2>1, <2>2, <2>3, <2>4, ZenonT(40)
       DEF TeardownForces, Types, ListenersCurrent, PipelineInv, daemon, Labels, Idle, Snapshot
<1>12. QED
  BY <1>1, <1>2, <1>3, <1>4, <1>5, <1>6, <1>7, <1>8, <1>9, <1>10, <1>11, StartStep DEF Thread

\* The invariant holds of every behaviour.
LEMMA Invariant == Spec => []IInv
<1>1. Init => IInv
  <2>1. ASSUME Init
        PROVE  Types /\ PipelineInv
    BY <2>1 DEF Init, Types, PipelineInv, States, Marks, Labels, Stages, Idle, Snapshot, Events
  <2>2. QED
    BY <2>1, Zenon DEF IInv, ListenersCurrent, Init
<1>2. IInv /\ [Next]_vars => IInv'
  <2>1. ASSUME IInv, Next
        PROVE  IInv'
    BY <2>1, ThreadStep, ClientStep, EnvironmentStep, DeliverStep DEF Next
  <2>2. ASSUME IInv, UNCHANGED vars
        PROVE  IInv'
    BY <2>2 DEF vars, status, daemon, IInv, Types, ListenersCurrent, PipelineInv, Idle, Snapshot, Current
  <2>3. QED
    BY <2>1, <2>2
<1>3. QED
  BY <1>1, <1>2, PTL DEF Spec

(* Outside the teardown every listener has been told of the desired and      *)
(* actual states as they are, whatever requests, events, operations and      *)
(* failures came before (state_notify and its callers in cc_state.S).        *)
THEOREM ListenersNeverBehind == Spec => []ListenersCurrent
<1>1. IInv => ListenersCurrent
  BY DEF IInv
<1>2. QED
  BY <1>1, Invariant, PTL

(* Only the pipeline of the configured mode ever has tasks (the route tables *)
(* of cc_state_new).                                                         *)
THEOREM PipelinesExclude == Spec => []OnePipeline
<1>1. IInv => OnePipeline
  BY DEF IInv, PipelineInv, Idle, OnePipeline
<1>2. QED
  BY <1>1, Invariant, PTL

---------------------------------------------------------------------------
\* No operation has failed, no task has exited by itself and the stream of
\* events has not ended.
Clean == stream = "open" /\ exits = 0 /\ faults = 0

Runs(x) == x = "running"

\* What the status will say of stage s once every event is applied is what its
\* task does: the last event for s on its way says it, or without one the
\* status already does.
Truthful(s) ==
    /\ \A k \in DOMAIN queue :
          /\ queue[k].stage = s
          /\ \A j \in DOMAIN queue : queue[j].stage = s => j <= k
          => (Runs(queue[k].state) <=> Runs(tasks[s]))
    /\ (\A k \in DOMAIN queue : queue[k].stage # s) => (Runs(actual[s]) <=> Runs(tasks[s]))

\* The result that an operation is about to fold into the status is true.
TruthInv ==
    /\ exits \in Nat /\ faults \in Nat
    /\ Clean =>
         /\ \A s \in Stages : Truthful(s)
         /\ pc = "ret" => (Runs(desired[Current]) <=> Runs(tasks[Current]))
         /\ pc = "tdret" => ~Runs(tasks[Current])

\* A task changes and its event is sent.
LEMMA EmittedTrue ==
    ASSUME queue \in Seq(Events), NEW c \in Stages, NEW st \in States, NEW v,
           Runs(st) <=> Runs(v), tasks \in [Stages -> {"none", "running"}],
           tasks' = [tasks EXCEPT ![c] = v], actual' = actual,
           queue' = Append(queue, [stage |-> c, state |-> st]),
           NEW s \in Stages, Truthful(s)
    PROVE  Truthful(s)'
<1>1. PICK e \in Events : e = [stage |-> c, state |-> st]
  BY Zenon DEF Events
<1>2. PICK n \in Nat : n = Len(queue) /\ DOMAIN queue = 1 .. n
  OBVIOUS
<1>3. /\ DOMAIN queue' = 1 .. n + 1 /\ queue'[n + 1] = e
      /\ \A k \in 1 .. n : queue'[k] = queue[k]
  BY <1>1, <1>2
<1>4. e.stage = c /\ e.state = st
  BY <1>1
<1>5. CASE s = c
  <2>1. tasks'[s] = v
    BY <1>5, Zenon
  <2>2. n + 1 \in 1 .. n + 1 /\ queue'[n + 1].stage = s
    BY <1>3, <1>4, <1>5
  <2>3. \A k \in 1 .. n + 1 : (\A j \in 1 .. n + 1 : queue'[j].stage = s => j <= k) => k = n + 1
    <3>1. SUFFICES ASSUME NEW k \in 1 .. n + 1, \A j \in 1 .. n + 1 : queue'[j].stage = s => j <= k
                   PROVE  k = n + 1
      BY Zenon
    <3>2. n + 1 <= k
      BY <2>2, <3>1, Zenon
    <3>3. QED
      BY <3>2
  <2>4. QED
    BY <1>3, <1>4, <2>1, <2>2, <2>3, Zenon DEF Truthful
<1>6. CASE s # c
  <2>1. tasks'[s] = tasks[s]
    BY <1>6, Zenon
  <2>2. \A k \in DOMAIN queue' : queue'[k].stage = s => k \in DOMAIN queue /\ queue'[k] = queue[k]
    BY <1>2, <1>3, <1>4, <1>6
  <2>3. \A k \in DOMAIN queue : k \in DOMAIN queue' /\ queue'[k] = queue[k]
    BY <1>2, <1>3
  <2>4. QED
    BY <2>1, <2>2, <2>3, Zenon DEF Truthful
<1>7. QED
  BY <1>5, <1>6, Zenon

\* The next event is applied to the status.
LEMMA DeliveredTrue ==
    ASSUME queue \in Seq(Events), queue # <<>>, actual \in [Stages -> States],
           queue' = Tail(queue), tasks' = tasks,
           actual' = [actual EXCEPT ![Head(queue).stage] = Head(queue).state],
           NEW s \in Stages, Truthful(s)
    PROVE  Truthful(s)'
<1>1. PICK n \in Nat : n + 1 = Len(queue) /\ DOMAIN queue = 1 .. n + 1
  <2>1. Len(queue) \in Nat /\ Len(queue) # 0 /\ DOMAIN queue = 1 .. Len(queue)
    OBVIOUS
  <2>2. PICK l \in Nat : l = Len(queue) /\ l # 0 /\ DOMAIN queue = 1 .. l
    BY <2>1, Zenon
  <2>3. PICK n \in Nat : n + 1 = l
    <3>1. l - 1 \in Nat /\ (l - 1) + 1 = l
      BY <2>2
    <3>2. QED
      BY <3>1, Zenon
  <2>4. QED
    BY <2>2, <2>3, Zenon
<1>2. Head(queue) = queue[1] /\ DOMAIN queue' = 1 .. n /\ \A k \in 1 .. n : queue'[k] = queue[k + 1]
  BY <1>1
<1>3. CASE \E k \in 1 .. n : queue'[k].stage = s
  <2>1. ASSUME NEW k \in 1 .. n, queue'[k].stage = s,
               \A j \in 1 .. n : queue'[j].stage = s => j <= k
        PROVE  Runs(queue'[k].state) <=> Runs(tasks[s])
    <3>1. k + 1 \in DOMAIN queue /\ queue[k + 1] = queue'[k]
      BY <1>1, <1>2
    <3>2. \A j \in DOMAIN queue : queue[j].stage = s => j <= k + 1
      <4>1. SUFFICES ASSUME NEW j \in 1 .. n + 1, queue[j].stage = s, j # 1 PROVE j <= k + 1
        BY <1>1
      <4>2. j - 1 \in 1 .. n /\ (j - 1) + 1 = j
        BY <4>1
      <4>3. j - 1 <= k
        BY <1>2, <2>1, <4>1, <4>2, Zenon
      <4>4. QED
        BY <4>3
    <3>3. QED
      BY <2>1, <3>1, <3>2, Zenon DEF Truthful
  <2>2. QED
    BY <1>2, <1>3, <2>1, Zenon DEF Truthful
<1>4. CASE \A k \in 1 .. n : queue'[k].stage # s
  <2>1. \A j \in DOMAIN queue : queue[j].stage = s => j = 1
    <3>1. SUFFICES ASSUME NEW j \in 1 .. n + 1, queue[j].stage = s, j # 1 PROVE FALSE
      BY <1>1
    <3>2. j - 1 \in 1 .. n /\ (j - 1) + 1 = j
      BY <3>1
    <3>3. QED
      BY <1>2, <1>4, <3>1, <3>2, SMTT(30)
  <2>2. CASE queue[1].stage = s
    <3>1. actual'[s] = queue[1].state
      BY <1>2, <2>2, Zenon
    <3>2. 1 \in DOMAIN queue /\ \A j \in DOMAIN queue : queue[j].stage = s => j <= 1
      BY <1>1, <2>1
    <3>3. Runs(queue[1].state) <=> Runs(tasks[s])
      BY <2>2, <3>2, Zenon DEF Truthful
    <3>4. QED
      BY <1>2, <1>4, <3>1, <3>3, Zenon DEF Truthful
  <2>3. CASE queue[1].stage # s
    <3>1. \A j \in DOMAIN queue : queue[j].stage # s
      BY <2>1, <2>3, Zenon
    <3>2. actual'[s] = actual[s]
      BY <1>2, <2>3, Zenon
    <3>3. QED
      BY <1>2, <1>4, <3>1, <3>2, Zenon DEF Truthful
  <2>4. QED
    BY <2>2, <2>3, Zenon
<1>5. QED
  BY <1>3, <1>4, Zenon

\* The result of an operation is folded into the status, or nothing changes.
LEMMA FoldedTrue ==
    ASSUME UNCHANGED queue, NEW s \in Stages, Truthful(s), Runs(tasks'[s]) <=> Runs(tasks[s]),
           actual'[s] # actual[s] => (Runs(actual'[s]) <=> Runs(tasks[s]))
    PROVE  Truthful(s)'
BY Zenon DEF Truthful

\* Nothing that the truth of the status depends on changes.
LEMMA QuietTruth ==
    ASSUME TruthInv, UNCHANGED <<desired, actual, tasks, queue, stream, exits, faults, at>>,
           pc' \in {"ret", "tdret"} => pc' = pc
    PROVE  TruthInv'
BY Zenon DEF TruthInv, Truthful, Clean, Current

\* Elsewhere in the thread only the tasks, their events and the status matter.
LEMMA ElsewhereTrue ==
    ASSUME TruthInv, UNCHANGED <<tasks, queue, stream, actual, exits, faults>>,
           pc' \notin {"ret", "tdret"}
    PROVE  TruthInv'
BY Zenon DEF TruthInv, Truthful, Clean

\* A task is stopped, in an operation or in the teardown.
LEMMA StopTrue ==
    ASSUME IInv, TruthInv, NEW next, ctr_stop(next),
           next = "ret" => desired[Current] = "stopped"
    PROVE  TruthInv'
<1>0. Current \in Stages /\ Types
  BY CurrentStage, Zenon DEF IInv, Types
<1>1. /\ tasks' = [tasks EXCEPT ![Current] = "none"] /\ pc' = next
      /\ queue' = IF tasks[Current] = "running" THEN Emit(Current, "stopped") ELSE queue
      /\ desired' = desired /\ actual' = actual /\ at' = at
      /\ stream' = stream /\ exits' = exits /\ faults' = faults
  BY DEF ctr_stop, status, bounds
<1>2. Current' = Current /\ tasks'[Current] = "none"
  BY <1>0, <1>1, Zenon DEF Current, Types
<1>3. ASSUME Clean, NEW s \in Stages PROVE Truthful(s)'
  <2>1. Truthful(s)
    BY <1>3, Zenon DEF TruthInv
  <2>2. CASE tasks[Current] = "running"
    <3>1. queue' = Append(queue, [stage |-> Current, state |-> "stopped"])
      BY <1>1, <1>3, <2>2, Zenon DEF Emit, Clean
    <3>2. "stopped" \in States /\ (Runs("stopped") <=> Runs("none"))
      BY DEF States, Runs
    <3>3. QED
      BY <1>0, <1>1, <2>1, <3>1, <3>2, EmittedTrue, Zenon DEF Types
  <2>3. CASE tasks[Current] # "running"
    <3>1. tasks[Current] = "none"
      BY <1>0, <2>3, Zenon DEF Types
    <3>2. tasks'[s] = tasks[s] /\ queue' = queue
      BY <1>0, <1>1, <2>3, <3>1, Zenon DEF Types
    <3>3. QED
      BY <1>1, <2>1, <3>2, FoldedTrue, Zenon
  <2>4. QED
    BY <2>2, <2>3, Zenon
<1>4. ~Runs("none") /\ ~Runs("stopped")
  BY DEF Runs
<1>5. QED
  BY <1>1, <1>2, <1>3, <1>4, Zenon DEF TruthInv, Clean

\* A task is started: its stage is desired.
LEMMA StartTrue ==
    ASSUME IInv, TruthInv, OpStart
    PROVE  TruthInv'
<1>0. Current \in Stages /\ Types /\ desired[Current] = "running"
  BY CurrentStage, Zenon DEF IInv, Types, PipelineInv, OpStart
<1>1. /\ tasks' = [tasks EXCEPT ![Current] = "running"] /\ pc' = "ret"
      /\ queue' = Emit(Current, "running")
      /\ desired' = desired /\ actual' = actual /\ at' = at
      /\ stream' = stream /\ exits' = exits /\ faults' = faults
  BY DEF OpStart, status, bounds
<1>2. Current' = Current /\ tasks'[Current] = "running"
  BY <1>0, <1>1, Zenon DEF Current, Types
<1>3. ASSUME Clean, NEW s \in Stages PROVE Truthful(s)'
  <2>1. Truthful(s)
    BY <1>3, Zenon DEF TruthInv
  <2>2. queue' = Append(queue, [stage |-> Current, state |-> "running"])
    BY <1>1, <1>3, Zenon DEF Emit, Clean
  <2>3. "running" \in States
    BY DEF States
  <2>4. QED
    BY <1>0, <1>1, <2>1, <2>2, <2>3, EmittedTrue, Zenon DEF Types
<1>4. QED
  BY <1>0, <1>1, <1>2, <1>3, Zenon DEF TruthInv, Clean

\* The result of an operation or of the teardown is taken over.
LEMMA ResultTrue ==
    ASSUME IInv, TruthInv, Clean, NEW st, Runs(st) <=> Runs(tasks[Current]),
           actual' = [actual EXCEPT ![Current] = st],
           UNCHANGED <<tasks, queue, exits, faults>>, pc' \notin {"ret", "tdret"}
    PROVE  TruthInv'
<1>0. Current \in Stages /\ Types
  BY CurrentStage, Zenon DEF IInv, Types
<1>1. tasks' = tasks /\ queue' = queue /\ exits' = exits /\ faults' = faults
  OBVIOUS
<1>2. ASSUME NEW s \in Stages PROVE Truthful(s)'
  <2>1. Truthful(s)
    BY Zenon DEF TruthInv
  <2>2. actual'[s] # actual[s] => (Runs(actual'[s]) <=> Runs(tasks[s]))
    BY <1>0, Zenon DEF Types
  <2>3. QED
    BY <1>1, <2>1, <2>2, FoldedTrue, Zenon
<1>3. QED
  BY <1>1, <1>2, Zenon DEF TruthInv

\* The steps of the thread.
LEMMA ThreadTrue ==
    ASSUME IInv, TruthInv, Thread
    PROVE  TruthInv'
<1>0. Current \in Stages /\ Types /\ at \in 1..4
  BY CurrentStage, Zenon DEF IInv, Types
<1>1. ASSUME ReconcileSkips PROVE TruthInv'
  <2>1. pc' \in {"reconcile", "http"}
    BY <1>0, <1>1, NextStageLabels, Zenon DEF ReconcileSkips
  <2>2. UNCHANGED <<tasks, queue, stream, desired, actual, exits, faults>>
    BY <1>1 DEF ReconcileSkips, daemon, bounds
  <2>3. QED
    BY <2>1, <2>2, ElsewhereTrue
<1>2. ASSUME ReconcileApplies PROVE TruthInv'
  BY <1>2, ElsewhereTrue DEF ReconcileApplies, daemon, bounds
<1>3. ASSUME OpStop PROVE TruthInv'
  <2>1. desired[Current] # "running" => desired[Current] = "stopped"
    BY <1>0, Zenon DEF Types, States
  <2>2. ctr_stop(IF desired[Current] = "running" THEN "start" ELSE "ret")
    BY <1>3, Zenon DEF OpStop
  <2>3. CASE desired[Current] = "running"
    BY <2>2, <2>3, StopTrue
  <2>4. CASE desired[Current] # "running"
    BY <2>1, <2>2, <2>4, StopTrue
  <2>5. QED
    BY <2>3, <2>4, Zenon
<1>4. ASSUME OpReturns PROVE TruthInv'
  <2>1. pc' \in {"reconcile", "http"}
    BY <1>0, <1>4, NextStageLabels, Zenon DEF OpReturns, Fold
  <2>2. UNCHANGED <<tasks, queue, exits, faults>> /\ stream' = stream
    BY <1>4 DEF OpReturns, daemon, bounds
  <2>3. CASE Clean
    <3>1. Runs(desired[Current]) <=> Runs(tasks[Current])
      BY <1>4, <2>3, Zenon DEF TruthInv, OpReturns
    <3>2. actual' = [actual EXCEPT ![Current] = desired[Current]]
      BY <1>4, Zenon DEF OpReturns, Fold
    <3>3. QED
      BY <2>1, <2>2, <2>3, <3>1, <3>2, ResultTrue, Zenon
  <2>4. CASE ~Clean
    BY <2>2, <2>4 DEF TruthInv, Clean
  <2>5. QED
    BY <2>3, <2>4, Zenon
<1>5. ASSUME OpFails PROVE TruthInv'
  <2>1. /\ stream' = stream /\ exits' = exits
        /\ faults' = IF stream = "lost" THEN faults ELSE faults + 1
    BY <1>5 DEF OpFails, daemon
  <2>2. faults' \in Nat /\ ~Clean'
    BY <2>1 DEF TruthInv, Clean
  <2>3. QED
    BY <2>1, <2>2, Zenon DEF TruthInv
<1>6. ASSUME LoopTop \/ PollTimeout \/ PollMessage \/ cc_http_service \/ WaitOver \/ WaitTimeout \/ TeardownStops
      PROVE  TruthInv'
  <2>1. /\ UNCHANGED <<tasks, queue, stream, desired, actual, exits, faults>>
        /\ pc' \notin {"ret", "tdret"}
    BY <1>6 DEF LoopTop, PollTimeout, PollMessage, cc_http_service, WaitOver, WaitTimeout,
                TeardownStops, Goto, status, daemon, bounds
  <2>2. QED
    BY <2>1, ElsewhereTrue
<1>7. ASSUME PollEnd PROVE TruthInv'
  BY <1>7, ElsewhereTrue DEF PollEnd, status, daemon, bounds
<1>8. ASSUME main_shutdown PROVE TruthInv'
  BY <1>8, ElsewhereTrue DEF main_shutdown, daemon, bounds
<1>9. ASSUME TeardownSkips PROVE TruthInv'
  <2>1. pc' \in {"teardown", "done"}
    BY <1>0, <1>9, NextStageLabels, Zenon DEF TeardownSkips, TeardownNext
  <2>2. UNCHANGED <<tasks, queue, stream, desired, actual, exits, faults>>
    BY <1>9 DEF TeardownSkips, daemon, bounds
  <2>3. QED
    BY <2>1, <2>2, ElsewhereTrue
<1>10. ASSUME TeardownOp PROVE TruthInv'
  BY <1>10, StopTrue DEF TeardownOp
<1>11. ASSUME TeardownForces PROVE TruthInv'
  <2>1. pc' \in {"teardown", "done"}
    BY <1>0, <1>11, NextStageLabels, Zenon DEF TeardownForces, TeardownNext
  <2>2. /\ UNCHANGED <<tasks, queue, exits>> /\ stream' = stream
        /\ actual' = [actual EXCEPT ![Current] = "stopped"]
    BY <1>11 DEF TeardownForces, daemon
  <2>3. CASE pc = "tdret" /\ faults' = faults /\ Clean
    <3>1. Runs("stopped") <=> Runs(tasks[Current])
      BY <2>3 DEF TruthInv, Runs
    <3>2. QED
      BY <2>1, <2>2, <2>3, <3>1, ResultTrue, Zenon
  <2>4. CASE faults' = faults /\ ~Clean
    BY <2>2, <2>4 DEF TruthInv, Clean
  <2>5. CASE faults' = faults + 1
    <3>1. faults' \in Nat /\ ~Clean'
      BY <2>5 DEF TruthInv, Clean
    <3>2. QED
      BY <2>2, <3>1 DEF TruthInv
  <2>6. pc = "tdstop" /\ stream = "lost" => ~Clean
    BY DEF Clean
  <2>7. QED
    BY <1>11, <2>3, <2>4, <2>5, <2>6, Zenon DEF TeardownForces
<1>12. QED
  BY <1>1, <1>2, <1>3, <1>4, <1>5, <1>6, <1>7, <1>8, <1>9, <1>10, <1>11, StartTrue, Zenon DEF Thread

\* Every step keeps the status truthful.
LEMMA TruthStep ==
    ASSUME IInv, TruthInv, [Next]_vars
    PROVE  TruthInv'
<1>0. Types
  BY Zenon DEF IInv
<1>1. ASSUME Client PROVE TruthInv'
  <2>1. /\ UNCHANGED <<tasks, queue, stream, actual, exits, faults>>
        /\ pc' \notin {"ret", "tdret"}
    BY <1>1, ZenonT(40) DEF Client, cc_state_handle_control, cc_state_handle_path_event, Request, state_apply_target,
                cc_state_add_listener, cc_state_remove_listener, daemon, bounds
  <2>2. QED
    BY <2>1, ElsewhereTrue, SMTT(30)
<1>2. ASSUME NEW s \in Stages, Exits(s) PROVE TruthInv'
  <2>1. exits' = exits + 1 /\ faults' = faults
    BY <1>2 DEF Exits
  <2>2. exits' \in Nat /\ ~Clean'
    BY <2>1 DEF TruthInv, Clean
  <2>3. QED
    BY <2>1, <2>2, Zenon DEF TruthInv
<1>3. ASSUME NEW how \in Losses, StreamEnds(how) PROVE TruthInv'
  <2>1. stream' # "open" /\ exits' = exits /\ faults' = faults
    BY <1>3, LossesAssumption DEF StreamEnds, bounds
  <2>2. QED
    BY <2>1, Zenon DEF TruthInv, Clean
<1>4. ASSUME main_sig_handler PROVE TruthInv'
  BY <1>4, QuietTruth DEF main_sig_handler, status, daemon, bounds
<1>5. ASSUME NEW s \in Stages, InflightExpires(s) PROVE TruthInv'
  BY <1>5, QuietTruth DEF InflightExpires, daemon, bounds
<1>6. ASSUME Deliver PROVE TruthInv'
  <2>1. /\ queue # <<>> /\ queue' = Tail(queue) /\ tasks' = tasks
        /\ actual' = [actual EXCEPT ![Head(queue).stage] = Head(queue).state]
        /\ desired' = desired /\ at' = at /\ stream' = stream /\ exits' = exits /\ faults' = faults
        /\ pc' \in {"ret", "tdret"} => pc' = pc
    BY <1>6 DEF Deliver, cc_state_handle_stage_event, bounds
  <2>2. \A s \in Stages : Truthful(s) => Truthful(s)'
    BY <1>0, <2>1, DeliveredTrue, Zenon DEF Types
  <2>3. QED
    BY <2>1, <2>2, Zenon DEF TruthInv, Clean, Current
<1>7. ASSUME UNCHANGED vars PROVE TruthInv'
  BY <1>7, QuietTruth DEF vars, status, daemon, bounds
<1>8. QED
  BY <1>1, <1>2, <1>3, <1>4, <1>5, <1>6, <1>7, ThreadTrue, Zenon DEF Next, Environment, Expiry

(* As long as no task has exited by itself and no operation has failed, the  *)
(* status of the controller at rest says of every stage what its task does,  *)
(* however late the events of its stops and restarts arrive and whatever the *)
(* result of an operation was folded over (state_reconcile_one and           *)
(* cc_main_event_cb); the status half of ReportsTrue.                        *)
THEOREM StatusTellsTruth == Spec => []StatusSettles
<1>1. Init => TruthInv
  BY DEF Init, TruthInv, Truthful, Runs
<1>2. TruthInv => StatusSettles
  <2>1. SUFFICES ASSUME TruthInv, Clean, queue = <<>>, NEW s \in Stages
                 PROVE  (actual[s] = "running") <=> (tasks[s] = "running")
    BY DEF StatusSettles, AtRestStatusIsTrue, Clean
  <2>2. DOMAIN queue = {}
    BY <2>1
  <2>3. QED
    BY <2>1, <2>2, Zenon DEF TruthInv, Truthful, Runs
<1>3. QED
  BY <1>1, <1>2, Invariant, TruthStep, PTL DEF Spec

---------------------------------------------------------------------------
\* The operations call by call (CcCtr), the variables that bear the names of
\* this module's own renamed.
CONSTANTS DiffIds, Faulty, MaxChanges
VARIABLES d, op, rc, parent, changes, want, label, failed

CC == INSTANCE CcCtr WITH desired <- want, pc <- label, faults <- failed

ChainOf   == CC!ChainId(DiffIds)
DeleteTail == {"dget", "dsnap", "dctr"}
Building  == {"image", "manifest", "config", "prepare", "create"}
Starting  == {"tget", "tmounts", "tspec", "truntime", "tcreate"}
StopPart  == {"get", "task", "term", "wait", "kill", "del", "dtask"}
CallLabels == StopPart \cup DeleteTail \cup Building \cup Starting \cup {"tstart"}
TaskStates == {"none", "created", "running", "killed", "exited"}

\* What the calls before a label have left behind, against a daemon that nobody
\* else changes: the container goes after its task, a start builds on an empty
\* slate, and its task comes last.
CtrInv ==
    /\ DOMAIN d = {"snap", "ctr", "task"} /\ d.ctr \in BOOLEAN /\ d.task \in TaskStates
    /\ label \in CallLabels \cup {"idle"} /\ op \in {"none", "start", "stop"}
    /\ label # "idle" => op \in {"start", "stop"}
    /\ d.task # "none" => d.ctr
    /\ label \in DeleteTail => d.task = "none"
    /\ label \in Building => op = "start" /\ ~d.ctr
    /\ label = "prepare" => parent = ChainOf
    /\ label \in Starting \cup {"create", "tstart"} => d.snap = <<ChainOf>>
    /\ label \in Starting => op = "start" /\ d.ctr /\ d.task = "none"
    /\ label = "tstart" => op = "start" /\ d.ctr /\ d.task = "created"
    /\ CC!OkMeansDone

WantOK == want \in {"start", "stop"}

\* Where an answer leads.
Moves(n) ==
    /\ label' = (IF n[1] = "ret" THEN "idle" ELSE n[1])
    /\ rc' = (IF n[1] = "ret" THEN n[2] ELSE rc)

Plain == {"OK", "NOT_FOUND", "ALREADY_EXISTS", "FAILED_PRECONDITION", "TIMEOUT", "UNAVAILABLE"}

\* A status is taken as it is, and an answer that cannot be used is an error.
LEMMA Results ==
    ASSUME NEW l \in CallLabels
    PROVE  /\ \A a \in Plain : CC!Result(CC!Method[l], a) = a
           /\ \A a \in {"garbled", "oversized"} :
                CC!Result(CC!Method[l], a) # "OK" => CC!Result(CC!Method[l], a) \in {"ERR_STATE", "ERR_TOOBIG"}
<1>1. PICK m : m = CC!Method[l]
  BY ZenonT(40)
<1>2. m \in {"Containers/Get", "Tasks/Get", "Tasks/Kill", "Tasks/Wait", "Tasks/Delete", "Snapshots/Remove",
             "Containers/Delete", "Images/Get", "Content/Read", "Snapshots/Prepare", "Containers/Create",
             "Snapshots/Mounts", "Tasks/Create", "Tasks/Start"}
  BY <1>1, SMTT(30) DEF CC!Method, CallLabels, StopPart, DeleteTail, Building, Starting
<1>3. \A a \in Plain : CC!Status(a) = a /\ CC!Decoded(a) = a /\ CC!Copied(a) = a
  BY DEF Plain, CC!Status, CC!Decoded, CC!Copied
<1>4. \A a \in {"garbled", "oversized"} :
         /\ CC!Status(a) = "OK" /\ CC!Decoded(a) \in {"OK", "ERR_STATE"}
         /\ CC!Copied(a) \in {"ERR_STATE", "ERR_TOOBIG"}
  BY DEF CC!Status, CC!Decoded, CC!Copied, CC!OK
<1>5. \A a : \/ CC!Result(m, a) = CC!Status(a)
             \/ CC!Result(m, a) = CC!Decoded(a)
             \/ CC!Result(m, a) = CC!Copied(a)
  BY <1>2, ZenonT(40) DEF CC!Result, CC!get_container_info, CC!get_image, CC!ctr_read_content, CC!cc_ctr_prepare_snapshot,
     CC!cc_ctr_mounts, CC!cc_ctr_remove_snapshot, CC!cc_ctr_create_container, CC!containers_delete,
     CC!tasks_create, CC!cc_ctr_start_task, CC!cc_ctr_kill_task, CC!cc_ctr_delete_task, CC!cc_ctr_get_task,
     CC!cc_ctr_wait_task
<1>6. \A a \in Plain : CC!Result(m, a) = a
  BY <1>3, <1>5, Zenon
<1>7. \A a \in {"garbled", "oversized"} : CC!Result(m, a) # "OK" => CC!Result(m, a) \in {"ERR_STATE", "ERR_TOOBIG"}
  BY <1>4, <1>5
<1>8. QED
  BY <1>1, <1>6, <1>7, Zenon

\* A call is answered with its status and moves the operation on.
LEMMA Served ==
    ASSUME CC!Unary, NEW l \in CallLabels, label = l, NEW c \in BOOLEAN, NEW e \in Plain \ {"OK"}, NEW w,
           CC!Serve(l) = CC!If(c, e, w)
    PROVE  /\ op' = op
           /\ c => d' = w /\ Moves(CC!Continue(l, "OK"))
           /\ ~c => d' = d /\ Moves(CC!Continue(l, e))
           /\ parent' = IF l = "config" /\ c THEN ChainOf ELSE parent
<1>1. "OK" \in Plain
  BY DEF Plain
<1>2. /\ c => CC!Serve(l)[1] = "OK" /\ CC!Serve(l)[2] = w
      /\ ~c => CC!Serve(l)[1] = e /\ CC!Serve(l)[2] = d
  BY DEF CC!If, CC!OK
<1>3. PICK a \in Plain : a = CC!Serve(l)[1]
  BY <1>1, <1>2, Zenon
<1>4. CC!Result(CC!Method[l], a) = a
  BY Results, Zenon
<1>5. Moves(CC!Continue(l, a)) /\ op' = op /\ d' = CC!Serve(l)[2]
  BY <1>3, <1>4 DEF CC!Unary, CC!Advance, Moves
<1>6. parent' = IF l = "config" /\ a = "OK" THEN ChainOf ELSE parent
  BY <1>3, <1>4 DEF CC!Unary, CC!Advance, CC!OK, ChainOf
<1>7. QED
  BY <1>2, <1>3, <1>5, <1>6, Zenon

\* A failure that is neither success nor absence ends the operation with it,
\* but for the wait, which kills instead.
LEMMA Failures ==
    ASSUME NEW l \in CallLabels, NEW st, st # "OK", st # "NOT_FOUND"
    PROVE  \/ \E x : x # "OK" /\ CC!Continue(l, st) = <<"ret", x>>
           \/ l = "wait" /\ CC!Continue(l, st) = <<"kill", "OK">>
<1> USE DEF CC!Goto, CC!Ret, CC!Then, CC!OK, CC!NOT_FOUND, CC!PRECOND
<1>1. CASE l \in {"get", "task", "term", "kill", "del"}
  <2>1. CC!ctr_stop(l, st) = <<"ret", st>>
    BY <1>1 DEF CC!ctr_stop
  <2>2. CC!Continue(l, st) = <<"ret", st>>
    BY <1>1, <2>1 DEF CC!Continue, CC!StopLabels, CC!DeleteLabels
  <2>3. QED
    BY <2>2, Zenon
<1>2. CASE l = "wait"
  <2>1. CC!ctr_stop(l, st) = <<"kill", "OK">>
    BY <1>2 DEF CC!ctr_stop
  <2>2. QED
    BY <1>2, <2>1 DEF CC!Continue, CC!StopLabels, CC!DeleteLabels
<1>3. CASE l \in {"dtask", "dget", "dsnap", "dctr"}
  <2>1. CC!cc_ctr_delete_container(l, st) = <<"ret", st>>
    BY <1>3 DEF CC!cc_ctr_delete_container
  <2>2. CC!Continue(l, st) = <<"ret", st>>
    BY <1>3, <2>1 DEF CC!Continue, CC!StopLabels, CC!DeleteLabels
  <2>3. QED
    BY <2>2, Zenon
<1>4. CASE l \in Building \cup Starting \cup {"tstart"}
  <2>1. CC!ctr_start(l, st) = <<"ret", st>>
    BY <1>4 DEF CC!ctr_start, CC!cc_ctr_resolve_chainid, CC!cc_ctr_create_task, Building, Starting
  <2>2. CC!Continue(l, st) = <<"ret", st>>
    BY <1>4, <2>1, SMTT(30) DEF CC!Continue, CC!StopLabels, CC!DeleteLabels, Building, Starting
  <2>3. QED
    BY <2>2, Zenon
<1>5. QED
  BY <1>1, <1>2, <1>3, <1>4 DEF CallLabels, StopPart, DeleteTail

\* What a call does to the daemon, answered or not, keeps a task from being
\* without its container.
LEMMA Effects ==
    ASSUME CtrInv, label # "idle", NEW w, w = CC!Serve(label)[2]
    PROVE  /\ DOMAIN w = {"snap", "ctr", "task"} /\ w.ctr \in BOOLEAN /\ w.task \in TaskStates
           /\ w.task # "none" => w.ctr
<1>0. /\ DOMAIN d = {"snap", "ctr", "task"} /\ d.ctr \in BOOLEAN /\ d.task \in TaskStates
      /\ d.task # "none" => d.ctr
  BY Zenon DEF CtrInv
<1> USE DEF CC!If
<1>1. CASE label \in {"get", "tget", "tspec", "truntime", "dget"}
  <2>1. CC!Method[label] = "Containers/Get"
    BY <1>1 DEF CC!Method
  <2>2. w = d
    BY <2>1, SMTT(30) DEF CC!Serve
  <2>3. QED
    BY <1>0, <2>2, Zenon
<1>2. CASE label \in {"task", "dtask"}
  <2>1. CC!Method[label] = "Tasks/Get"
    BY <1>2 DEF CC!Method
  <2>2. w = d
    BY <2>1, SMTT(30) DEF CC!Serve
  <2>3. QED
    BY <1>0, <2>2, Zenon
<1>3. CASE label \in {"image", "manifest", "config"}
  <2>1. CC!Method[label] \in {"Images/Get", "Content/Read"}
    BY <1>3 DEF CC!Method
  <2>2. w = d
    BY <2>1, SMTT(30) DEF CC!Serve
  <2>3. QED
    BY <1>0, <2>2, Zenon
<1>4. CASE label \in {"wait", "tmounts"}
  <2>1. CC!Method[label] \in {"Tasks/Wait", "Snapshots/Mounts"}
    BY <1>4 DEF CC!Method
  <2>2. w = d
    BY <2>1 DEF CC!Serve
  <2>3. QED
    BY <1>0, <2>2, Zenon
<1>5. CASE label \in {"term", "kill"}
  <2>1. CC!Method[label] = "Tasks/Kill"
    BY <1>5 DEF CC!Method
  <2>2. w = d \/ (w = [d EXCEPT !.task = "killed"] /\ d.task # "none")
    BY <2>1 DEF CC!Serve
  <2>3. QED
    BY <1>0, <2>2, SMTT(30) DEF TaskStates
<1>6. CASE label = "del"
  <2>1. w = d \/ w = [d EXCEPT !.task = "none"]
    BY <1>6 DEF CC!Serve, CC!Method
  <2>2. QED
    BY <1>0, <2>1 DEF TaskStates
<1>7. CASE label \in {"dsnap", "prepare"}
  <2>1. CC!Method[label] \in {"Snapshots/Remove", "Snapshots/Prepare"}
    BY <1>7, SMTT(30) DEF CC!Method
  <2>2. w = d \/ w = [d EXCEPT !.snap = <<>>] \/ w = [d EXCEPT !.snap = <<parent>>]
    BY <2>1, Zenon DEF CC!Serve
  <2>3. QED
    BY <1>0, <2>2, SMTT(30)
<1>8. CASE label = "dctr"
  <2>1. w = d \/ w = [d EXCEPT !.ctr = FALSE]
    BY <1>8, SMTT(30) DEF CC!Serve, CC!Method
  <2>2. d.task = "none"
    BY <1>8 DEF CtrInv, DeleteTail
  <2>3. QED
    BY <1>0, <2>1, <2>2, Zenon
<1>9. CASE label = "create"
  <2>1. w = d \/ w = [d EXCEPT !.ctr = TRUE]
    BY <1>9 DEF CC!Serve, CC!Method
  <2>2. QED
    BY <1>0, <2>1, Zenon
<1>10. CASE label \in {"tcreate", "tstart"}
  <2>1. CC!Method[label] \in {"Tasks/Create", "Tasks/Start"}
    BY <1>10, SMTT(30) DEF CC!Method
  <2>2. w = d \/ w = [d EXCEPT !.task = "created"] \/ w = [d EXCEPT !.task = "running"]
    BY <2>1, Zenon DEF CC!Serve
  <2>3. d.ctr
    BY <1>10 DEF CtrInv, Starting
  <2>4. QED
    BY <1>0, <2>2, <2>3, ZenonT(40) DEF TaskStates
<1>11. label \in CallLabels
  BY Zenon DEF CtrInv
<1>12. QED
  BY <1>1, <1>2, <1>3, <1>4, <1>5, <1>6, <1>7, <1>8, <1>9, <1>10, <1>11, SMTT(30)
     DEF CallLabels, StopPart, DeleteTail, Building, Starting

\* A step into the stop, or out of the operation without success, leaves nothing
\* to show but the types.
LEMMA Landing ==
    ASSUME label' \in StopPart \/ (label' = "idle" /\ rc' # "OK"),
           op' \in {"start", "stop"},
           DOMAIN d' = {"snap", "ctr", "task"}, d'.ctr \in BOOLEAN, d'.task \in TaskStates,
           d'.task # "none" => d'.ctr
    PROVE  CtrInv'
<1>1. CASE label' \in StopPart
  <2>1. label' \notin DeleteTail \cup Building \cup Starting \cup {"create", "tstart", "idle", "prepare"}
    BY <1>1 DEF StopPart, DeleteTail, Building, Starting
  <2>2. QED
    BY <1>1, <2>1, Zenon DEF CtrInv, CallLabels, CC!OkMeansDone
<1>2. CASE label' = "idle" /\ rc' # "OK"
  <2>1. label' \notin DeleteTail \cup Building \cup Starting \cup {"create", "tstart", "prepare"}
    BY <1>2 DEF DeleteTail, Building, Starting
  <2>2. QED
    BY <1>2, <2>1, Zenon DEF CtrInv, CC!OkMeansDone, CC!OK
<1>3. QED
  BY <1>1, <1>2, Zenon

\* A failing call ends the operation without a claim, or leads to the kill.
LEMMA FaultStep ==
    ASSUME CtrInv, CC!Fault
    PROVE  CtrInv'
<1>1. label \in CallLabels /\ op' = op
  BY Zenon DEF CC!Fault, CC!Advance, CtrInv
<1>2. PICK l \in CallLabels : l = label
  BY <1>1, Zenon
<1>3. PICK st : /\ st # "OK" /\ st # "NOT_FOUND" /\ Moves(CC!Continue(l, st))
                /\ d' = d \/ d' = CC!Serve(l)[2]
  <2>1. CASE CC!Advance("UNAVAILABLE") /\ d' = d
    <3>1. CC!Result(CC!Method[l], "UNAVAILABLE") = "UNAVAILABLE"
      BY Results DEF Plain
    <3>2. QED
      BY <1>2, <2>1, <3>1 DEF CC!Advance, Moves
  <2>2. CASE CC!Advance("TIMEOUT") /\ d' = CC!Serve(label)[2]
    <3>1. CC!Result(CC!Method[l], "TIMEOUT") = "TIMEOUT"
      BY Results DEF Plain
    <3>2. QED
      BY <1>2, <2>2, <3>1 DEF CC!Advance, Moves
  <2>3. ASSUME d' = CC!Serve(label)[2], NEW a \in {"garbled", "oversized"},
               CC!Result(CC!Method[label], a) # CC!OK, CC!Advance(a)
        PROVE  \E st : /\ st # "OK" /\ st # "NOT_FOUND" /\ Moves(CC!Continue(l, st))
                       /\ d' = d \/ d' = CC!Serve(l)[2]
    <3>1. PICK st : st = CC!Result(CC!Method[l], a)
      OBVIOUS
    <3>2. st \in {"ERR_STATE", "ERR_TOOBIG"}
      BY <1>2, <2>3, <3>1, Results, Zenon DEF CC!OK
    <3>3. Moves(CC!Continue(l, st))
      BY <1>2, <2>3, <3>1 DEF CC!Advance, Moves
    <3>4. QED
      BY <1>2, <2>3, <3>2, <3>3
  <2>4. QED
    BY <2>1, <2>2, <2>3 DEF CC!Fault
<1>4. \/ label' = "idle" /\ rc' # "OK"
      \/ label' = "kill"
  <2>1. CASE \E x : x # "OK" /\ CC!Continue(l, st) = <<"ret", x>>
    BY <1>3, <2>1 DEF Moves
  <2>2. CASE CC!Continue(l, st) = <<"kill", "OK">>
    BY <1>3, <2>2 DEF Moves
  <2>3. QED
    BY <1>3, <2>1, <2>2, Failures, Zenon
<1>5. /\ DOMAIN d' = {"snap", "ctr", "task"} /\ d'.ctr \in BOOLEAN /\ d'.task \in TaskStates
      /\ d'.task # "none" => d'.ctr
  <2>1. CASE d' = d
    BY <2>1, Zenon DEF CtrInv
  <2>2. CASE d' = CC!Serve(label)[2]
    <3>1. label # "idle"
      BY DEF CC!Fault
    <3>2. PICK w : w = CC!Serve(label)[2]
      BY SMTT(30)
    <3>3. QED
      BY <2>2, <3>1, <3>2, Effects, Zenon
  <2>3. QED
    BY <1>2, <1>3, <2>1, <2>2, Zenon
<1>6. op \in {"start", "stop"} /\ "kill" \in StopPart
  BY DEF CC!Fault, CtrInv, StopPart
<1>7. QED
  BY <1>1, <1>4, <1>5, <1>6, Landing, ZenonT(40)

\* A stop that has succeeded: its operation has, or the start goes on.
LEMMA Stopped ==
    ASSUME CtrInv, label # "idle", Moves(IF op = "start" THEN <<"image", "OK">> ELSE <<"ret", "OK">>),
           op' = op, DOMAIN d' = {"snap", "ctr", "task"}, d'.ctr = FALSE, d'.task = "none"
    PROVE  CtrInv'
<1>1. /\ ~d'.ctr /\ d'.ctr \in BOOLEAN
      /\ op \in {"start", "stop"} /\ "none" \in TaskStates
  BY Zenon DEF CtrInv, TaskStates
<1>2. CASE op = "start"
  <2>1. label' = "image"
    BY <1>2 DEF Moves
  <2>2. /\ label' \in CallLabels \cap Building /\ label' # "idle"
        /\ label' \notin DeleteTail \cup Starting \cup {"create", "tstart", "prepare"}
    BY <2>1 DEF CallLabels, StopPart, DeleteTail, Building, Starting
  <2>3. QED
    BY <1>1, <1>2, <2>2, Zenon DEF CtrInv, CC!OkMeansDone
<1>3. CASE op = "stop"
  <2>1. label' = "idle"
    BY <1>3 DEF Moves
  <2>2. label' \notin DeleteTail \cup Building \cup Starting \cup {"create", "tstart", "prepare"}
    BY <2>1 DEF DeleteTail, Building, Starting
  <2>3. op' # "start"
    BY <1>3
  <2>4. QED
    BY <1>1, <1>3, <2>1, <2>2, <2>3, Zenon DEF CtrInv, CC!OkMeansDone
<1>4. QED
  BY <1>1, <1>2, <1>3, Zenon

\* A step into the deletion of the container, which has no task.
LEMMA TailLanding ==
    ASSUME CtrInv, label' \in DeleteTail, op' = op, op \in {"start", "stop"},
           DOMAIN d' = {"snap", "ctr", "task"}, d'.ctr \in BOOLEAN, d'.task = "none"
    PROVE  CtrInv'
<1>1. label' \notin Building \cup Starting \cup {"create", "tstart", "idle", "prepare"}
  BY DEF DeleteTail, Building, Starting
<1>2. "none" \in TaskStates
  BY DEF TaskStates
<1>3. QED
  BY <1>1, <1>2, Zenon DEF CtrInv, CallLabels, CC!OkMeansDone

\* The calls of the stop up to the check that there is no task.
LEMMA StopCalls ==
    ASSUME CtrInv, CC!Unary, label \in StopPart \ {"get", "dtask"}
    PROVE  CtrInv'
<1> USE DEF CC!Goto, CC!Ret, CC!Then, CC!OK, CC!NOT_FOUND, CC!PRECOND
<1>1. label \in CallLabels /\ op \in {"start", "stop"} /\ op' = op
  BY Zenon DEF CtrInv, CallLabels, StopPart, CC!Unary, CC!Advance
<1>2. PICK l \in CallLabels : l = label
  BY <1>1, Zenon
<1>3. PICK a : a = CC!Serve(l)[1]
  BY SMTT(30)
<1>4. a \in Plain
  BY <1>2, <1>3, SMTT(30) DEF StopPart, CC!Serve, CC!Method, CC!If, Plain
<1>5. Moves(CC!Continue(l, a)) /\ d' = CC!Serve(l)[2]
  <2>1. CC!Result(CC!Method[l], a) = a
    BY <1>4, Results, Zenon
  <2>2. QED
    BY <1>2, <1>3, <2>1 DEF CC!Unary, CC!Advance, Moves
<1>6. \/ label' \in StopPart
      \/ label' = "idle" /\ rc' # "OK"
  <2>1. CC!ctr_stop(l, a)[1] \in StopPart \/ (CC!ctr_stop(l, a)[1] = "ret" /\ CC!ctr_stop(l, a)[2] # "OK")
    BY <1>2, Zenon DEF CC!ctr_stop, StopPart
  <2>2. l \in CC!StopLabels
    BY <1>2 DEF StopPart, CC!StopLabels
  <2>3. CC!ctr_stop(l, a) # <<"ret", "OK">>
    BY <2>1 DEF StopPart
  <2>4. CC!Continue(l, a) = CC!ctr_stop(l, a)
    BY <2>2, <2>3 DEF CC!Continue
  <2>5. QED
    BY <1>5, <2>1, <2>4 DEF Moves, StopPart
<1>7. PICK w : w = CC!Serve(label)[2]
  OBVIOUS
<1>8. label # "idle"
  BY DEF CC!Unary
<1>9. /\ DOMAIN d' = {"snap", "ctr", "task"} /\ d'.ctr \in BOOLEAN /\ d'.task \in TaskStates
      /\ d'.task # "none" => d'.ctr
  BY <1>2, <1>5, <1>7, <1>8, Effects, Zenon
<1>10. QED
  BY <1>1, <1>6, <1>9, Landing, ZenonT(40)

\* The calls that decide that there is no container, or no task.
LEMMA AbsenceCalls ==
    ASSUME CtrInv, CC!Unary, label \in {"get", "dtask", "dget", "dsnap", "dctr"}
    PROVE  CtrInv'
<1> USE DEF CC!Goto, CC!Ret, CC!Then, CC!OK, CC!NOT_FOUND, CC!PRECOND
<1>0. label # "idle" /\ op \in {"start", "stop"} /\ d.ctr \in BOOLEAN /\ "NOT_FOUND" \in Plain \ {"OK"}
      /\ {"get", "dtask", "dget", "dsnap", "dctr"} \subseteq CallLabels
  BY DEF CC!Unary, CtrInv, Plain, CallLabels, StopPart, DeleteTail
<1>1. CASE label = "get"
  <2>1. CC!Serve("get") = CC!If(d.ctr, "NOT_FOUND", d)
    BY DEF CC!Serve, CC!Method
  <2>2. CC!Continue("get", "OK") = <<"task", "OK">>
    BY DEF CC!Continue, CC!StopLabels, CC!DeleteLabels, CC!ctr_stop
  <2>3. CC!Continue("get", "NOT_FOUND") = IF op = "start" THEN <<"image", "OK">> ELSE <<"ret", "OK">>
    BY DEF CC!Continue, CC!StopLabels, CC!DeleteLabels, CC!ctr_stop
  <2>4. /\ op' = op
        /\ d.ctr => d' = d /\ Moves(<<"task", "OK">>)
        /\ ~d.ctr => d' = d /\ Moves(IF op = "start" THEN <<"image", "OK">> ELSE <<"ret", "OK">>)
    BY <1>0, <1>1, <2>1, <2>2, <2>3, Served, Zenon
  <2>5. CASE d.ctr
    <3>1. label' \in StopPart
      BY <2>4, <2>5 DEF Moves, StopPart
    <3>2. QED
      BY <1>0, <2>4, <2>5, <3>1, Landing, Zenon DEF CtrInv
  <2>6. CASE ~d.ctr
    <3>1. DOMAIN d = {"snap", "ctr", "task"} /\ d.task = "none" /\ d.ctr = FALSE
      BY <1>0, <2>6 DEF CtrInv
    <3>2. QED
      BY <1>0, <2>4, <2>6, <3>1, Stopped, Zenon
  <2>7. QED
    BY <2>5, <2>6, Zenon
<1>2. CASE label = "dtask"
  <2>1. CC!Serve("dtask") = CC!If(d.task # "none", "NOT_FOUND", d)
    BY DEF CC!Serve, CC!Method
  <2>2. CC!Continue("dtask", "OK") = <<"ret", "FAILED_PRECONDITION">>
    BY DEF CC!Continue, CC!StopLabels, CC!DeleteLabels, CC!cc_ctr_delete_container
  <2>3. CC!Continue("dtask", "NOT_FOUND") = <<"dget", "OK">>
    BY DEF CC!Continue, CC!StopLabels, CC!DeleteLabels, CC!cc_ctr_delete_container
  <2>4. /\ op' = op
        /\ d.task # "none" => d' = d /\ Moves(<<"ret", "FAILED_PRECONDITION">>)
        /\ ~(d.task # "none") => d' = d /\ Moves(<<"dget", "OK">>)
    BY <1>0, <1>2, <2>1, <2>2, <2>3, Served, Zenon
  <2>5. CASE d.task # "none"
    <3>1. label' = "idle" /\ rc' # "OK"
      BY <2>4, <2>5 DEF Moves
    <3>2. QED
      BY <1>0, <2>4, <2>5, <3>1, Landing, Zenon DEF CtrInv
  <2>6. CASE d.task = "none"
    <3>1. label' \in DeleteTail /\ d' = d
      BY <2>4, <2>6 DEF Moves, DeleteTail
    <3>2. DOMAIN d = {"snap", "ctr", "task"}
      BY Zenon DEF CtrInv
    <3>3. QED
      BY <1>0, <2>4, <2>6, <3>1, <3>2, TailLanding, Zenon
  <2>7. QED
    BY <2>5, <2>6, Zenon
<1>3. CASE label = "dget"
  <2>1. CC!Serve("dget") = CC!If(d.ctr, "NOT_FOUND", d)
    BY DEF CC!Serve, CC!Method
  <2>2. CC!Continue("dget", "OK") = <<"dsnap", "OK">> /\ CC!Continue("dget", "NOT_FOUND") = <<"ret", "NOT_FOUND">>
    BY DEF CC!Continue, CC!StopLabels, CC!DeleteLabels, CC!cc_ctr_delete_container
  <2>3. /\ op' = op /\ d' = d
        /\ Moves(<<"dsnap", "OK">>) \/ Moves(<<"ret", "NOT_FOUND">>)
    BY <1>0, <1>3, <2>1, <2>2, Served, Zenon
  <2>4. label' \in DeleteTail \/ (label' = "idle" /\ rc' # "OK")
    BY <2>3 DEF Moves, DeleteTail
  <2>5. d.task = "none" /\ "none" \in TaskStates /\ DOMAIN d = {"snap", "ctr", "task"}
    BY <1>3 DEF CtrInv, DeleteTail, TaskStates
  <2>6. CASE label' \in DeleteTail
    BY <1>0, <2>3, <2>5, <2>6, TailLanding, Zenon
  <2>7. CASE label' = "idle" /\ rc' # "OK"
    BY <1>0, <2>3, <2>5, <2>7, Landing, Zenon
  <2>8. QED
    BY <2>4, <2>6, <2>7, Zenon
<1>4. CASE label = "dsnap"
  <2>1. CC!Serve("dsnap") = CC!If(d.snap # <<>>, "NOT_FOUND", [d EXCEPT !.snap = <<>>])
    BY DEF CC!Serve, CC!Method
  <2>2. CC!Continue("dsnap", "OK") = <<"dctr", "OK">> /\ CC!Continue("dsnap", "NOT_FOUND") = <<"ret", "NOT_FOUND">>
    BY DEF CC!Continue, CC!StopLabels, CC!DeleteLabels, CC!cc_ctr_delete_container
  <2>3. /\ op' = op /\ d' \in {d, [d EXCEPT !.snap = <<>>]}
        /\ Moves(<<"dctr", "OK">>) \/ Moves(<<"ret", "NOT_FOUND">>)
    BY <1>0, <1>4, <2>1, <2>2, Served, Zenon
  <2>4. label' \in DeleteTail \/ (label' = "idle" /\ rc' # "OK")
    BY <2>3 DEF Moves, DeleteTail
  <2>5. /\ DOMAIN d' = {"snap", "ctr", "task"} /\ d'.ctr \in BOOLEAN /\ d'.task \in TaskStates
        /\ d'.task = "none"
    BY <1>4, <2>3 DEF CtrInv, DeleteTail
  <2>6. CASE label' \in DeleteTail
    BY <1>0, <2>3, <2>5, <2>6, TailLanding, Zenon
  <2>7. CASE label' = "idle" /\ rc' # "OK"
    BY <1>0, <2>3, <2>5, <2>7, Landing, Zenon
  <2>8. QED
    BY <2>4, <2>6, <2>7, Zenon
<1>5. CASE label = "dctr"
  <2>1. CC!Serve("dctr") = CC!If(d.ctr, "NOT_FOUND", [d EXCEPT !.ctr = FALSE])
    BY DEF CC!Serve, CC!Method
  <2>2. CC!Continue("dctr", "NOT_FOUND") = <<"ret", "NOT_FOUND">>
    BY DEF CC!Continue, CC!StopLabels, CC!DeleteLabels, CC!cc_ctr_delete_container
  <2>3. CC!Continue("dctr", "OK") = IF op = "start" THEN <<"image", "OK">> ELSE <<"ret", "OK">>
    BY DEF CC!Continue, CC!StopLabels, CC!DeleteLabels, CC!cc_ctr_delete_container
  <2>4. /\ op' = op
        /\ d.ctr => d' = [d EXCEPT !.ctr = FALSE] /\ Moves(IF op = "start" THEN <<"image", "OK">> ELSE <<"ret", "OK">>)
        /\ ~d.ctr => d' = d /\ Moves(<<"ret", "NOT_FOUND">>)
    BY <1>0, <1>5, <2>1, <2>2, <2>3, Served, Zenon
  <2>5. d.task = "none"
    BY <1>5 DEF CtrInv, DeleteTail
  <2>6. CASE d.ctr
    <3>1. DOMAIN d' = {"snap", "ctr", "task"} /\ d'.ctr = FALSE /\ d'.task = "none"
      BY <2>4, <2>5, <2>6 DEF CtrInv
    <3>2. QED
      BY <1>0, <2>4, <2>6, <3>1, Stopped, Zenon
  <2>7. CASE ~d.ctr
    <3>1. label' = "idle" /\ rc' # "OK"
      BY <2>4, <2>7 DEF Moves
    <3>2. QED
      BY <1>0, <2>4, <2>7, <3>1, Landing, Zenon DEF CtrInv
  <2>8. QED
    BY <2>6, <2>7, Zenon
<1>6. QED
  BY <1>1, <1>2, <1>3, <1>4, <1>5, SMTT(30)

\* A failing call of the start changes nothing.
LEMMA StartFails ==
    ASSUME CtrInv, label # "idle", op' = op, d' = d, NEW e, e # "OK", Moves(<<"ret", e>>)
    PROVE  CtrInv'
<1>1. label' = "idle" /\ rc' # "OK"
  BY DEF Moves
<1>2. QED
  BY <1>1, Landing, Zenon DEF CtrInv

\* A step to a call of the start that finds its container and no task.
LEMMA StartLanding ==
    ASSUME CtrInv, label' \in Starting, op = "start", op' = op, DOMAIN d' = {"snap", "ctr", "task"},
           d'.snap = <<ChainOf>>, d'.ctr = TRUE, d'.task = "none"
    PROVE  CtrInv'
<1>1. label' \in CallLabels /\ label' \notin Building \cup DeleteTail \cup {"create", "tstart", "idle", "prepare"}
  BY DEF CallLabels, DeleteTail, Building, Starting
<1>2. "none" \in TaskStates /\ ChainOf' = ChainOf /\ TRUE \in BOOLEAN
  BY DEF TaskStates, ChainOf, CC!ChainId, CC!Hash
<1>3. QED
  BY <1>1, <1>2, Zenon DEF CtrInv, CC!OkMeansDone

\* The calls of the start before there is a container.
LEMMA BuildCalls ==
    ASSUME CtrInv, CC!Unary, label \in Building
    PROVE  CtrInv'
<1> USE DEF CC!Goto, CC!Ret, CC!Then, CC!OK, CC!EXISTS
<1>0. /\ label # "idle" /\ op = "start" /\ ~d.ctr /\ d.task = "none" /\ d.ctr \in BOOLEAN /\ TRUE \in BOOLEAN
      /\ DOMAIN d = {"snap", "ctr", "task"} /\ "none" \in TaskStates
      /\ "NOT_FOUND" \in Plain \ {"OK"} /\ "ALREADY_EXISTS" \in Plain \ {"OK"} /\ Building \subseteq CallLabels
  BY DEF CC!Unary, CtrInv, Plain, CallLabels, TaskStates
<1>1. CASE label \in {"image", "manifest", "config"}
  <2>1. PICK l \in CallLabels : l = label
    BY <1>0, <1>1, ZenonT(40)
  <2>2. CC!Serve(l) = CC!If(TRUE, "NOT_FOUND", d)
    BY <1>1, <2>1 DEF CC!Serve, CC!Method, CC!If
  <2>3. CC!Continue(l, "OK") = IF l = "image" THEN <<"manifest", "OK">>
                               ELSE IF l = "manifest" THEN <<"config", "OK">> ELSE <<"prepare", "OK">>
    BY <1>1, <2>1 DEF CC!Continue, CC!StopLabels, CC!DeleteLabels, CC!ctr_start, CC!cc_ctr_resolve_chainid
  <2>4. /\ op' = op /\ d' = d /\ Moves(CC!Continue(l, "OK"))
        /\ parent' = IF l = "config" THEN ChainOf ELSE parent
    BY <1>0, <2>1, <2>2, Served, Zenon
  <2>5. label' \in {"manifest", "config", "prepare"} /\ (label' = "prepare" => parent' = ChainOf)
    BY <1>1, <2>1, <2>3, <2>4 DEF Moves
  <2>6. /\ label' \in CallLabels \cap Building /\ label' # "idle"
        /\ label' \notin DeleteTail \cup Starting \cup {"create", "tstart"}
    BY <2>5 DEF CallLabels, StopPart, DeleteTail, Building, Starting
  <2>7. ChainOf' = ChainOf
    BY DEF ChainOf, CC!ChainId, CC!Hash
  <2>8. QED
    BY <1>0, <2>4, <2>5, <2>6, <2>7, Zenon DEF CtrInv, CC!OkMeansDone
<1>2. CASE label = "prepare"
  <2>1. CC!Serve("prepare") = CC!If(d.snap = <<>>, "ALREADY_EXISTS", [d EXCEPT !.snap = <<parent>>])
    BY DEF CC!Serve, CC!Method
  <2>2. /\ CC!Continue("prepare", "OK") = <<"create", "OK">>
        /\ CC!Continue("prepare", "ALREADY_EXISTS") = <<"ret", "ALREADY_EXISTS">>
    BY DEF CC!Continue, CC!StopLabels, CC!DeleteLabels, CC!ctr_start
  <2>3. "prepare" \in CallLabels
    BY DEF CallLabels, Building
  <2>4. \/ op' = op /\ d' = [d EXCEPT !.snap = <<parent>>] /\ Moves(<<"create", "OK">>)
        \/ op' = op /\ d' = d /\ Moves(<<"ret", "ALREADY_EXISTS">>)
    <3>1. PICK w : w = [d EXCEPT !.snap = <<parent>>]
      BY Zenon
    <3>2. PICK c \in BOOLEAN : c = (d.snap = <<>>)
      BY Zenon
    <3>3. CC!Serve("prepare") = CC!If(c, "ALREADY_EXISTS", w)
      BY <2>1, <3>1, <3>2, Zenon
    <3>4. \/ op' = op /\ d' = w /\ Moves(<<"create", "OK">>)
          \/ op' = op /\ d' = d /\ Moves(<<"ret", "ALREADY_EXISTS">>)
      BY <1>0, <1>2, <2>2, <2>3, <3>3, Served, Zenon
    <3>5. QED
      BY <3>1, <3>4, Zenon
  <2>5. CASE op' = op /\ d' = [d EXCEPT !.snap = <<parent>>] /\ Moves(<<"create", "OK">>)
    <3>1. /\ DOMAIN d' = {"snap", "ctr", "task"} /\ d'.snap = <<parent>> /\ d'.ctr = d.ctr /\ d'.task = d.task
          /\ label' = "create"
      BY <1>0, <2>5 DEF Moves
    <3>2. parent = ChainOf
      BY <1>2, Zenon DEF CtrInv
    <3>3. /\ label' \in CallLabels \cap Building /\ label' # "idle" /\ label' # "prepare" /\ label' # "tstart"
          /\ label' \notin DeleteTail \cup Starting
      BY <3>1 DEF CallLabels, StopPart, DeleteTail, Building, Starting
    <3>4. ChainOf' = ChainOf
      BY DEF ChainOf, CC!ChainId, CC!Hash
    <3>5. QED
      BY <1>0, <2>5, <3>1, <3>2, <3>3, <3>4, Zenon DEF CtrInv, CC!OkMeansDone
  <2>6. CASE op' = op /\ d' = d /\ Moves(<<"ret", "ALREADY_EXISTS">>)
    <3>1. "ALREADY_EXISTS" # "OK"
      OBVIOUS
    <3>2. QED
      BY <1>0, <2>6, <3>1, StartFails, Zenon
  <2>7. QED
    BY <2>4, <2>5, <2>6, Zenon
<1>3. CASE label = "create"
  <2>1. CC!Serve("create") = CC!If(TRUE, "ALREADY_EXISTS", [d EXCEPT !.ctr = TRUE])
    BY <1>0, Zenon DEF CC!Serve, CC!Method, CC!If
  <2>2. CC!Continue("create", "OK") = <<"tget", "OK">>
    BY DEF CC!Continue, CC!StopLabels, CC!DeleteLabels, CC!ctr_start
  <2>3. "create" \in CallLabels
    BY DEF CallLabels, Building
  <2>4. op' = op /\ d' = [d EXCEPT !.ctr = TRUE] /\ Moves(<<"tget", "OK">>)
    <3>1. PICK w : w = [d EXCEPT !.ctr = TRUE]
      BY Zenon
    <3>2. PICK c \in BOOLEAN : c = TRUE
      BY Zenon
    <3>3. CC!Serve("create") = CC!If(c, "ALREADY_EXISTS", w)
      BY <2>1, <3>1, <3>2, Zenon
    <3>4. op' = op /\ (c => d' = w /\ Moves(CC!Continue("create", "OK")))
      BY <1>0, <1>3, <2>3, <3>3, Served, Zenon
    <3>5. QED
      BY <2>2, <3>1, <3>2, <3>4, Zenon
  <2>5. /\ DOMAIN d' = {"snap", "ctr", "task"} /\ d'.snap = d.snap /\ d'.ctr = TRUE /\ d'.task = d.task
        /\ label' = "tget"
    BY <1>0, <2>4 DEF Moves
  <2>6. d.snap = <<ChainOf>>
    BY <1>3 DEF CtrInv
  <2>7. label' \in Starting
    BY <2>5 DEF Starting
  <2>8. QED
    BY <1>0, <2>4, <2>5, <2>6, <2>7, StartLanding, Zenon
<1>4. QED
  BY <1>1, <1>2, <1>3, SMTT(30) DEF Building

\* The calls of the start once there is a container, up to its task.
LEMMA StartCalls ==
    ASSUME CtrInv, CC!Unary, label \in Starting \cup {"tstart"}
    PROVE  CtrInv'
<1> USE DEF CC!Goto, CC!Ret, CC!Then, CC!OK, CC!EXISTS, CC!NOT_FOUND, CC!PRECOND
<1>0. /\ label # "idle" /\ op = "start" /\ d.ctr /\ d.ctr \in BOOLEAN /\ d.snap = <<ChainOf>>
      /\ DOMAIN d = {"snap", "ctr", "task"} /\ {"none", "created", "running"} \subseteq TaskStates
      /\ Starting \subseteq CallLabels /\ "tstart" \in CallLabels
      /\ {"NOT_FOUND", "ALREADY_EXISTS", "FAILED_PRECONDITION"} \subseteq Plain \ {"OK"}
  BY DEF CC!Unary, CtrInv, Plain, CallLabels, TaskStates
<1>1. CASE label \in {"tget", "tmounts", "tspec", "truntime"}
  <2>0. d.task = "none" /\ label \in CallLabels
    BY <1>0, <1>1 DEF CtrInv, Starting
  <2>1. PICK l \in CallLabels : l = label
    BY <2>0, Zenon
  <2>2. PICK c \in BOOLEAN : CC!Serve(l) = CC!If(c, "NOT_FOUND", d)
    <3>1. CASE l = "tmounts"
      <4>1. CC!Serve(l) = CC!If(d.snap # <<>>, "NOT_FOUND", d)
        BY <3>1 DEF CC!Serve, CC!Method
      <4>2. QED
        BY <4>1, Zenon
    <3>2. CASE l # "tmounts"
      <4>1. CC!Serve(l) = CC!If(d.ctr, "NOT_FOUND", d)
        BY <1>1, <2>1, <3>2 DEF CC!Serve, CC!Method
      <4>2. QED
        BY <1>0, <4>1, Zenon
    <3>3. QED
      BY <3>1, <3>2, Zenon
  <2>3. /\ CC!Continue(l, "OK")[1] \in {"tmounts", "tspec", "truntime", "tcreate"}
        /\ CC!Continue(l, "NOT_FOUND") = <<"ret", "NOT_FOUND">>
    BY <1>1, <2>1, ZenonT(40) DEF CC!Continue, CC!StopLabels, CC!DeleteLabels, CC!ctr_start, CC!cc_ctr_create_task
  <2>4. op' = op /\ d' = d /\ (Moves(CC!Continue(l, "OK")) \/ Moves(<<"ret", "NOT_FOUND">>))
    BY <1>0, <2>1, <2>2, <2>3, Served
  <2>5. CASE Moves(CC!Continue(l, "OK"))
    <3>1. label' \in {"tmounts", "tspec", "truntime", "tcreate"}
      BY <2>3, <2>5 DEF Moves
    <3>2. label' \in Starting
      BY <3>1, SMTT(30) DEF Starting
    <3>3. d.ctr = TRUE
      BY <1>0
    <3>4. QED
      BY <1>0, <2>0, <2>4, <3>2, <3>3, StartLanding, Zenon
  <2>6. CASE Moves(<<"ret", "NOT_FOUND">>)
    <3>1. "NOT_FOUND" # "OK"
      OBVIOUS
    <3>2. QED
      BY <1>0, <2>4, <2>6, <3>1, StartFails, Zenon
  <2>7. QED
    BY <2>4, <2>5, <2>6, ZenonT(40)
<1>2. CASE label = "tcreate"
  <2>0. d.task = "none" /\ "tcreate" \in CallLabels
    BY <1>0, <1>2 DEF CtrInv, Starting
  <2>1. CC!Serve("tcreate") = CC!If(TRUE, "ALREADY_EXISTS", [d EXCEPT !.task = "created"])
    BY <2>0 DEF CC!Serve, CC!Method, CC!If
  <2>2. CC!Continue("tcreate", "OK") = <<"tstart", "OK">>
    BY DEF CC!Continue, CC!StopLabels, CC!DeleteLabels, CC!ctr_start, CC!cc_ctr_create_task
  <2>3. op' = op /\ d' = [d EXCEPT !.task = "created"] /\ Moves(<<"tstart", "OK">>)
    <3>1. PICK w : w = [d EXCEPT !.task = "created"]
      BY Zenon
    <3>2. PICK c \in BOOLEAN : c = TRUE
      BY Zenon
    <3>3. CC!Serve("tcreate") = CC!If(c, "ALREADY_EXISTS", w)
      BY <2>1, <3>1, <3>2, Zenon
    <3>4. op' = op /\ (c => d' = w /\ Moves(CC!Continue("tcreate", "OK")))
      BY <1>0, <1>2, <2>0, <3>3, Served, Zenon
    <3>5. QED
      BY <2>2, <3>1, <3>2, <3>4, Zenon
  <2>4. /\ DOMAIN d' = {"snap", "ctr", "task"} /\ d'.snap = d.snap /\ d'.ctr = d.ctr /\ d'.task = "created"
        /\ label' = "tstart"
    BY <1>0, <2>3, Zenon DEF Moves
  <2>5. label' \in CallLabels /\ label' # "idle" /\ label' # "prepare" /\ label' # "create"
        /\ label' \notin DeleteTail \cup Starting \cup Building
    BY <2>4 DEF CallLabels, StopPart, DeleteTail, Building, Starting
  <2>6. ChainOf' = ChainOf
    BY DEF ChainOf, CC!ChainId, CC!Hash
  <2>7. QED
    BY <1>0, <2>3, <2>4, <2>5, <2>6, Zenon DEF CtrInv, CC!OkMeansDone
<1>3. CASE label = "tstart"
  <2>0. d.task = "created"
    BY <1>3 DEF CtrInv
  <2>1. CC!Serve("tstart") = CC!If(TRUE, "NOT_FOUND", [d EXCEPT !.task = "running"])
    BY <2>0 DEF CC!Serve, CC!Method, CC!If
  <2>2. CC!Continue("tstart", "OK") = <<"ret", "OK">>
    BY DEF CC!Continue, CC!StopLabels, CC!DeleteLabels, CC!ctr_start
  <2>3. "NOT_FOUND" \in Plain \ {"OK"} /\ TRUE \in BOOLEAN
    BY <1>0, Zenon
  <2>4. op' = op /\ d' = [d EXCEPT !.task = "running"] /\ Moves(<<"ret", "OK">>)
    <3>1. PICK w : w = [d EXCEPT !.task = "running"]
      BY Zenon
    <3>2. PICK c \in BOOLEAN : c = TRUE
      BY Zenon
    <3>3. CC!Serve("tstart") = CC!If(c, "NOT_FOUND", w)
      BY <2>1, <3>1, <3>2, Zenon
    <3>4. op' = op /\ (c => d' = w /\ Moves(CC!Continue("tstart", "OK")))
      BY <1>0, <1>3, <2>3, <3>3, Served, Zenon
    <3>5. QED
      BY <2>2, <3>1, <3>2, <3>4, Zenon
  <2>5. /\ DOMAIN d' = {"snap", "ctr", "task"} /\ d'.snap = d.snap /\ d'.ctr = d.ctr /\ d'.task = "running"
        /\ label' = "idle"
    BY <1>0, <2>4, Zenon DEF Moves
  <2>6. label' \notin DeleteTail \cup Starting \cup Building \cup {"create", "prepare", "tstart"}
    BY <2>5 DEF DeleteTail, Building, Starting
  <2>7. CC!OkMeansDone'
    BY <1>0, <2>4, <2>5, Zenon DEF CC!OkMeansDone, ChainOf, CC!ChainId, CC!Hash
  <2>8. QED
    BY <1>0, <2>4, <2>5, <2>6, <2>7, Zenon DEF CtrInv
<1>4. QED
  BY <1>1, <1>2, <1>3, SMTT(30) DEF Starting

\* Every step keeps the invariant.
LEMMA CtrStep ==
    ASSUME CtrInv, WantOK, [CC!Next]_(CC!vars)
    PROVE  CtrInv' /\ WantOK'
<1>0. ChainOf' = ChainOf
  BY DEF ChainOf, CC!ChainId, CC!Hash
<1>1. ASSUME CC!Unary PROVE CtrInv'
  <2>1. label \in CallLabels
    BY <1>1 DEF CC!Unary, CtrInv
  <2>2. \/ label \in StopPart \ {"get", "dtask"}
        \/ label \in {"get", "dtask", "dget", "dsnap", "dctr"}
        \/ label \in Building
        \/ label \in Starting \cup {"tstart"}
    BY <2>1 DEF CallLabels, StopPart, DeleteTail
  <2>3. QED
    BY <1>1, <2>2, StopCalls, AbsenceCalls, BuildCalls, StartCalls, Zenon
<1>2. ASSUME CC!Change \/ UNCHANGED CC!vars PROVE CtrInv'
  <2>1. d' = d /\ op' = op /\ label' = label /\ rc' = rc /\ parent' = parent
    BY <1>2 DEF CC!Change, CC!vars
  <2>2. CC!OkMeansDone => CC!OkMeansDone'
    BY <1>0, <2>1, Zenon DEF CC!OkMeansDone, ChainOf
  <2>3. QED
    BY <1>0, <2>1, <2>2, Zenon DEF CtrInv
<1>3. ASSUME CC!cc_ctr_apply PROVE CtrInv'
  <2>1. d' = d /\ label' = "get" /\ op' = want
    BY <1>3 DEF CC!cc_ctr_apply
  <2>2. label' \in StopPart
    BY <2>1 DEF StopPart
  <2>3. QED
    BY <1>3, <2>1, <2>2, Landing, Zenon DEF CtrInv, WantOK
<1>4. ASSUME CC!TaskExits PROVE CtrInv'
  <2>1. /\ d.task \in {"running", "killed"} /\ d' = [d EXCEPT !.task = "exited"]
        /\ op' = op /\ label' = label /\ rc' = rc /\ parent' = parent
    BY <1>4 DEF CC!TaskExits
  <2>2. /\ DOMAIN d' = {"snap", "ctr", "task"} /\ d'.snap = d.snap /\ d'.ctr = d.ctr /\ d'.task = "exited"
        /\ d.task # "none" /\ d.task # "created" /\ "exited" \in TaskStates /\ "exited" # "none"
    BY <2>1 DEF CtrInv, TaskStates
  <2>3. CC!OkMeansDone'
    <3>1. CC!OkMeansDone
      BY Zenon DEF CtrInv
    <3>2. QED
      BY <1>0, <2>1, <2>2, <3>1, Zenon DEF CC!OkMeansDone, ChainOf
  <2>4. QED
    BY <1>0, <2>1, <2>2, <2>3, Zenon DEF CtrInv
<1>5. WantOK'
  BY DEF WantOK, CC!Next, CC!Change, CC!cc_ctr_apply, CC!Unary, CC!Fault, CC!Advance, CC!TaskExits, CC!vars
<1>6. QED
  BY <1>1, <1>2, <1>3, <1>4, <1>5, FaultStep, Zenon DEF CC!Next

(* An operation that reports success has done its work, whatever calls were  *)
(* refused, lost after their effect or answered with garbage before and      *)
(* whatever an earlier attempt left behind: a start left a container on a    *)
(* snapshot of the image's layers with its task started, a stop left neither *)
(* container nor task (ctr_start and ctr_stop of cc_ctr.S); the other half   *)
(* of ReportsTrue.                                                           *)
THEOREM OkIsDone == CC!Spec => []CC!OkMeansDone
<1>1. CC!Init => CtrInv /\ WantOK
  <2>1. SUFFICES ASSUME CC!Init PROVE CtrInv /\ WantOK
    BY Zenon
  <2>2. /\ DOMAIN d = {"snap", "ctr", "task"} /\ d.ctr = FALSE /\ d.task = "none"
        /\ label = "idle" /\ op = "none" /\ rc = "NONE" /\ want = "start"
    BY <2>1 DEF CC!Init
  <2>3. QED
    BY <2>2, Zenon DEF CtrInv, WantOK, TaskStates, DeleteTail, Building, Starting, CC!OkMeansDone, CC!OK
<1>2. CtrInv => CC!OkMeansDone
  BY Zenon DEF CtrInv
<1>3. CtrInv /\ WantOK /\ [CC!Next]_(CC!vars) => CtrInv' /\ WantOK'
  BY CtrStep, Zenon
<1>4. QED
  BY <1>1, <1>2, <1>3, PTL DEF CC!Spec
=============================================================================
