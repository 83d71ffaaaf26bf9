------------------------------ MODULE CcState -------------------------------
(***************************************************************************)
(* The alternate controller as one thread: the state machine of             *)
(* alternate/asm/cc_state.S driven by the loop of alternate/asm/cc_main.S.   *)
(* Requests, polls and operations take turns, but the events of containerd   *)
(* are handed to the state machine wherever the connection is read, which is *)
(* in every poll and inside every operation.  An operation is the effects    *)
(* its calls have on the task (CcCtr has the calls one by one); the daemon   *)
(* is the task of every stage and the events it has sent.                    *)
(***************************************************************************)
EXTENDS Integers, Sequences

CONSTANTS Clients,       \* WebSocket clients
          Losses,        \* how the event stream may end: "ended" alone, or "lost" with the connection
          Late,          \* whether an event may take longer than a poll waits
          MaySignal,     \* whether SIGTERM may come
          MaxRequests,   \* bound: HTTP requests that change a desired state or a path
          MaxExits,      \* bound: tasks that exit by themselves
          MaxFaults      \* bound: operations that fail on a live connection

ASSUME LossesAssumption == Losses \subseteq {"ended", "lost"}

VARIABLES single,        \* ENABLE_SINGLE_STAGE_PIPELINE
          paths, desired, actual, inflight,
          listeners, seen,
          shutdown,      \* main_shutdown_flag
          dead,          \* main_grpc_dead
          pc, at,        \* where the thread is, and at which stage of a loop
          tasks, queue, stream,
          requests, exits, faults

status == <<paths, desired, actual, inflight, listeners, seen>>
daemon == <<tasks, queue, stream>>
bounds == <<requests, exits, faults>>
vars   == <<single, status, shutdown, dead, pc, at, daemon, bounds>>

Stages  == {"mediamtx", "normalize", "scale", "single"}
InOrder == <<"mediamtx", "normalize", "scale", "single">>
Current == InOrder[at]
Snapshot(want, have) == [desired |-> want, actual |-> have]

\* The route tables: an event or a command to its stage, state and prerequisite.
Target(s, st, pre) == <<[stage |-> s, state |-> st, ready |-> pre]>>
NoRoute == <<>>

\* Mutant: the path-event routes stay in force in single-stage mode.
PathRouteAlways(p, st) ==
    IF p # "ingress0" THEN NoRoute
    ELSE IF st = "ready" THEN Target("normalize", "running", FALSE)
    ELSE IF st = "notReady" THEN Target("normalize", "stopped", FALSE)
    ELSE NoRoute

PathRoute(p, st) ==
    IF single \/ p # "ingress0" THEN NoRoute
    ELSE IF st = "ready" THEN Target("normalize", "running", FALSE)
    ELSE IF st = "notReady" THEN Target("normalize", "stopped", FALSE)
    ELSE NoRoute

CommandRoute(action) ==
    Target(IF single THEN "single" ELSE "scale",
           IF action = "start" THEN "running" ELSE "stopped", action = "start")

\* cc_state_new and cc_main_run up to the loop: the subscription may fail, and
\* the loop is skipped when the HTTP server does not start.
Init ==
    /\ single \in BOOLEAN
    /\ paths = [p \in {"ingress0", "normalized"} |-> "unknown"]
    /\ desired = [s \in Stages |-> IF s = "mediamtx" THEN "running" ELSE "stopped"]
    /\ actual = [s \in Stages |-> "stopped"]
    /\ inflight = [s \in Stages |-> "no"]
    /\ listeners = {} /\ seen = [c \in Clients |-> Snapshot(desired, actual)]
    /\ shutdown = FALSE
    /\ stream \in {"open"} \cup Losses /\ dead = (stream # "open")
    /\ pc \in {"top", "waitops"} /\ at = 1
    /\ tasks = [s \in Stages |-> "none"] /\ queue = <<>>
    /\ requests = 0 /\ exits = 0 /\ faults = 0

---------------------------------------------------------------------------
\* The state machine.

\* state_notify: every listener is called with the status as it now is.
state_notify(want, have) ==
    seen' = [c \in Clients |-> IF c \in listeners THEN Snapshot(want, have) ELSE seen[c]]

\* state_apply_target: nothing when the state is already desired; the
\* prerequisite; the new desired state and its notification.  The reconcile
\* that the handler runs after an accepted request follows.
state_apply_target(t) ==
    IF desired[t.stage] = t.state
      THEN UNCHANGED <<desired, seen>> /\ pc' = "reconcile"
      ELSE IF t.ready /\ paths["ingress0"] # "ready"
        THEN UNCHANGED <<desired, seen, pc>>
        ELSE /\ desired' = [desired EXCEPT ![t.stage] = t.state]
             /\ state_notify(desired', actual)
             /\ pc' = "reconcile"

Request ==
    /\ pc = "http" /\ requests < MaxRequests
    /\ requests' = requests + 1 /\ at' = 1
    /\ UNCHANGED <<single, actual, inflight, listeners, shutdown, dead, daemon, exits, faults>>

cc_state_handle_control(action) ==
    /\ Request /\ state_apply_target(CommandRoute(action)[1])
    /\ UNCHANGED paths

cc_state_handle_path_event(p, st) ==
    /\ Request
    /\ paths' = [paths EXCEPT ![p] = st]
    /\ IF PathRoute(p, st) = NoRoute
         THEN UNCHANGED <<desired, seen>> /\ pc' = "reconcile"
         ELSE state_apply_target(PathRoute(p, st)[1])

\* A listener is called once when it is added.
cc_state_add_listener(c) ==
    /\ pc = "http" /\ c \notin listeners
    /\ listeners' = listeners \cup {c}
    /\ seen' = [seen EXCEPT ![c] = Snapshot(desired, actual)]
    /\ UNCHANGED <<single, paths, desired, actual, inflight, shutdown, dead, pc, at, daemon, bounds>>

cc_state_remove_listener(c) ==
    /\ pc = "http" /\ c \in listeners
    /\ listeners' = listeners \ {c}
    /\ UNCHANGED <<single, paths, desired, actual, inflight, seen, shutdown, dead, pc, at, daemon, bounds>>

\* The event is the actual state; the in-flight mark goes in any case.
cc_state_handle_stage_event(e) ==
    /\ actual' = [actual EXCEPT ![e.stage] = e.state]
    /\ inflight' = [inflight EXCEPT ![e.stage] = "no"]
    /\ IF actual' = actual THEN UNCHANGED seen ELSE state_notify(desired, actual')

---------------------------------------------------------------------------
\* The daemon.

Emit(s, st) == IF stream = "open" THEN Append(queue, [stage |-> s, state |-> st]) ELSE queue

Exits(s) ==
    /\ exits < MaxExits /\ tasks[s] = "running"
    /\ exits' = exits + 1
    /\ tasks' = [tasks EXCEPT ![s] = "none"]
    /\ queue' = Emit(s, "stopped")
    /\ UNCHANGED <<single, status, shutdown, dead, pc, at, stream, requests, faults>>

\* Events that were not delivered go with the stream.
StreamEnds(how) ==
    /\ stream = "open"
    /\ stream' = how /\ queue' = <<>>
    /\ UNCHANGED <<single, status, shutdown, dead, pc, at, tasks, bounds>>

\* Time passes the in-flight timeout of a stage.
InflightExpires(s) ==
    /\ inflight[s] = "fresh"
    /\ inflight' = [inflight EXCEPT ![s] = "expired"]
    /\ UNCHANGED <<single, paths, desired, actual, listeners, seen, shutdown, dead, pc, at, daemon, bounds>>

main_sig_handler ==
    /\ MaySignal /\ pc # "done"
    /\ shutdown' = TRUE
    /\ UNCHANGED <<single, status, dead, pc, at, daemon, bounds>>

\* cc_main_event_cb, from the poll or from inside a call of an operation.
Deliver ==
    /\ \/ pc \in {"poll", "polled"} /\ ~ dead
       \/ pc \in {"op", "start", "ret", "tdstop", "tdret"}
    /\ queue # <<>>
    /\ cc_state_handle_stage_event(Head(queue))
    /\ queue' = Tail(queue)
    /\ pc' = IF pc = "poll" THEN "polled" ELSE pc
    /\ UNCHANGED <<single, paths, desired, listeners, shutdown, dead, at, tasks, stream, bounds>>

---------------------------------------------------------------------------
\* Reconcile and the operations.

\* The next stage of the loop, or what follows the loop.
NextStage(loop, after) ==
    IF at < Len(InOrder) THEN at' = at + 1 /\ pc' = loop
                         ELSE at' = 1 /\ pc' = after

\* Mutant: an operation in flight never times out.
BusyForGood(s) == inflight[s] # "no"

\* planReconcile: in flight, and within its budget.
Busy(s) == inflight[s] = "fresh"

\* A stage that needs no operation now; the mark of a converged one is cleared.
ReconcileSkips ==
    /\ pc = "reconcile"
    /\ desired[Current] = actual[Current] \/ Busy(Current)
    /\ inflight' = IF desired[Current] = actual[Current] THEN [inflight EXCEPT ![Current] = "no"] ELSE inflight
    /\ NextStage("reconcile", "http")
    /\ UNCHANGED <<single, paths, desired, actual, listeners, seen, shutdown, dead, daemon, bounds>>

\* cc_ctr_apply: in flight from here.
ReconcileApplies ==
    /\ pc = "reconcile"
    /\ desired[Current] # actual[Current] /\ ~ Busy(Current)
    /\ inflight' = [inflight EXCEPT ![Current] = "fresh"]
    /\ pc' = "op"
    /\ UNCHANGED <<single, paths, desired, actual, listeners, seen, shutdown, dead, at, daemon, bounds>>

\* The stop of the stage's task, which a start begins with as well.
ctr_stop(next) ==
    /\ stream # "lost"
    /\ tasks' = [tasks EXCEPT ![Current] = "none"]
    /\ queue' = IF tasks[Current] = "running" THEN Emit(Current, "stopped") ELSE queue
    /\ pc' = next
    /\ UNCHANGED <<single, status, shutdown, dead, at, stream, bounds>>

OpStop == pc = "op" /\ ctr_stop(IF desired[Current] = "running" THEN "start" ELSE "ret")

OpStart ==
    /\ pc = "start" /\ stream # "lost"
    /\ tasks' = [tasks EXCEPT ![Current] = "running"]
    /\ queue' = Emit(Current, "running")
    /\ pc' = "ret"
    /\ UNCHANGED <<single, status, shutdown, dead, at, stream, bounds>>

\* Mutant: the listeners are left to the stage event.
FoldQuiet(st) ==
    /\ actual' = [actual EXCEPT ![Current] = st]
    /\ UNCHANGED seen
    /\ NextStage("reconcile", "http")

\* The end of state_reconcile_one: the result of the operation becomes the
\* actual state, over whatever an event has made of it meanwhile.
Fold(st) ==
    /\ actual' = [actual EXCEPT ![Current] = st]
    /\ IF actual' = actual THEN UNCHANGED seen ELSE state_notify(desired, actual')
    /\ NextStage("reconcile", "http")

\* A successful operation stays in flight.
OpReturns ==
    /\ pc = "ret" /\ stream # "lost"
    /\ Fold(desired[Current])
    /\ UNCHANGED <<single, paths, desired, inflight, listeners, shutdown, dead, daemon, bounds>>

\* A call fails: the first, one between the stop and the start, or the answer
\* to the last.
OpFails ==
    /\ pc \in {"op", "start", "ret"}
    /\ faults < MaxFaults \/ stream = "lost"
    /\ faults' = IF stream = "lost" THEN faults ELSE faults + 1
    /\ inflight' = [inflight EXCEPT ![Current] = "no"]
    /\ Fold("stopped")
    /\ UNCHANGED <<single, paths, desired, listeners, shutdown, dead, daemon, requests, exits>>

---------------------------------------------------------------------------
\* main_loop and main_shutdown.

Goto(from, to) ==
    /\ pc = from /\ pc' = to
    /\ UNCHANGED <<single, status, shutdown, dead, at, daemon, bounds>>

LoopTop == ~ shutdown /\ Goto("top", "poll")

\* The flush of cc_http_shutdown closes the clients it can, and a closed
\* client's listener is removed.
main_shutdown ==
    /\ pc = "top" /\ shutdown /\ pc' = "waitops"
    /\ listeners' \in SUBSET listeners
    /\ UNCHANGED <<single, paths, desired, actual, inflight, seen, shutdown, dead, at, daemon, bounds>>

\* The poll ends without a message, or the sleep that replaces it does.
PollTimeout == (Late \/ queue = <<>>) /\ Goto("poll", "reconcile")
PollMessage == Goto("polled", "http")
cc_http_service == Goto("http", "top")

\* The poll reports the end of the stream or of the connection.
PollEnd ==
    /\ pc = "poll" /\ ~ dead /\ stream # "open"
    /\ dead' = TRUE /\ pc' = "http"
    /\ UNCHANGED <<single, status, shutdown, at, daemon, bounds>>

\* main_wait_ops reads the marks until none is left or its budget is spent.
\* Nothing reads the connection meanwhile.
WaitOver    == (\A s \in Stages : inflight[s] = "no") /\ Goto("waitops", "teardown")

WaitTimeout == (\E s \in Stages : inflight[s] # "no") /\ Goto("waitops", "teardown")

\* cc_state_teardown, stage by stage; the notification comes at the end.
TeardownNext(want, have) ==
    /\ NextStage("teardown", "done")
    /\ IF at = Len(InOrder) THEN state_notify(want, have) ELSE UNCHANGED seen

TeardownSkips ==
    /\ pc = "teardown" /\ actual[Current] # "running"
    /\ TeardownNext(desired, actual)
    /\ UNCHANGED <<single, paths, desired, actual, inflight, listeners, shutdown, dead, daemon, bounds>>

TeardownStops == actual[Current] = "running" /\ Goto("teardown", "tdstop")
TeardownOp    == pc = "tdstop" /\ ctr_stop("tdret")

\* The stop has returned, whatever its result.
TeardownForces ==
    /\ \/ pc = "tdret" /\ faults' = faults
       \/ pc = "tdstop" /\ stream = "lost" /\ faults' = faults
       \/ pc = "tdstop" /\ faults < MaxFaults /\ faults' = faults + 1
    /\ desired' = [desired EXCEPT ![Current] = "stopped"]
    /\ actual' = [actual EXCEPT ![Current] = "stopped"]
    /\ inflight' = [inflight EXCEPT ![Current] = "no"]
    /\ TeardownNext(desired', actual')
    /\ UNCHANGED <<single, paths, listeners, shutdown, dead, daemon, requests, exits>>

Thread ==
    \/ ReconcileSkips \/ ReconcileApplies \/ OpStop \/ OpStart \/ OpReturns \/ OpFails
    \/ LoopTop \/ main_shutdown \/ PollTimeout \/ PollMessage \/ cc_http_service \/ PollEnd
    \/ WaitOver \/ WaitTimeout
    \/ TeardownSkips \/ TeardownStops \/ TeardownOp \/ TeardownForces

Client ==
    \/ \E a \in {"start", "stop"} : cc_state_handle_control(a)
    \/ \E p \in {"ingress0", "normalized"}, st \in {"unknown", "ready", "notReady"} : cc_state_handle_path_event(p, st)
    \/ \E c \in Clients : cc_state_add_listener(c) \/ cc_state_remove_listener(c)

Environment ==
    \/ \E s \in Stages : Exits(s)
    \/ \E how \in Losses : StreamEnds(how)
    \/ main_sig_handler

Expiry == \E s \in Stages : InflightExpires(s)

Next == Thread \/ Client \/ Environment \/ Deliver \/ Expiry

\* The thread runs, time passes, what was sent is received by some poll, and a
\* poll notices an ended stream.
Fairness ==
    /\ WF_vars(Thread) /\ WF_vars(Expiry)
    /\ SF_vars(Deliver) /\ SF_vars(PollEnd)

Spec == Init /\ [][Next]_vars /\ Fairness

---------------------------------------------------------------------------
(* Outside the teardown, which notifies at its end, every listener has been  *)
(* told of the desired and actual states as they are: no change made by a    *)
(* request, an event or the result of an operation is left unannounced.      *)
ListenersCurrent ==
    pc \notin {"teardown", "tdstop", "tdret"} =>
      \A c \in listeners : seen[c] = Snapshot(desired, actual)

(* The single-stage and the two-stage pipeline exclude each other: no        *)
(* sequence of requests starts a task of the other one.                      *)
OnePipeline ==
    IF single THEN tasks["normalize"] = "none" /\ tasks["scale"] = "none" ELSE tasks["single"] = "none"

(* At rest, with every event applied, the status says of each stage what its *)
(* task does.                                                                *)
AtRestStatusIsTrue ==
    pc = "poll" /\ queue = <<>> /\ stream = "open" =>
      \A s \in Stages : (actual[s] = "running") <=> (tasks[s] = "running")

(* It does so as long as no task has exited by itself and no operation has   *)
(* failed, however late the events of stops and restarts arrive.             *)
StatusSettles == exits = 0 /\ faults = 0 => AtRestStatusIsTrue

\* The program is ending, or every stage is as desired.
AtDesired == shutdown \/ pc = "done" \/ \A s \in Stages : desired[s] = actual[s]

(* A signal ends the program, with operations still marked in flight and     *)
(* with the connection lost.                                                 *)
ShutdownCompletes == shutdown ~> (pc = "done")
=============================================================================
