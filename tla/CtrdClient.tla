----------------------------- MODULE CtrdClient -----------------------------
(***************************************************************************)
(* containerd_client.c under the stage ops of main.c: several workers share *)
(* one lazily dialled connection behind the client lock, the listener has a *)
(* connection of its own, and the daemon may be down, die or answer badly.  *)
(*                                                                         *)
(* A public call is a sequence of RPCs under one hold of the lock.  Every   *)
(* stage wants to run and has at most one op at a time (overlapping ops are *)
(* in module StageOps).  Return codes keep their numbers, since the code    *)
(* relies on one that two of its error spaces share.  The status kept for   *)
(* messages (last_grpc_status) is left out.                                 *)
(***************************************************************************)
EXTENDS Integers, Sequences, FiniteSets

CONSTANTS
    Stages,        \* the stages, each with a worker of its own
    NoOne,         \* nobody holds the client lock
    Boot,          \* whether the daemon is up at boot, a set of BOOLEANs
    Faults,        \* how RPCs may fail: "timeout", "toobig", "internal"
    MaxFaults,     \* bound: bad answers
    MaxDeaths      \* bound: deaths of the daemon

ASSUME CtrdAssumption ==
    /\ IsFiniteSet(Stages) /\ NoOne \notin Stages /\ Boot \subseteq BOOLEAN
    /\ Faults \subseteq {"timeout", "toobig", "internal"}
    /\ MaxFaults \in Nat /\ MaxDeaths \in Nat

VARIABLES
    up,            \* the daemon is running
    world,         \* per stage: container, snapshot and task in the daemon
    conn,          \* client->h2c, see Conn
    lock,          \* who holds client->lock
    call,          \* per stage: the public call its op is in
    step,          \* per stage: the RPC of that call, 0 before the lock
    done,          \* per stage: its last op returned 0
    marker,        \* per stage: an op is in flight, for the controller
    actual,        \* per stage: the controller believes it runs
    listener,      \* "subscribing", "reading", "cut" (its stream) or "gone"
    events,        \* task events the daemon sent, not yet read
    faults, deaths,
    strikes        \* calls a lost connection cost since it was lost

vars == <<up, world, conn, lock, call, step, done, marker, actual,
          listener, events, faults, deaths, strikes>>

\* "stale": the daemon went away and the client has not noticed.
\* "dead": h2c.c has marked the connection dead.
Conn == {"none", "open", "stale", "dead"}

H2C_ERR_TIMEOUT == -1
H2C_ERR_IO      == -2
H2C_ERR_PROTO   == -3
H2C_ERR_TOOBIG  == -6
H2C_ERR_BADARG  == -7
TransportErrors == {-2, -3, -4, -5, -6, -9, -10}

OK                  == 0
NOT_FOUND           == 5
ALREADY_EXISTS      == 6
FAILED_PRECONDITION == 9
INTERNAL            == 13
UNAVAILABLE         == 14

CTRD_CONNECT  == -2
CTRD_NOTFOUND == -3
CTRD_TIMEOUT  == -4
CTRD_IO       == -5
CTRD_PROTO    == -6
CTRD_CLOSED   == -7
CTRD_RPC      == -9

------------------------------------------------------------------------------
(* Error mapping.                                                            *)

map_grpc_err(rc) ==
    CASE rc = OK                              -> 0
      [] rc = NOT_FOUND                       -> CTRD_NOTFOUND
      [] rc \in {4, H2C_ERR_TIMEOUT}          -> CTRD_TIMEOUT
      [] rc \in {ALREADY_EXISTS, UNAVAILABLE} -> CTRD_IO
      [] rc = -10                             -> CTRD_CLOSED
      [] rc \in {H2C_ERR_TOOBIG, H2C_ERR_PROTO} -> CTRD_PROTO
      [] rc > 0 /\ rc \notin {4, 5, 6, 14}    -> CTRD_RPC
      [] OTHER                                -> CTRD_IO

map_rpc_err(rc) == IF rc = CTRD_CONNECT THEN CTRD_CONNECT ELSE map_grpc_err(rc)

\* Mutant: only a protocol error discards the connection.
only_proto_is_dead(rc) == rc = H2C_ERR_PROTO

transport_is_dead(rc) == rc \in TransportErrors

------------------------------------------------------------------------------
(* The public calls: the RPCs each makes, on which connection, and the       *)
(* statuses of it that the call does not take for an error.  "shared" goes   *)
(* through shared_unary_locked, "direct" uses client->h2c as it is, "own"    *)
(* dials a connection for itself.                                            *)

Rpc(via, name, tolerated) == [via |-> via, name |-> name, tolerated |-> tolerated]

get_image         == Rpc("shared", "ImagesGet", {})
load_container    == Rpc("shared", "ContainersGet", {})
load_task         == Rpc("shared", "TasksGet", {})
task_start        == Rpc("shared", "TasksStart", {})
task_kill         == Rpc("shared", "TasksKill", {NOT_FOUND})
task_wait         == Rpc("own", "TasksWait", {})
task_delete       == Rpc("shared", "TasksDelete", {NOT_FOUND})
content_read      == Rpc("direct", "ContentRead", {})
snapshots_prepare == Rpc("direct", "SnapshotsPrepare", {ALREADY_EXISTS})
snapshots_mounts  == Rpc("direct", "SnapshotsMounts", {})
snapshots_remove  == Rpc("direct", "SnapshotsRemove", {NOT_FOUND})

force_delete     == <<task_kill, Rpc("own", "TasksWait", {CTRD_NOTFOUND, CTRD_TIMEOUT}), task_delete>>
delete_container == <<snapshots_remove, Rpc("shared", "ContainersDelete", {})>>
new_task         == <<snapshots_mounts, Rpc("shared", "TasksCreate", {})>>

\* The manifest and the config are two blobs.
new_container ==
    <<get_image, content_read, content_read, snapshots_prepare, Rpc("shared", "ContainersCreate", {})>>

Rpcs == [load_container |-> <<load_container>>, load_task |-> <<load_task>>,
         task_kill |-> <<task_kill>>, task_wait |-> <<task_wait>>,
         task_delete |-> <<task_delete>>, force_delete |-> force_delete,
         delete_container |-> delete_container,
         new_container |-> new_container, new_task |-> new_task,
         task_start |-> <<task_start>>]

\* Mutant: a wait that timed out is taken for an exit.
AfterCallNoForce(c, code) ==
    CASE c = "load_container" /\ code = 0             -> "load_task"
      [] c = "load_container" /\ code = CTRD_NOTFOUND -> "new_container"
      [] c = "load_task" /\ code = 0                  -> "task_kill"
      [] c = "load_task" /\ code = CTRD_NOTFOUND      -> "delete_container"
      [] c = "task_kill" /\ code = 0                  -> "task_wait"
      [] c = "task_wait"                              -> "delete_container"
      [] c = "delete_container" /\ code = 0           -> "new_container"
      [] c = "new_container" /\ code = 0              -> "new_task"
      [] c = "new_task" /\ code = 0                   -> "task_start"
      [] OTHER                                        -> "none"

\* The order of the calls in stage_start_op, whose first part is
\* stage_stop_op.
AfterCall(c, code) ==
    CASE c = "load_container" /\ code = 0             -> "load_task"
      [] c = "load_container" /\ code = CTRD_NOTFOUND -> "new_container"
      [] c = "load_task" /\ code = 0                  -> "task_kill"
      [] c = "load_task" /\ code = CTRD_NOTFOUND      -> "delete_container"
      [] c = "task_kill" /\ code = 0                  -> "task_wait"
      [] c = "task_wait" /\ code = 0                  -> "task_delete"
      [] c = "task_wait" /\ code = CTRD_TIMEOUT       -> "force_delete"
      [] c = "task_wait" /\ code = CTRD_NOTFOUND      -> "delete_container"
      [] c \in {"task_delete", "force_delete"} /\ code = 0 -> "delete_container"
      [] c = "delete_container" /\ code = 0           -> "new_container"
      [] c = "new_container" /\ code = 0              -> "new_task"
      [] c = "new_task" /\ code = 0                   -> "task_start"
      [] OTHER                                        -> "none"

------------------------------------------------------------------------------
(* The daemon.                                                               *)

TaskState == {"none", "created", "running", "dying", "exited"}

\* What a healthy daemon answers.
Answer(w, name) ==
    CASE name \in {"ImagesGet", "ContentRead"} -> OK
      [] name \in {"ContainersGet", "ContainersDelete"} ->
            IF w.container THEN OK ELSE NOT_FOUND
      [] name = "ContainersCreate" -> IF w.container THEN ALREADY_EXISTS ELSE OK
      [] name = "SnapshotsPrepare" -> IF w.snapshot THEN ALREADY_EXISTS ELSE OK
      [] name \in {"SnapshotsMounts", "SnapshotsRemove"} ->
            IF w.snapshot THEN OK ELSE NOT_FOUND
      [] name \in {"TasksGet", "TasksKill", "TasksWait"} ->
            IF w.task = "none" THEN NOT_FOUND ELSE OK
      [] name = "TasksDelete" ->
            IF w.task = "none" THEN NOT_FOUND
            ELSE IF w.task \in {"created", "exited"} THEN OK ELSE FAILED_PRECONDITION
      [] name = "TasksCreate" -> IF w.task = "none" THEN OK ELSE ALREADY_EXISTS
      [] name = "TasksStart" ->
            IF w.task = "created" THEN OK ELSE FAILED_PRECONDITION

Effect(w, name) ==
    IF Answer(w, name) # OK THEN w
    ELSE CASE name = "ContainersCreate" -> [w EXCEPT !.container = TRUE]
           [] name = "ContainersDelete" -> [w EXCEPT !.container = FALSE]
           [] name = "SnapshotsPrepare" -> [w EXCEPT !.snapshot = TRUE]
           [] name = "SnapshotsRemove"  -> [w EXCEPT !.snapshot = FALSE]
           [] name = "TasksCreate"      -> [w EXCEPT !.task = "created"]
           [] name = "TasksStart"       -> [w EXCEPT !.task = "running"]
           [] name = "TasksDelete"      -> [w EXCEPT !.task = "none"]
           [] name = "TasksKill" /\ w.task # "exited" -> [w EXCEPT !.task = "dying"]
           [] OTHER                     -> w

Event(s, name) ==
    IF name = "TasksStart" /\ Answer(world[s], name) = OK /\ listener = "reading"
      THEN Append(events, [stage |-> s, running |-> TRUE]) ELSE events

\* A task that was signalled exits.
TaskExits(s) ==
    /\ world[s].task = "dying"
    /\ world' = [world EXCEPT ![s].task = "exited"]
    /\ events' = IF up /\ listener = "reading"
                   THEN Append(events, [stage |-> s, running |-> FALSE])
                   ELSE events
    /\ UNCHANGED <<up, conn, lock, call, step, done, marker, actual,
                   listener, faults, deaths, strikes>>

\* Its connections break with it.
Dies(c) ==
    /\ deaths < MaxDeaths /\ deaths' = deaths + 1
    /\ up' = FALSE /\ conn' = c /\ strikes' = 0
    /\ listener' = IF listener = "reading" THEN "cut" ELSE listener

DaemonDies ==
    /\ up /\ Dies(IF conn = "open" THEN "stale" ELSE conn)
    /\ UNCHANGED <<world, lock, call, step, done, marker, actual, events,
                   faults>>

DaemonStarts ==
    /\ ~up /\ up' = TRUE
    /\ UNCHANGED <<world, conn, lock, call, step, done, marker, actual,
                   listener, events, faults, deaths, strikes>>

------------------------------------------------------------------------------
(* An RPC.                                                                   *)

\* An op's call ends with this code and gives the lock back.
Ends(s, code) ==
    /\ done' = [done EXCEPT ![s] = call[s] = "task_start" /\ code = 0]
    /\ call' = [call EXCEPT ![s] = AfterCall(@, code)]
    /\ step' = [step EXCEPT ![s] = 0]
    /\ lock' = IF lock = s THEN NoOne ELSE lock

TheRpc(s) == Rpcs[call[s]][step[s]]

\* What the call makes of the RPC's raw result.
Continue(s, rc) ==
    LET r == TheRpc(s)
        tolerated == rc = OK \/ rc \in r.tolerated
    IN  IF tolerated /\ step[s] < Len(Rpcs[call[s]])
          THEN /\ step' = [step EXCEPT ![s] = @ + 1]
               /\ UNCHANGED <<done, call, lock>>
          ELSE Ends(s, IF tolerated THEN 0
                       ELSE CASE r.via = "shared" -> map_rpc_err(rc)
                              [] r.via = "direct" -> map_grpc_err(rc)
                              [] r.via = "own"    -> rc)

\* The result reaches the caller, which discards a connection it shows dead.
Returned(s, rc, c) ==
    /\ conn' = IF transport_is_dead(rc) THEN "none" ELSE c
    /\ Continue(s, rc)

FaultCode == [timeout |-> H2C_ERR_TIMEOUT, toobig |-> H2C_ERR_TOOBIG,
              internal |-> INTERNAL]

\* The daemon answers, well or badly; a bad answer may come after the effect.
RpcAnswered(s) ==
    /\ conn = "open" /\ up
    /\ \/ /\ Returned(s, Answer(world[s], TheRpc(s).name), "open")
          /\ world' = [world EXCEPT ![s] = Effect(@, TheRpc(s).name)]
          /\ events' = Event(s, TheRpc(s).name)
          /\ UNCHANGED faults
       \/ /\ faults < MaxFaults /\ faults' = faults + 1
          /\ \E rc \in {FaultCode[f] : f \in Faults}, applied \in BOOLEAN :
                /\ Returned(s, rc, "open")
                /\ world' = IF applied /\ rc # INTERNAL
                              THEN [world EXCEPT ![s] = Effect(@, TheRpc(s).name)]
                              ELSE world
                /\ events' = IF applied /\ rc # INTERNAL
                               THEN Event(s, TheRpc(s).name) ELSE events
    /\ strikes' = 0
    /\ UNCHANGED <<up, deaths, listener>>

\* The daemon dies under the RPC: h2c.c finishes it with UNAVAILABLE.
RpcCut(s) ==
    /\ conn = "open" /\ up
    /\ Dies("dead")
    /\ Continue(s, UNAVAILABLE)
    /\ \E applied \in BOOLEAN :
          world' = IF applied THEN [world EXCEPT ![s] = Effect(@, TheRpc(s).name)]
                           ELSE world
    /\ UNCHANGED <<events, faults>>

\* The connection does not carry the RPC.  On a stale one the request cannot
\* be written, or it can and the answer is the end of the stream; NULL is a
\* bad argument.
RpcLost(s) ==
    /\ \/ conn = "stale" /\ Returned(s, H2C_ERR_IO, "dead")
       \/ conn = "stale" /\ Returned(s, UNAVAILABLE, "dead")
       \/ conn = "dead" /\ Returned(s, H2C_ERR_IO, "dead")
       \/ /\ conn = "none" /\ TheRpc(s).via = "direct"
          /\ Returned(s, H2C_ERR_BADARG, "none")
    /\ strikes' = IF up THEN strikes + 1 ELSE 0
    /\ UNCHANGED <<up, listener, world, events, faults, deaths>>

\* shared_conn_locked dials first; refused, no RPC is made.
RpcDial(s) ==
    /\ conn = "none" /\ TheRpc(s).via = "shared"
    /\ \/ up /\ conn' = "open" /\ UNCHANGED <<done, call, step, lock>>
       \/ ~up /\ Ends(s, CTRD_CONNECT) /\ UNCHANGED conn
    /\ UNCHANGED <<up, listener, world, events, faults, deaths, strikes>>

\* Tasks/Wait dials for itself, so that a blocked wait keeps nobody from the
\* shared connection: the task exits, is gone, or the wait times out.
RpcWait(s) ==
    /\ TheRpc(s).via = "own"
    /\ \/ ~up /\ Continue(s, CTRD_CONNECT)
       \/ up /\ world[s].task = "none" /\ Continue(s, CTRD_NOTFOUND)
       \/ up /\ world[s].task = "exited" /\ Continue(s, OK)
       \/ up /\ world[s].task \in TaskState \ {"none", "exited"}
             /\ Continue(s, CTRD_TIMEOUT)
    /\ UNCHANGED <<up, listener, world, conn, events, faults, deaths, strikes>>

\* The public call takes the lock; task_wait alone runs without it.
CallBegins(s) ==
    /\ call[s] # "none" /\ step[s] = 0
    /\ call[s] # "task_wait" => lock = NoOne
    /\ lock' = IF call[s] = "task_wait" THEN lock ELSE s
    /\ step' = [step EXCEPT ![s] = 1]
    /\ UNCHANGED <<up, world, conn, call, done, marker, actual, listener,
                   events, faults, deaths, strikes>>

CallStep(s) ==
    /\ call[s] # "none" /\ step[s] > 0
    /\ \/ TheRpc(s).via = "own" /\ RpcWait(s)
       \/ /\ TheRpc(s).via # "own"
          /\ RpcAnswered(s) \/ RpcCut(s) \/ RpcLost(s) \/ RpcDial(s)
    /\ UNCHANGED <<marker, actual>>

------------------------------------------------------------------------------
(* The controller and the listener, as far as they drive the client.         *)

\* Reports are read within a poll slice of 250 ms; reconcile intervals and op
\* timeouts are seconds.
Settled == events = <<>> \/ listener = "gone"

\* A reconcile fires the start op of a stage that is not running.
OpBegins(s) ==
    /\ call[s] = "none" /\ ~marker[s] /\ ~actual[s] /\ Settled
    /\ call' = [call EXCEPT ![s] = "load_container"]
    /\ marker' = [marker EXCEPT ![s] = TRUE]
    /\ done' = [done EXCEPT ![s] = FALSE]
    /\ UNCHANGED <<up, world, conn, lock, step, actual, listener, events,
                   faults, deaths, strikes>>

\* A failed op clears its marker; one that succeeded waits for the report and
\* times out without it.
MarkerCleared(s) ==
    /\ call[s] = "none" /\ marker[s]
    /\ done[s] => Settled
    /\ marker' = [marker EXCEPT ![s] = FALSE]
    /\ UNCHANGED <<up, world, conn, lock, call, step, done, actual, listener,
                   events, faults, deaths, strikes>>

\* One attempt, on a connection of its own.
Subscribe ==
    /\ listener = "subscribing"
    /\ listener' = IF up THEN "reading" ELSE "gone"
    /\ UNCHANGED <<up, world, conn, lock, call, step, done, marker, actual,
                   events, faults, deaths, strikes>>

\* Mutant: start and exit are taken for each other.
EventKindsSwapped ==
    /\ listener \in {"reading", "cut"} /\ events # <<>>
    /\ actual' = [actual EXCEPT ![Head(events).stage] = ~Head(events).running]
    /\ marker' = [marker EXCEPT ![Head(events).stage] = FALSE]
    /\ events' = Tail(events)
    /\ UNCHANGED <<up, world, conn, lock, call, step, done, listener, faults,
                   deaths, strikes>>

\* A stage event sets actual and clears the marker.
EventStreamNext ==
    /\ listener \in {"reading", "cut"} /\ events # <<>>
    /\ actual' = [actual EXCEPT ![Head(events).stage] = Head(events).running]
    /\ marker' = [marker EXCEPT ![Head(events).stage] = FALSE]
    /\ events' = Tail(events)
    /\ UNCHANGED <<up, world, conn, lock, call, step, done, listener, faults,
                   deaths, strikes>>

\* A stream error ends the thread; what was not read is lost.
ListenerReturns ==
    /\ listener = "cut"
    /\ listener' = "gone" /\ events' = <<>>
    /\ UNCHANGED <<up, world, conn, lock, call, step, done, marker, actual,
                   faults, deaths, strikes>>

Init ==
    /\ up \in Boot
    /\ world = [s \in Stages |->
                  [container |-> FALSE, snapshot |-> FALSE, task |-> "none"]]
    /\ conn = "none" /\ lock = NoOne
    /\ call = [s \in Stages |-> "none"] /\ step = [s \in Stages |-> 0]
    /\ done = [s \in Stages |-> FALSE]
    /\ marker = [s \in Stages |-> FALSE] /\ actual = [s \in Stages |-> FALSE]
    /\ listener = "subscribing" /\ events = <<>>
    /\ faults = 0 /\ deaths = 0 /\ strikes = 0

Next ==
    \/ \E s \in Stages : \/ CallBegins(s) \/ CallStep(s)
                          \/ OpBegins(s) \/ MarkerCleared(s) \/ TaskExits(s)
    \/ Subscribe \/ EventStreamNext \/ ListenerReturns
    \/ DaemonDies \/ DaemonStarts
    \/ (\A s \in Stages : actual[s]) /\ UNCHANGED vars

\* The workers, the controller and the listener run, the lock is handed round
\* (SF: a waiter for the mutex gets it), a signalled task exits and a daemon
\* that is down is started again.
Worker(s)  == CallBegins(s) \/ CallStep(s)
Controller == \E s \in Stages : OpBegins(s) \/ MarkerCleared(s)
Listener   == Subscribe \/ EventStreamNext \/ ListenerReturns
Daemon     == DaemonStarts \/ \E s \in Stages : TaskExits(s)

Fairness ==
    /\ \A s \in Stages : SF_vars(Worker(s))
    /\ WF_vars(Controller) /\ WF_vars(Listener) /\ WF_vars(Daemon)

Spec == Init /\ [][Next]_vars /\ Fairness

------------------------------------------------------------------------------
\* Every variable has its type, and the client lock is held by exactly the
\* stage that is inside a call, task_wait apart, on every way out of it.
CtrdTypeOK ==
    /\ conn \in Conn /\ lock \in Stages \cup {NoOne}
    /\ \A s \in Stages : (lock = s) = (step[s] > 0 /\ call[s] # "task_wait")
    /\ \A s \in Stages : /\ call[s] \in DOMAIN Rpcs \cup {"none"}
                          /\ step[s] \in 0 .. 7
                          /\ world[s].task \in TaskState
    /\ listener \in {"subscribing", "reading", "cut", "gone"}

\* One death of the daemon costs a bounded number of calls once it is up
\* again: two notice the dead connection (one ends with UNAVAILABLE and leaves
\* it, the next discards it), and each further worker may meet the NULL
\* connection once with a call that does not dial.
StrikesBounded == strikes <= Cardinality(Stages) + 1

\* No task in the daemon without the container and the snapshot it runs from,
\* whichever call of the ops failed, timed out or was cut off in between
\* (stage_stop_op deletes the task first, delete_container_locked the
\* snapshot before the container).
TaskNested ==
    \A s \in Stages : world[s].task # "none" =>
                          world[s].container /\ world[s].snapshot

\* The op of every stage has succeeded, or a report shows that it did.
Recovered == \A s \in Stages : done[s] \/ actual[s]

\* Every stage runs and is known to: "so the caller recovers when the daemon
\* comes up (no `client == NULL` state to get stuck in)" (containerd_client.h).
AllRun == \A s \in Stages : actual[s] /\ world[s].task = "running"
=============================================================================
