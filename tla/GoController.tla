---------------------------- MODULE GoController ----------------------------
(***************************************************************************)
(* The Go controller (controller.go, main.go, container_factory.go): one    *)
(* goroutine runs the actions of a bounded channel; HTTP handlers, the       *)
(* reconcile ticker, the containerd listener, WebSocket handlers and the     *)
(* operations' own goroutines send to it; main shuts them down in order.     *)
(* containerd is the state of each stage's container and the queue of task   *)
(* events; a stage has one container.                                        *)
(***************************************************************************)
EXTENDS Integers, Sequences, FiniteSets, Functions

CONSTANTS Stages,
          PathRoutes,       \* path status -> [stage, state]
          CommandRoutes,    \* control action -> [stage, state, needsReady]
          Clients,          \* WebSocket handlers connected when the signal comes
          Cap,              \* actionsBufferSize
          InflightTimeout,
          MaxClock, MaxRequests, MaxTicks, MaxFaults   \* bounds

VARIABLES path, stage, chan, closed,
          pend,        \* per sender: what it has still to send, a reply awaited
          ops,         \* running operations
          teardown,    \* the stages Teardown has still to visit
          ctr, events, \* containerd
          alive,       \* the listener, the ticker
          phase, clock, requests, ticks, faults, panicked

vars == <<path, stage, chan, closed, pend, ops, teardown, ctr, events, alive, phase, clock, requests, ticks, faults, panicked>>

Senders == {"http", "ticker", "listener", "main"} \cup Clients
Zero    == -1                          \* time.Time{}
Idle    == [todo |-> <<>>, await |-> FALSE]
InFlight(s) == stage[s].since # Zero

Init ==
    /\ path = "unknown"
    /\ stage = [s \in Stages |-> [desired |-> "stopped", actual |-> "stopped", since |-> Zero]]
    /\ chan = <<>> /\ closed = FALSE
    /\ pend = [a \in Senders |-> Idle]
    /\ ops = {} /\ teardown = {}
    /\ ctr = [s \in Stages |-> "none"] /\ events = <<>>
    /\ alive = {"listener", "ticker"}
    /\ phase = "up" /\ clock = 0 /\ requests = 0 /\ ticks = 0 /\ faults = 0 /\ panicked = FALSE

Running == phase # "exited" /\ ~ panicked

-----------------------------------------------------------------------------
\* The senders.  submit awaits the reply, RequestReconcile does not.

Msg(kind, x, y, a) == [kind |-> kind, x |-> x, y |-> y, from |-> a]
Ask(a, m)  == pend' = [pend EXCEPT ![a] = [todo |-> <<m>>, await |-> FALSE]]

Send(a) ==
    /\ Running /\ pend[a].todo # <<>> /\ ~ pend[a].await
    /\ IF closed
         THEN panicked' = TRUE /\ UNCHANGED <<chan, pend>>
         ELSE /\ Len(chan) < Cap
              /\ chan' = Append(chan, Head(pend[a].todo))
              /\ pend' = [pend EXCEPT ![a] = [todo |-> Tail(@.todo), await |-> Head(@.todo).kind # "reconcile"]]
              /\ UNCHANGED panicked
    /\ UNCHANGED <<path, stage, closed, ops, teardown, ctr, events, alive, phase, clock, requests, ticks, faults>>

\* postJSON on /event and /control.
postJSON ==
    /\ phase = "up" /\ pend["http"] = Idle /\ requests < MaxRequests
    /\ requests' = requests + 1
    /\ \/ \E st \in {"ready", "notReady"} : Ask("http", Msg("path", st, st, "http"))
       \/ \E a \in DOMAIN CommandRoutes : Ask("http", Msg("control", a, a, "http"))
    /\ UNCHANGED <<path, stage, chan, closed, ops, teardown, ctr, events, alive, phase, clock, ticks, faults, panicked>>

\* invokeReconcileEvery
Tick ==
    /\ Running /\ "ticker" \in alive /\ pend["ticker"] = Idle
    /\ IF phase # "up"
         THEN alive' = alive \ {"ticker"} /\ UNCHANGED <<pend, ticks>>
         ELSE /\ ticks < MaxTicks /\ ticks' = ticks + 1
              /\ Ask("ticker", Msg("reconcile", "", "", "ticker")) /\ UNCHANGED alive
    /\ UNCHANGED <<path, stage, chan, closed, ops, teardown, ctr, events, phase, clock, requests, faults, panicked>>

\* The containerd listener: an event, the end of the context or a stream error.
Listen ==
    /\ Running /\ "listener" \in alive /\ pend["listener"] = Idle /\ events # <<>>
    /\ Ask("listener", Msg("stage", Head(events)[1], Head(events)[2], "listener"))
    /\ events' = Tail(events)
    /\ UNCHANGED <<path, stage, chan, closed, ops, teardown, ctr, alive, phase, clock, requests, ticks, faults, panicked>>

ListenerEnds ==
    /\ Running /\ "listener" \in alive /\ pend["listener"] = Idle
    /\ \/ phase # "up" /\ UNCHANGED faults
       \/ phase = "up" /\ faults < MaxFaults /\ faults' = faults + 1
    /\ alive' = alive \ {"listener"}
    /\ UNCHANGED <<path, stage, chan, closed, pend, ops, teardown, ctr, events, phase, clock, requests, ticks, panicked>>

\* /subscribe: the root context ends the handler, its deferred goroutine removes the listener.
Unsubscribe(w) ==
    /\ Running /\ phase # "up" /\ pend[w] = Idle /\ w \in Clients \ alive
    /\ alive' = alive \cup {w}
    /\ Ask(w, Msg("remove", w, w, w))
    /\ UNCHANGED <<path, stage, chan, closed, ops, teardown, ctr, events, phase, clock, requests, ticks, faults, panicked>>

-----------------------------------------------------------------------------
\* Run: the handlers, each giving the stages, the path and whether it failed.

applyDesiredStageTarget(target, p) ==
    IF stage[target.stage].desired = target.state THEN <<stage, TRUE>>
    ELSE IF target.needsReady /\ p # "ready" THEN <<stage, FALSE>>
    ELSE <<[stage EXCEPT ![target.stage].desired = target.state], TRUE>>

handlePathEvent(st) ==
    IF st \in DOMAIN PathRoutes THEN applyDesiredStageTarget(PathRoutes[st], st) ELSE <<stage, TRUE>>

handleControl(a) == applyDesiredStageTarget(CommandRoutes[a], path)

\* Mutant: an event that no operation waits for is ignored.
handleStageEventExpected(s, state) ==
    IF InFlight(s) THEN [stage EXCEPT ![s].actual = state, ![s].since = Zero] ELSE stage

handleStageEvent(s, state) == [stage EXCEPT ![s].actual = state, ![s].since = Zero]

\* planReconcile: nothing to do, or the stages an operation is started for.
Fires(s) ==
    /\ stage[s].desired # stage[s].actual
    /\ InFlight(s) => clock - stage[s].since >= InflightTimeout

NewId == CHOOSE n \in 1..Cardinality(ops) + 1 : \A o \in ops : o.id # n

handleReconcile ==
    /\ stage' = [s \in Stages |->
                   IF stage[s].desired = stage[s].actual THEN [stage[s] EXCEPT !.since = Zero]
                   ELSE IF Fires(s) THEN [stage[s] EXCEPT !.since = clock] ELSE stage[s]]
    /\ ops' = ops \cup {[s |-> s, target |-> stage[s].desired, pc |-> "stop", deadline |-> clock + InflightTimeout,
                         id |-> NewId] : s \in {x \in Stages : Fires(x)}}

Reply(m, ok) ==
    IF m.from \notin Senders \/ m.kind = "reconcile" THEN UNCHANGED pend
    ELSE pend' = [pend EXCEPT ![m.from] =
                    [todo |-> IF ok /\ m.kind \in {"path", "control"} THEN <<Msg("reconcile", "", "", m.from)>> ELSE <<>>,
                     await |-> FALSE]]

\* The range loop takes the next action; Teardown holds the goroutine until it is through.
Run ==
    /\ Running /\ teardown = {} /\ chan # <<>>
    /\ chan' = Tail(chan)
    /\ LET m == Head(chan)
       IN  /\ path' = IF m.kind = "path" THEN m.x ELSE path
           /\ IF m.kind = "reconcile" THEN handleReconcile ELSE
                /\ UNCHANGED ops
                /\ stage' = CASE m.kind = "path"    -> handlePathEvent(m.x)[1]
                            [] m.kind = "control" -> handleControl(m.x)[1]
                            [] m.kind = "stage"   -> handleStageEvent(m.x, m.y)
                            [] m.kind = "clear"   -> [stage EXCEPT ![m.x].since = Zero]
                            [] OTHER              -> stage
           /\ IF m.kind = "teardown" /\ \E s \in Stages : stage[s].actual = "running"
                THEN teardown' = {s \in Stages : stage[s].actual = "running"} /\ UNCHANGED pend
                ELSE /\ Reply(m, CASE m.kind = "path" -> handlePathEvent(m.x)[2]
                                  [] m.kind = "control" -> handleControl(m.x)[2] [] OTHER -> TRUE)
                     /\ UNCHANGED teardown
    /\ UNCHANGED <<closed, ctr, events, alive, phase, clock, requests, ticks, faults, panicked>>

\* Teardown stops one running stage; a failure is logged and forgotten.
Teardown(s) ==
    /\ Running /\ s \in teardown
    /\ \/ /\ ctr' = [ctr EXCEPT ![s] = "none"]
          /\ events' = IF ctr[s] = "running" THEN Append(events, <<s, "stopped">>) ELSE events
          /\ UNCHANGED faults
       \/ faults < MaxFaults /\ faults' = faults + 1 /\ UNCHANGED <<ctr, events>>
    /\ stage' = [stage EXCEPT ![s] = [desired |-> "stopped", actual |-> "stopped", since |-> Zero]]
    /\ teardown' = teardown \ {s}
    /\ pend' = IF teardown = {s} THEN [pend EXCEPT !["main"] = Idle] ELSE pend
    /\ UNCHANGED <<path, chan, closed, ops, alive, phase, clock, requests, ticks, panicked>>

-----------------------------------------------------------------------------
\* The operations' goroutines.

Step(o, pc) == ops' = (ops \ {o}) \cup (IF pc = "done" THEN {} ELSE {[o EXCEPT !.pc = pc]})
Emit(s, state) == events' = Append(events, <<s, state>>)
SameOp == UNCHANGED <<path, stage, chan, closed, pend, teardown, alive, phase, clock, requests, ticks, panicked>>

\* stop: the task is killed and deleted, then the container, if they exist.
OpStop(o) ==
    /\ Running /\ o.pc = "stop" /\ clock < o.deadline
    /\ ctr' = [ctr EXCEPT ![o.s] = "none"]
    /\ IF ctr[o.s] = "running" THEN Emit(o.s, "stopped") ELSE UNCHANGED events
    /\ Step(o, IF o.target = "running" THEN "create" ELSE "done")
    /\ UNCHANGED faults /\ SameOp

\* start: the container is created (it must not exist), then its task is started.
OpCreate(o) ==
    /\ Running /\ o.pc = "create" /\ clock < o.deadline
    /\ IF ctr[o.s] = "none" THEN ctr' = [ctr EXCEPT ![o.s] = "created"] /\ Step(o, "task")
       ELSE UNCHANGED ctr /\ Step(o, "failed")
    /\ UNCHANGED <<events, faults>> /\ SameOp

OpTask(o) ==
    /\ Running /\ o.pc = "task" /\ clock < o.deadline
    /\ IF ctr[o.s] = "created"
         THEN ctr' = [ctr EXCEPT ![o.s] = "running"] /\ Emit(o.s, "running") /\ Step(o, "done")
         ELSE Step(o, "failed") /\ UNCHANGED <<ctr, events>>
    /\ UNCHANGED faults /\ SameOp

\* An RPC fails, or the deadline passes; a stop that is waiting still kills the task.
OpFails(o) ==
    /\ Running /\ o.pc \in {"stop", "create", "task"}
    /\ \/ clock < o.deadline /\ faults < MaxFaults /\ faults' = faults + 1 /\ UNCHANGED <<ctr, events>>
       \/ clock >= o.deadline /\ UNCHANGED <<ctr, events, faults>>
       \/ /\ clock >= o.deadline /\ o.pc = "stop" /\ ctr[o.s] = "running"
          /\ ctr' = [ctr EXCEPT ![o.s] = "created"] /\ Emit(o.s, "stopped") /\ UNCHANGED faults
    /\ Step(o, "failed") /\ SameOp

\* The failure clears the in-flight mark of the stage, whoever set it.
OpClears(o) ==
    /\ Running /\ o.pc = "failed"
    /\ IF closed THEN panicked' = TRUE /\ UNCHANGED <<chan, ops>>
       ELSE /\ Len(chan) < Cap
            /\ chan' = Append(chan, Msg("clear", o.s, o.s, "op")) /\ Step(o, "done") /\ UNCHANGED panicked
    /\ UNCHANGED <<path, stage, closed, pend, teardown, ctr, events, alive, phase, clock, requests, ticks, faults>>

\* A task ends by itself.
TaskDies(s) ==
    /\ Running /\ ctr[s] = "running" /\ faults < MaxFaults /\ faults' = faults + 1
    /\ ctr' = [ctr EXCEPT ![s] = "created"] /\ Emit(s, "stopped")
    /\ UNCHANGED ops /\ SameOp

Clock ==
    /\ Running /\ clock < MaxClock /\ clock' = clock + 1
    /\ UNCHANGED <<path, stage, chan, closed, pend, ops, teardown, ctr, events, alive, phase, requests, ticks, faults, panicked>>

-----------------------------------------------------------------------------
\* run, after the signal: the HTTP server, the ticker and the listener, the
\* operations, Teardown, Close and the end of the loop.

Rest == UNCHANGED <<path, stage, chan, ops, teardown, ctr, events, alive, clock, requests, ticks, faults, panicked>>

Signal      == phase = "up" /\ phase' = "signalled" /\ UNCHANGED <<closed, pend>> /\ Rest
Shutdown    == phase = "signalled" /\ pend["http"] = Idle /\ phase' = "http" /\ UNCHANGED <<closed, pend>> /\ Rest
JoinLoops   == phase = "http" /\ {"ticker", "listener"} \cap alive = {} /\ phase' = "joined" /\ UNCHANGED <<closed, pend>> /\ Rest
WaitForOps  == /\ phase = "joined" /\ ops = {} /\ phase' = "waited"
               /\ Ask("main", Msg("teardown", "", "", "main")) /\ UNCHANGED closed /\ Rest
Close       == phase = "waited" /\ pend["main"] = Idle /\ phase' = "closed" /\ closed' = TRUE /\ UNCHANGED pend /\ Rest
Exit        == phase = "closed" /\ chan = <<>> /\ phase' = "exited" /\ UNCHANGED <<closed, pend>> /\ Rest
Main        == Running /\ (Signal \/ Shutdown \/ JoinLoops \/ WaitForOps \/ Close \/ Exit)

Op(o) == OpStop(o) \/ OpCreate(o) \/ OpTask(o) \/ OpFails(o) \/ OpClears(o)

Next ==
    \/ \E a \in Senders : Send(a)
    \/ postJSON \/ Tick \/ Listen \/ ListenerEnds
    \/ \E w \in Clients : Unsubscribe(w)
    \/ Run \/ \E s \in Stages : Teardown(s) \/ TaskDies(s)
    \/ \E o \in ops : Op(o)
    \/ Clock \/ Main

\* The Go scheduler runs every goroutine: the controller's, the senders' and the
\* operations'.  A send that waits for room in the channel gets it in turn, and
\* after the signal the listener's select takes the ended context sooner or later.
Sender(a) == \/ Send(a)
             \/ a = "main" /\ phase # "up" /\ Main
             \/ a = "ticker" /\ Tick
             \/ a = "listener" /\ phase # "up" /\ ListenerEnds
Fairness ==
    /\ WF_vars(Run \/ \E s \in Stages : Teardown(s))
    /\ \A a \in Senders : SF_vars(Sender(a))
    /\ SF_vars(\E o \in ops : Op(o))

Spec == Init /\ [][Next]_vars /\ Fairness

-----------------------------------------------------------------------------
Queued(kind) == {m.x : m \in {q \in Range(chan) \cup UNION {Range(pend[a].todo) : a \in Senders} : q.kind = kind}}

(* While the listener runs, the state the controller believes a stage to be  *)
(* in is the state of its task, up to the events still on their way: none is *)
(* lost or overtaken, whoever caused it.                                     *)
BeliefFollows ==
    phase = "up" /\ "listener" \in alive =>
       \A s \in Stages :
          (\A k \in DOMAIN events : events[k][1] # s) /\ s \notin Queued("stage")
            => (stage[s].actual = "running") = (ctr[s] = "running")

=============================================================================
