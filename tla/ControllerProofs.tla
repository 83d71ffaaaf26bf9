-------------------------- MODULE ControllerProofs --------------------------
(***************************************************************************)
(* Safety of the controller core for any number of stages and workers, any  *)
(* route tables, any timeout and any bound.                                 *)
(***************************************************************************)
EXTENDS Controller, FiniteSetTheorems, TLAPS

\* The elements of a sequence that was appended to.
LEMMA AppendElements ==
    ASSUME NEW S, NEW s \in Seq(S), NEW x \in S
    PROVE  \A i \in DOMAIN Append(s, x) :
              (i \in DOMAIN s /\ Append(s, x)[i] = s[i]) \/ Append(s, x)[i] = x
OBVIOUS

\* What the kind of a queued action says about its fields.
LEMMA ActionFields ==
    ASSUME NEW a \in Action
    PROVE  /\ a.kind = "path" => a.path \in Paths /\ a.status \in PathStatus
           /\ a.kind = "stage" => a.stage \in Stages /\ a.state \in StageState
           /\ a.kind = "clear" => a.stage \in Stages /\ a.gen \in Nat
BY DEF Action, Reconcile, Teardown

\* The actions the callers and the workers append are actions.
LEMMA ActionsTyped ==
    /\ \A p \in Paths, st \in PathStatus : PathEvent(p, st) \in Action
    /\ \A cmd \in Commands : Control(cmd) \in Action
    /\ \A s \in Stages, st \in StageState : StageEvent(s, st) \in Action
    /\ \A s \in Stages, g \in Nat : Clear(s, g) \in Action
    /\ Reconcile \in Action /\ Teardown \in Action
BY Zenon DEF Action, PathEvent, Control, StageEvent, Clear, Reconcile, Teardown

\* A pass over the stages stays inside the stage array.
LEMMA AdvanceTyped ==
    ASSUME cursor \in Stages, Advance
    PROVE  cursor' \in Stages
BY ConfigAssumption DEF Advance, Stages

\* What is left of the queue, and of the pool, when its head is taken.
LEMMA HeadTail ==
    ASSUME NEW S, NEW sq \in Seq(S), sq # <<>>
    PROVE  Head(sq) \in S /\ Tail(sq) \in Seq(S)
OBVIOUS

\* A job keeps its type when it moves to a worker, and while it is there.
LEMMA OnWorkerTyped ==
    ASSUME NEW j, NEW pc \in {"op", "clear", "done"},
           j \in Job \/ j \in ActiveJob
    PROVE  OnWorker(j, pc) \in ActiveJob
BY Zenon DEF OnWorker, Job, ActiveJob

\* Applying a route leaves a desired state per stage and an answer.
LEMMA TargetApplied ==
    ASSUME desired \in [Stages -> StageState], NEW t \in Target, NEW ps,
           ApplyDesiredStageTarget(t, ps)
    PROVE  /\ desired' \in [Stages -> StageState]
           /\ http' \in {"idle", "blocked", "accepted"}
BY Zenon DEF ApplyDesiredStageTarget, Target

\* While a fire is in progress its stage has a generation to take back.
GenerationPositive == act = "firing" => op_generation[cursor] > 0

\* A reconcile request, coalesced or not, leaves a well-typed queue.
LEMMA EnqueueTyped ==
    ASSUME TypeOK, EnqueueReconcile
    PROVE  /\ q' \in Seq(Action)
           /\ reconcile_queued' \in BOOLEAN
           /\ q_closed' \in BOOLEAN
<1>1. CASE q_closed \/ reconcile_queued
  BY <1>1, Zenon DEF EnqueueReconcile, queueVars, TypeOK
<1>2. CASE ~(q_closed \/ reconcile_queued)
  <2>1. /\ q' = Append(q, Reconcile)
        /\ reconcile_queued' = TRUE
        /\ q_closed' = q_closed
    BY <1>2, Zenon DEF EnqueueReconcile
  <2>2. q' \in Seq(Action)
    BY <2>1, ActionsTyped DEF TypeOK
  <2>3. QED
    BY <2>1, <2>2, Zenon DEF TypeOK
<1>3. QED
  BY <1>1, <1>2, Zenon

\* The initial state is well typed.
LEMMA TypeInit == Init => TypeOK
<1> SUFFICES ASSUME Init PROVE TypeOK
  OBVIOUS
<1>1. /\ desired \in [Stages -> StageState] /\ actual \in [Stages -> StageState]
      /\ in_flight_since \in [Stages -> Nat] /\ op_generation \in [Stages -> Nat]
      /\ paths \in [Paths -> PathStatus] /\ now \in Nat
  BY ConfigAssumption, Zenon DEF Init, StageState, PathStatus
<1>2. q \in Seq(Action) /\ pool \in Seq(Job) /\ active \subseteq ActiveJob
  BY DEF Init
<1>3. reconcile_queued \in BOOLEAN /\ q_closed \in BOOLEAN
  BY Zenon DEF Init
<1>4. shutting_down \in BOOLEAN
  BY Zenon DEF Init
<1>5. cursor \in Stages /\ wg \in Nat
  BY ConfigAssumption DEF Init, Stages
<1>6. /\ act \in {"idle", "reconcile", "firing", "teardown", "stopping", "exited"}
      /\ http \in {"idle", "blocked", "accepted"}
      /\ listener \in {"idle", "blocked"}
      /\ main \in {"serving", "joined", "begun", "waited", "tearing", "torn",
                   "closed", "done"}
  BY Zenon DEF Init
<1>7. QED
  BY <1>1, <1>2, <1>3, <1>4, <1>5, <1>6, Zenon DEF TypeOK

\* Every step keeps the types.
LEMMA TypeStep ==
    ASSUME TypeOK, GenerationPositive, [Next]_vars
    PROVE  TypeOK'
<1> USE DEF TypeOK, stageVars, queueVars, opVars, callers
<1>1. CASE Tick
  BY <1>1 DEF Tick
<1>2. CASE HttpSubmit
  BY <1>2, ActionsTyped DEF HttpSubmit
<1>3. CASE ListenerSubmit
  BY <1>3, ActionsTyped DEF ListenerSubmit
<1>4. CASE HttpRequestReconcile
  BY <1>4, EnqueueTyped, Zenon DEF HttpRequestReconcile
<1>5. CASE TickerRequestReconcile
  BY <1>5, EnqueueTyped, Zenon DEF TickerRequestReconcile
<1>6. CASE JoinThreads
  BY <1>6, Zenon DEF JoinThreads
<1>7. CASE HandlePathEvent
  <2> USE <1>7 DEF HandlePathEvent, Pops
  <2>1. q' \in Seq(Action) /\ Head(q) \in Action
    BY HeadTail, Zenon
  <2>2. paths' \in [Paths -> PathStatus]
    BY <2>1, ActionFields, Zenon
  <2>3. /\ desired' \in [Stages -> StageState]
        /\ http' \in {"idle", "blocked", "accepted"}
    BY TargetApplied, ConfigAssumption, Zenon
  <2>4. QED
    BY <2>1, <2>2, <2>3, Zenon
<1>8. CASE HandleControl
  <2> USE <1>8 DEF HandleControl, Pops
  <2>1. q' \in Seq(Action)
    BY HeadTail, Zenon
  <2>2. /\ desired' \in [Stages -> StageState]
        /\ http' \in {"idle", "blocked", "accepted"}
    BY TargetApplied, ConfigAssumption, Zenon
  <2>3. QED
    BY <2>1, <2>2, Zenon
<1>9. CASE HandleStageEvent
  BY <1>9, ActionFields DEF HandleStageEvent, Pops
<1>10. CASE HandleClear
  BY <1>10, ActionFields DEF HandleClear, Pops
<1>11. CASE ReconcileBegin
  <2> USE <1>11 DEF ReconcileBegin, Pops
  <2>1. q' \in Seq(Action)
    BY HeadTail, Zenon
  <2>2. act' \in {"idle", "reconcile"} /\ reconcile_queued' \in BOOLEAN
    BY Zenon
  <2>3. QED
    BY <2>1, <2>2, Zenon
<1>12. CASE ReconcileConverged
  BY <1>12, AdvanceTyped, Zenon DEF ReconcileConverged, AfterStage
<1>13. CASE ReconcileSkip
  BY <1>13, AdvanceTyped, Zenon DEF ReconcileSkip, AfterStage
<1>14. CASE FireNoMemory
  BY <1>14, AdvanceTyped, Zenon DEF FireNoMemory, AfterStage
<1>15. CASE Fire
  BY <1>15 DEF Fire
<1>16. CASE FireSubmitted
  BY <1>16, AdvanceTyped, ConfigAssumption DEF FireSubmitted, AfterStage, Job
<1>17. CASE FireUndone
  BY <1>17, AdvanceTyped DEF FireUndone, AfterStage, WgDone, GenerationPositive
<1>18. CASE TeardownBegin
  BY <1>18 DEF TeardownBegin, Pops
<1>19. CASE TeardownSkip
  BY <1>19, AdvanceTyped, Zenon DEF TeardownSkip, TeardownAdvance, AfterStage
<1>20. CASE TeardownStop
  BY <1>20 DEF TeardownStop
<1>21. CASE TeardownMark
  BY <1>21, AdvanceTyped, Zenon DEF TeardownMark, TeardownAdvance, AfterStage, StageState
<1>22. CASE RunReturns
  BY <1>22, Zenon DEF RunReturns
<1>23. CASE WorkerTake
  <2> USE <1>23 DEF WorkerTake
  <2>1. Head(pool) \in Job /\ pool' \in Seq(Job)
    BY HeadTail, Zenon
  <2>2. active' \subseteq ActiveJob
    BY <2>1, OnWorkerTyped, Zenon
  <2>3. QED
    BY <2>1, <2>2
<1>24. ASSUME NEW j \in active, OpReturn(j) PROVE TypeOK'
  BY <1>24 DEF OpReturn, WgDone
<1>25. ASSUME NEW j \in active, OpFail(j) PROVE TypeOK'
  BY <1>25 DEF OpFail, OnWorker, ActiveJob
<1>26. ASSUME NEW j \in active, OpPostClear(j) PROVE TypeOK'
  <2> USE <1>26 DEF OpPostClear
  <2>1. j.stage \in Stages /\ j.gen \in Nat
    BY Zenon DEF ActiveJob
  <2>2. Clear(j.stage, j.gen) \in Action
    BY <2>1, ActionsTyped, Zenon
  <2>3. q' \in Seq(Action)
    <3>1. CASE q' = q
      BY <3>1, Zenon
    <3>2. CASE q' = Append(q, Clear(j.stage, j.gen))
      BY <3>2, <2>2
    <3>3. QED
      BY <3>1, <3>2, Zenon
  <2>4. active' \subseteq ActiveJob
    BY OnWorkerTyped, Zenon
  <2>5. QED
    BY <2>3, <2>4
<1>27. ASSUME NEW j \in active, OpDone(j) PROVE TypeOK'
  BY <1>27 DEF OpDone, WgDone
<1>28. CASE BeginShutdown
  BY <1>28, Zenon DEF BeginShutdown
<1>29. CASE WaitForOps
  BY <1>29, Zenon DEF WaitForOps
<1>30. CASE SubmitTeardown
  BY <1>30, ActionsTyped DEF SubmitTeardown
<1>31. CASE Close
  BY <1>31, Zenon DEF Close
<1>32. CASE UNCHANGED vars
  BY <1>32 DEF vars
<1>33. QED
  BY <1>1, <1>2, <1>3, <1>4, <1>5, <1>6, <1>7, <1>8, <1>9, <1>10, <1>11, <1>12, <1>13, <1>14,
     <1>15, <1>16, <1>17, <1>18, <1>19, <1>20, <1>21, <1>22, <1>23, <1>24, <1>25, <1>26, <1>27,
     <1>28, <1>29, <1>30, <1>31, <1>32, Zenon
     DEF Next, Callers, QueueThread, Worker, Shutdown, Terminated

------------------------------------------------------------------------------
(* Generations.  A fire takes a generation no other job or clear carries, and *)
(* none of them is ever ahead of its stage.                                  *)

SameFire(a, b) == a.stage = b.stage /\ a.gen = b.gen

\* Generation g of stage s has been given to a fire; the one a fire in
\* progress has just reserved has not.
Issued(s, g) ==
    /\ g <= op_generation[s]
    /\ act = "firing" /\ cursor = s => g < op_generation[s]

IsClear(a) == a.kind = "clear"

GenInv ==
    /\ GenerationPositive
    /\ \A i \in DOMAIN pool : Issued(pool[i].stage, pool[i].gen)
    /\ \A j \in active : Issued(j.stage, j.gen)
    /\ \A i \in DOMAIN q : IsClear(q[i]) => Issued(q[i].stage, q[i].gen)
    /\ \A i, k \in DOMAIN pool : SameFire(pool[i], pool[k]) => i = k
    /\ \A j, k \in active : SameFire(j, k) => j = k
    /\ \A i \in DOMAIN pool, j \in active : ~SameFire(pool[i], j)
    /\ \A i \in DOMAIN q, k \in DOMAIN pool :
          IsClear(q[i]) => ~SameFire(q[i], pool[k])
    /\ \A i \in DOMAIN q, j \in active :
          IsClear(q[i]) /\ j.pc # "done" => ~SameFire(q[i], j)

\* No clear appears in the queue.
NoNewClear ==
    \A i \in DOMAIN q' : IsClear(q'[i]) => \E k \in DOMAIN q : q[k] = q'[i]

\* No generation that was given out is taken back.
IssuedKept == \A s \in Stages, g \in Nat : Issued(s, g) => Issued(s, g)'

\* A step that adds no clear and no job, and takes no generation back, keeps
\* the invariant.
LEMMA GenKept ==
    ASSUME TypeOK, TypeOK', GenInv, NoNewClear, IssuedKept,
           GenerationPositive', pool' = pool, active' \subseteq active
    PROVE  GenInv'
<1>1. ASSUME NEW i \in DOMAIN pool'
      PROVE  Issued(pool[i].stage, pool[i].gen)'
  <2>1. i \in DOMAIN pool /\ pool'[i] = pool[i] /\ pool[i] \in Job
    BY DEF TypeOK
  <2>2. pool[i].stage \in Stages /\ pool[i].gen \in Nat
    BY <2>1, Zenon DEF Job
  <2>3. Issued(pool[i].stage, pool[i].gen)
    BY <2>1, Zenon DEF GenInv
  <2>4. QED
    BY <2>1, <2>2, <2>3, Zenon DEF IssuedKept, Issued
<1>2. ASSUME NEW j \in active'
      PROVE  Issued(j.stage, j.gen)'
  <2>1. j.stage \in Stages /\ j.gen \in Nat /\ Issued(j.stage, j.gen)
    BY Zenon DEF GenInv, TypeOK, ActiveJob
  <2>2. QED
    BY <2>1, Zenon DEF IssuedKept, Issued
<1>3. ASSUME NEW i \in DOMAIN q', IsClear(q'[i])
      PROVE  /\ Issued(q[i].stage, q[i].gen)'
             /\ \A k \in DOMAIN pool' : ~SameFire(q'[i], pool'[k])
             /\ \A j \in active' : j.pc # "done" => ~SameFire(q'[i], j)
  <2>1. PICK k \in DOMAIN q : q[k] = q'[i]
    BY <1>3, Zenon DEF NoNewClear
  <2>2. q[k] \in Action /\ IsClear(q[k])
    BY <1>3, <2>1 DEF TypeOK
  <2>3. q[k].stage \in Stages /\ q[k].gen \in Nat
    BY <2>2, ActionFields, Zenon DEF IsClear
  <2>4. Issued(q[k].stage, q[k].gen)
    BY <2>2, Zenon DEF GenInv
  <2>5. Issued(q[i].stage, q[i].gen)'
    BY <2>1, <2>3, <2>4, Zenon DEF IssuedKept, Issued
  <2>6. QED
    BY <2>1, <2>2, <2>5, Zenon DEF GenInv
<1>4. QED
  BY <1>1, <1>2, <1>3, Zenon DEF GenInv, SameFire

\* Appending anything but a clear, or dropping the head, adds no clear.
LEMMA QueueKept ==
    ASSUME TypeOK,
           \/ q' = q
           \/ q # <<>> /\ q' = Tail(q)
           \/ \E a \in Action : ~IsClear(a) /\ q' = Append(q, a)
    PROVE  NoNewClear
<1>1. CASE q' = q
  BY <1>1, Zenon DEF NoNewClear
<1>2. CASE q # <<>> /\ q' = Tail(q)
  <2>1. \A i \in DOMAIN q' : i + 1 \in DOMAIN q /\ q'[i] = q[i + 1]
    BY <1>2 DEF TypeOK
  <2>2. QED
    BY <2>1, Zenon DEF NoNewClear
<1>3. CASE \E a \in Action : ~IsClear(a) /\ q' = Append(q, a)
  <2>1. PICK a \in Action : ~IsClear(a) /\ q' = Append(q, a)
    BY <1>3, Zenon
  <2>2. \A i \in DOMAIN q' : (i \in DOMAIN q /\ q'[i] = q[i]) \/ q'[i] = a
    <3>1. q \in Seq(Action)
      BY Zenon DEF TypeOK
    <3>2. QED
      BY <2>1, <3>1, AppendElements
  <2>3. QED
    BY <2>1, <2>2, Zenon DEF NoNewClear
<1>4. QED
  BY <1>1, <1>2, <1>3, Zenon

\* A step that touches no generation, adds no job and begins no fire.
LEMMA QuietStep ==
    ASSUME TypeOK, TypeOK', GenInv,
           op_generation' = op_generation,
           pool' = pool, active' \subseteq active,
           (act' = act /\ cursor' = cursor) \/ act' # "firing",
           \/ q' = q
           \/ q # <<>> /\ q' = Tail(q)
           \/ \E a \in Action : ~IsClear(a) /\ q' = Append(q, a)
    PROVE  GenInv'
<1>1. NoNewClear
  BY QueueKept, Zenon
<1>2. IssuedKept
  BY Zenon DEF IssuedKept, Issued
<1>3. GenerationPositive'
  BY Zenon DEF GenInv, GenerationPositive
<1>4. QED
  BY <1>1, <1>2, <1>3, GenKept, Zenon

\* The fire in progress gets the generation it reserved.
LEMMA FireSubmittedGen ==
    ASSUME TypeOK, TypeOK', GenInv, FireSubmitted
    PROVE  GenInv'
<1> DEFINE job == [stage |-> cursor, gen |-> op_generation[cursor],
                   target |-> desired[cursor],
                   deadline |-> in_flight_since[cursor] + Timeout]
<1> USE DEF FireSubmitted, stageVars, queueVars, opVars, callers
<1>1. /\ pool' = Append(pool, job) /\ active' = active /\ q' = q
      /\ op_generation' = op_generation /\ act = "firing" /\ act' # "firing"
  BY Zenon DEF AfterStage
<1>2. /\ Len(pool') = Len(pool) + 1 /\ pool'[Len(pool) + 1] = job
      /\ \A i \in DOMAIN pool' : i # Len(pool) + 1 =>
            i \in DOMAIN pool /\ pool'[i] = pool[i]
      /\ DOMAIN pool' = 1..(Len(pool) + 1)
  BY <1>1 DEF TypeOK
<1>3. \A s \in Stages, g \in Nat : Issued(s, g) =>
         g <= op_generation[s] /\ (s = cursor => g # op_generation[cursor])
  BY <1>1 DEF Issued, TypeOK
<1>4. \A i \in DOMAIN pool : /\ pool[i].stage \in Stages /\ pool[i].gen \in Nat
                             /\ Issued(pool[i].stage, pool[i].gen)
  <2> TAKE i \in DOMAIN pool
  <2>1. pool[i] \in Job
    BY DEF TypeOK
  <2>2. QED
    BY <2>1, Zenon DEF GenInv, Job
<1>5. \A j \in active : /\ j.stage \in Stages /\ j.gen \in Nat
                        /\ Issued(j.stage, j.gen)
  BY Zenon DEF GenInv, TypeOK, ActiveJob
<1>6. \A i \in DOMAIN q : IsClear(q[i]) =>
         /\ q[i].stage \in Stages /\ q[i].gen \in Nat
         /\ Issued(q[i].stage, q[i].gen)
  <2> SUFFICES ASSUME NEW i \in DOMAIN q, IsClear(q[i])
               PROVE  /\ q[i].stage \in Stages /\ q[i].gen \in Nat
                      /\ Issued(q[i].stage, q[i].gen)
    OBVIOUS
  <2>1. q[i] \in Action
    BY DEF TypeOK
  <2>2. QED
    BY <2>1, ActionFields, Zenon DEF GenInv, IsClear
<1>7. /\ \A i \in DOMAIN pool : ~SameFire(pool[i], job) /\ ~SameFire(job, pool[i])
      /\ \A j \in active : ~SameFire(job, j)
      /\ \A i \in DOMAIN q : IsClear(q[i]) => ~SameFire(q[i], job)
  BY <1>3, <1>4, <1>5, <1>6, Zenon DEF SameFire
<1>8. /\ \A i \in DOMAIN pool' : Issued(pool[i].stage, pool[i].gen)'
      /\ \A j \in active' : Issued(j.stage, j.gen)'
      /\ \A i \in DOMAIN q' : IsClear(q'[i]) => Issued(q[i].stage, q[i].gen)'
      /\ GenerationPositive'
  <2>1. op_generation[cursor] \in Nat /\ cursor \in Stages
    BY Zenon DEF TypeOK
  <2>2. ASSUME NEW i \in DOMAIN pool'
        PROVE  Issued(pool[i].stage, pool[i].gen)'
    <3>1. pool'[i].stage \in Stages /\ pool'[i].gen <= op_generation[pool'[i].stage]
      BY <1>2, <1>3, <1>4, <2>1
    <3>2. QED
      BY <1>1, <3>1, Zenon DEF Issued
  <2>3. ASSUME NEW j \in active' PROVE Issued(j.stage, j.gen)'
    BY <1>1, <1>3, <1>5, Zenon DEF Issued
  <2>4. ASSUME NEW i \in DOMAIN q', IsClear(q'[i])
        PROVE  Issued(q[i].stage, q[i].gen)'
    BY <1>1, <1>3, <1>6, <2>4, Zenon DEF Issued
  <2>5. QED
    BY <1>1, <2>2, <2>3, <2>4, Zenon DEF GenerationPositive
<1>9. /\ \A i, k \in DOMAIN pool' : SameFire(pool'[i], pool'[k]) => i = k
      /\ \A i \in DOMAIN pool', j \in active' : ~SameFire(pool'[i], j)
      /\ \A i \in DOMAIN q', k \in DOMAIN pool' :
            IsClear(q'[i]) => ~SameFire(q'[i], pool'[k])
  <2>1. /\ \A i, k \in DOMAIN pool : SameFire(pool[i], pool[k]) => i = k
        /\ \A i \in DOMAIN pool, j \in active : ~SameFire(pool[i], j)
        /\ \A i \in DOMAIN q, k \in DOMAIN pool :
              IsClear(q[i]) => ~SameFire(q[i], pool[k])
    BY Zenon DEF GenInv
  <2>2. \A i, k \in DOMAIN pool' : SameFire(pool'[i], pool'[k]) => i = k
    <3> TAKE i, k \in DOMAIN pool'
    <3> HAVE SameFire(pool'[i], pool'[k])
    <3> QED
      BY <1>2, <1>7, <2>1
  <2>3. \A i \in DOMAIN pool', j \in active' : ~SameFire(pool'[i], j)
    BY <1>1, <1>2, <1>7, <2>1, Zenon
  <2>4. \A i \in DOMAIN q', k \in DOMAIN pool' :
            IsClear(q'[i]) => ~SameFire(q'[i], pool'[k])
    BY <1>1, <1>2, <1>7, <2>1, Zenon
  <2>5. QED
    BY <2>2, <2>3, <2>4, Zenon
<1>10. QED
  BY <1>1, <1>8, <1>9 DEF GenInv, SameFire

\* A worker takes the oldest job.
LEMMA WorkerTakeGen ==
    ASSUME TypeOK, TypeOK', GenInv, WorkerTake
    PROVE  GenInv'
<1> DEFINE new == OnWorker(Head(pool), "op")
<1> USE DEF WorkerTake, stageVars, queueVars, opVars, callers
<1>1. /\ q' = q /\ op_generation' = op_generation /\ act' = act
      /\ cursor' = cursor /\ active' = active \cup {new}
  OBVIOUS
<1>2. /\ 1 \in DOMAIN pool
      /\ \A i \in DOMAIN pool' : i + 1 \in DOMAIN pool /\ pool'[i] = pool[i + 1]
      /\ DOMAIN pool' \subseteq Nat
  BY DEF TypeOK
<1>3. new.stage = pool[1].stage /\ new.gen = pool[1].gen
  BY <1>2 DEF OnWorker, TypeOK
<1>4. \A s, g : Issued(s, g)' <=> Issued(s, g)
  BY <1>1, Zenon DEF Issued
<1>5. /\ \A i \in DOMAIN pool' : Issued(pool[i].stage, pool[i].gen)'
      /\ \A j \in active' : Issued(j.stage, j.gen)'
      /\ \A i \in DOMAIN q' : IsClear(q'[i]) => Issued(q[i].stage, q[i].gen)'
      /\ GenerationPositive'
  BY <1>1, <1>2, <1>3 DEF GenInv, GenerationPositive, Issued
<1>6. \A i, k \in DOMAIN pool' : SameFire(pool'[i], pool'[k]) => i = k
  <2> TAKE i, k \in DOMAIN pool'
  <2> HAVE SameFire(pool'[i], pool'[k])
  <2>1. i + 1 = k + 1
    BY <1>2, Zenon DEF GenInv
  <2>2. QED
    BY <1>2, <2>1
<1>7. \A i \in DOMAIN pool' : i + 1 # 1 /\ ~SameFire(pool[i + 1], pool[1])
  BY <1>2 DEF GenInv
<1>8. \A i \in DOMAIN pool', j \in active' : ~SameFire(pool'[i], j)
  BY <1>1, <1>2, <1>3, <1>7 DEF GenInv, SameFire
<1>9. \A j, k \in active' : SameFire(j, k) => j = k
  BY <1>1, <1>2, <1>3 DEF GenInv, SameFire
<1>10. /\ \A i \in DOMAIN q', k \in DOMAIN pool' :
             IsClear(q'[i]) => ~SameFire(q'[i], pool'[k])
       /\ \A i \in DOMAIN q', j \in active' :
             IsClear(q'[i]) /\ j.pc # "done" => ~SameFire(q'[i], j)
  BY <1>1, <1>2, <1>3 DEF GenInv, SameFire
<1>11. QED
  BY <1>5, <1>6, <1>8, <1>9, <1>10, Zenon DEF GenInv, SameFire

\* A failed op moves on at its worker, and its clear, if it is posted, carries
\* the generation of a fire whose op has returned.
LEMMA ClearGen ==
    ASSUME TypeOK, TypeOK', GenInv, NEW j \in active, OpFail(j) \/ OpPostClear(j)
    PROVE  GenInv'
<1> DEFINE new == OnWorker(j, IF OpFail(j) THEN "clear" ELSE "done")
           clr == Clear(j.stage, j.gen)
<1> USE DEF stageVars, queueVars, opVars, callers
<1>1. /\ pool' = pool /\ op_generation' = op_generation /\ act' = act
      /\ cursor' = cursor
  BY Zenon DEF OpFail, OpPostClear
<1>2. /\ active' = (active \ {j}) \cup {new}
      /\ new.stage = j.stage /\ new.gen = j.gen
      /\ j.pc # "done"
  BY Zenon DEF OpFail, OpPostClear, OnWorker
<1>3. q' = q \/ (q' = Append(q, clr) /\ new.pc = "done")
  BY Zenon DEF OpFail, OpPostClear, OnWorker
<1>4. /\ \A i \in DOMAIN q' : (i \in DOMAIN q /\ q'[i] = q[i])
                              \/ (q'[i] = clr /\ new.pc = "done")
      /\ clr.stage = j.stage /\ clr.gen = j.gen
  <2>1. clr.stage = j.stage /\ clr.gen = j.gen
    BY Zenon DEF Clear
  <2>2. CASE q' = q
    BY <2>1, <2>2, Zenon
  <2>3. CASE q' = Append(q, clr) /\ new.pc = "done"
    <3>1. \A i \in DOMAIN q' : (i \in DOMAIN q /\ q'[i] = q[i]) \/ q'[i] = clr
      <4>1. q \in Seq(Action) /\ j \in ActiveJob
        BY Zenon DEF TypeOK
      <4>2. clr \in Action
        BY <4>1, Zenon DEF Clear, Action, ActiveJob
      <4>3. QED
        BY <2>3, <4>1, <4>2, AppendElements
    <3>2. QED
      BY <2>1, <2>3, <3>1, Zenon
  <2>4. QED
    BY <1>3, <2>2, <2>3, Zenon
<1>5. /\ \A i \in DOMAIN pool' : Issued(pool[i].stage, pool[i].gen)'
      /\ \A k \in active' : Issued(k.stage, k.gen)'
      /\ GenerationPositive'
  BY <1>1, <1>2, Zenon DEF GenInv, GenerationPositive, Issued
<1>6. \A i \in DOMAIN q' : IsClear(q'[i]) => Issued(q[i].stage, q[i].gen)'
  BY <1>1, <1>4, Zenon DEF GenInv, Issued
<1>7. \A k \in active' : k = new \/ (k \in active /\ k # j)
  BY <1>2, Zenon
<1>8. /\ \A i, k \in DOMAIN pool' : SameFire(pool'[i], pool'[k]) => i = k
      /\ \A k, l \in active' : SameFire(k, l) => k = l
      /\ \A i \in DOMAIN pool', k \in active' : ~SameFire(pool'[i], k)
  BY <1>1, <1>2, <1>7 DEF GenInv, SameFire
<1>9. \A i \in DOMAIN q', k \in DOMAIN pool' :
             IsClear(q'[i]) => ~SameFire(q'[i], pool'[k])
  <2>1. /\ \A i \in DOMAIN q, k \in DOMAIN pool :
              IsClear(q[i]) => ~SameFire(q[i], pool[k])
        /\ \A k \in DOMAIN pool : ~SameFire(pool[k], j)
    BY Zenon DEF GenInv
  <2>2. QED
    BY <1>1, <1>4, <2>1 DEF SameFire
<1>10. \A i \in DOMAIN q', k \in active' :
             IsClear(q'[i]) /\ k.pc # "done" => ~SameFire(q'[i], k)
  <2> SUFFICES ASSUME NEW i \in DOMAIN q', NEW k \in active', IsClear(q'[i]),
                      k.pc # "done"
               PROVE  ~SameFire(q'[i], k)
    OBVIOUS
  <2>1. CASE i \in DOMAIN q /\ q'[i] = q[i]
    <3>1. \A l \in active : l.pc # "done" => ~SameFire(q[i], l)
      BY <2>1, Zenon DEF GenInv
    <3>2. QED
      BY <1>2, <1>7, <2>1, <3>1, Zenon DEF SameFire
  <2>2. CASE q'[i] = clr /\ new.pc = "done"
    <3>1. k \in active /\ k # j
      BY <1>7, <2>2, Zenon
    <3>2. ~SameFire(j, k)
      BY <3>1, Zenon DEF GenInv
    <3>3. QED
      BY <1>4, <2>2, <3>2, Zenon DEF SameFire
  <2>3. QED
    BY <1>4, <2>1, <2>2, Zenon
<1>11. QED
  BY <1>5, <1>6, <1>8, <1>9, <1>10, Zenon DEF GenInv, SameFire

\* The actions the callers append are no clears.
LEMMA CallersPostNoClear ==
    /\ \A p, st : ~IsClear(PathEvent(p, st)) /\ ~IsClear(StageEvent(p, st))
    /\ \A cmd : ~IsClear(Control(cmd))
    /\ ~IsClear(Reconcile) /\ ~IsClear(Teardown)
BY Zenon DEF IsClear, PathEvent, StageEvent, Control, Reconcile, Teardown

\* Every step keeps the generation invariant.
LEMMA GenStep ==
    ASSUME TypeOK, TypeOK', GenInv, [Next]_vars
    PROVE  GenInv'
<1> USE DEF stageVars, queueVars, opVars, callers
<1>1. CASE Tick
  BY <1>1, QuietStep, Zenon DEF Tick
<1>2. CASE JoinThreads
  BY <1>2, QuietStep, Zenon DEF JoinThreads
<1>3. CASE WaitForOps
  BY <1>3, QuietStep, Zenon DEF WaitForOps
<1>4. CASE BeginShutdown
  BY <1>4, QuietStep, Zenon DEF BeginShutdown
<1>5. CASE Close
  BY <1>5, QuietStep, Zenon DEF Close
<1>6. CASE RunReturns
  BY <1>6, QuietStep, Zenon DEF RunReturns
<1>7. CASE HttpSubmit
  BY <1>7, QuietStep, ActionsTyped, CallersPostNoClear DEF HttpSubmit
<1>8. CASE ListenerSubmit
  BY <1>8, QuietStep, ActionsTyped, CallersPostNoClear, Zenon DEF ListenerSubmit
<1>9. CASE SubmitTeardown
  BY <1>9, QuietStep, ActionsTyped, CallersPostNoClear, Zenon DEF SubmitTeardown
<1>10. CASE HttpRequestReconcile
  BY <1>10, QuietStep, ActionsTyped, CallersPostNoClear, Zenon DEF HttpRequestReconcile,
                                                                   EnqueueReconcile
<1>11. CASE TickerRequestReconcile
  BY <1>11, QuietStep, ActionsTyped, CallersPostNoClear, Zenon DEF TickerRequestReconcile,
                                                                   EnqueueReconcile
<1>12. CASE HandlePathEvent
  BY <1>12, QuietStep, Zenon DEF HandlePathEvent, Pops
<1>13. CASE HandleControl
  BY <1>13, QuietStep, Zenon DEF HandleControl, Pops
<1>14. CASE HandleStageEvent
  BY <1>14, QuietStep, Zenon DEF HandleStageEvent, Pops
<1>15. CASE HandleClear
  BY <1>15, QuietStep, Zenon DEF HandleClear, Pops
<1>16. CASE ReconcileBegin
  BY <1>16, QuietStep, Zenon DEF ReconcileBegin, Pops
<1>17. CASE TeardownBegin
  BY <1>17, QuietStep, Zenon DEF TeardownBegin, Pops
<1>18. CASE ReconcileConverged
  BY <1>18, QuietStep, Zenon DEF ReconcileConverged, AfterStage
<1>19. CASE ReconcileSkip
  BY <1>19, QuietStep, Zenon DEF ReconcileSkip, AfterStage
<1>20. CASE FireNoMemory
  BY <1>20, QuietStep, Zenon DEF FireNoMemory, AfterStage
<1>21. CASE TeardownSkip
  BY <1>21, QuietStep, Zenon DEF TeardownSkip, TeardownAdvance, AfterStage
<1>22. CASE TeardownMark
  BY <1>22, QuietStep, Zenon DEF TeardownMark, TeardownAdvance, AfterStage
<1>23. CASE Fire
  <2> USE <1>23 DEF Fire
  <2>1. NoNewClear
    BY QueueKept, Zenon
  <2>2. IssuedKept /\ GenerationPositive'
    BY DEF IssuedKept, Issued, GenerationPositive, TypeOK
  <2>3. QED
    BY <2>1, <2>2, GenKept, Zenon
<1>24. CASE FireUndone
  <2> USE <1>24 DEF FireUndone, AfterStage
  <2>1. NoNewClear
    BY QueueKept, Zenon
  <2>2. IssuedKept /\ GenerationPositive'
    BY DEF IssuedKept, Issued, GenerationPositive, TypeOK
  <2>3. QED
    BY <2>1, <2>2, GenKept, Zenon
<1>25. CASE TeardownStop
  <2> USE <1>25 DEF TeardownStop
  <2>1. NoNewClear
    BY QueueKept, Zenon
  <2>2. IssuedKept /\ GenerationPositive'
    BY DEF IssuedKept, Issued, GenerationPositive, TypeOK
  <2>3. QED
    BY <2>1, <2>2, GenKept, Zenon
<1>26. CASE FireSubmitted
  BY <1>26, FireSubmittedGen, Zenon
<1>27. CASE WorkerTake
  BY <1>27, WorkerTakeGen, Zenon
<1>28. ASSUME NEW j \in active, OpReturn(j) PROVE GenInv'
  BY <1>28, QuietStep, Zenon DEF OpReturn
<1>29. ASSUME NEW j \in active, OpFail(j) PROVE GenInv'
  BY <1>29, ClearGen, Zenon
<1>30. ASSUME NEW j \in active, OpPostClear(j) PROVE GenInv'
  BY <1>30, ClearGen, Zenon
<1>31. ASSUME NEW j \in active, OpDone(j) PROVE GenInv'
  BY <1>31, QuietStep, Zenon DEF OpDone
<1>32. CASE UNCHANGED vars
  BY <1>32, QuietStep, Zenon DEF vars
<1>33. QED
  BY <1>1, <1>2, <1>3, <1>4, <1>5, <1>6, <1>7, <1>8, <1>9, <1>10, <1>11, <1>12, <1>13, <1>14,
     <1>15, <1>16, <1>17, <1>18, <1>19, <1>20, <1>21, <1>22, <1>23, <1>24, <1>25, <1>26, <1>27,
     <1>28, <1>29, <1>30, <1>31, <1>32, Zenon
     DEF Next, Callers, QueueThread, Worker, Shutdown, Terminated

------------------------------------------------------------------------------
(* The wait group and the shutdown sequence.                                 *)

\* main has returned from WaitForOps.
PastWait == main \in {"waited", "tearing", "torn", "closed", "done"}

WaitInv ==
    /\ IsFiniteSet(active)
    /\ WaitGroupExact
    /\ shutting_down => act # "firing"
    /\ main \notin {"serving", "joined"} => shutting_down
    /\ \A i \in DOMAIN q : q[i].kind = "teardown" => PastWait
    /\ act \in {"teardown", "stopping"} => PastWait
    /\ PastWait => pool = <<>> /\ active = {}

NoNewTeardown ==
    \A i \in DOMAIN q' :
        q'[i].kind = "teardown" => \E k \in DOMAIN q : q[k] = q'[i]

\* Appending anything but a teardown, or dropping the head, adds none.
LEMMA NoTeardownAdded ==
    ASSUME TypeOK,
           \/ q' = q
           \/ q # <<>> /\ q' = Tail(q)
           \/ \E a \in Action : a.kind # "teardown" /\ q' = Append(q, a)
    PROVE  NoNewTeardown
<1>1. CASE q' = q
  BY <1>1, Zenon DEF NoNewTeardown
<1>2. CASE q # <<>> /\ q' = Tail(q)
  <2>1. \A i \in DOMAIN q' : i + 1 \in DOMAIN q /\ q'[i] = q[i + 1]
    BY <1>2 DEF TypeOK
  <2>2. QED
    BY <2>1, Zenon DEF NoNewTeardown
<1>3. CASE \E a \in Action : a.kind # "teardown" /\ q' = Append(q, a)
  <2>1. PICK a \in Action : a.kind # "teardown" /\ q' = Append(q, a)
    BY <1>3, Zenon
  <2>2. \A i \in DOMAIN q' : (i \in DOMAIN q /\ q'[i] = q[i]) \/ q'[i] = a
    <3>1. q \in Seq(Action)
      BY Zenon DEF TypeOK
    <3>2. QED
      BY <2>1, <3>1, AppendElements
  <2>3. QED
    BY <2>1, <2>2, Zenon DEF NoNewTeardown
<1>4. QED
  BY <1>1, <1>2, <1>3, Zenon

\* The actions that are appended while main may still be serving.
LEMMA OtherKinds ==
    /\ \A p, st : PathEvent(p, st).kind # "teardown"
    /\ \A s1, st : StageEvent(s1, st).kind # "teardown"
    /\ \A cmd : Control(cmd).kind # "teardown"
    /\ \A s1, g : Clear(s1, g).kind # "teardown"
    /\ Reconcile.kind # "teardown"
BY Zenon DEF PathEvent, StageEvent, Control, Clear, Reconcile

\* A step that moves no job, leaves main where it is, and neither begins nor
\* ends a fire.
LEMMA WaitQuiet ==
    ASSUME TypeOK, WaitInv,
           pool' = pool, active' = active, wg' = wg,
           shutting_down' = shutting_down,
           \/ act' = act
           \/ /\ act # "firing" /\ act' # "firing"
              /\ act' \in {"teardown", "stopping"} => PastWait,
           main' = main \/ (PastWait /\ PastWait'),
           \/ q' = q
           \/ q # <<>> /\ q' = Tail(q)
           \/ \E a \in Action : a.kind # "teardown" /\ q' = Append(q, a)
    PROVE  WaitInv'
<1>1. NoNewTeardown
  BY NoTeardownAdded, Zenon
<1>2. PastWait => PastWait'
  BY Zenon DEF PastWait
<1>3. \A i \in DOMAIN q' : q'[i].kind = "teardown" => PastWait'
  BY <1>1, <1>2, Zenon DEF NoNewTeardown, WaitInv
<1>4. WaitGroupExact'
  BY Zenon DEF WaitInv, WaitGroupExact
<1>5. PastWait' => PastWait
  BY Zenon DEF PastWait
<1>6. main' \notin {"serving", "joined"} => shutting_down'
  BY Zenon DEF WaitInv, PastWait
<1>7. /\ act' \in {"teardown", "stopping"} => PastWait'
      /\ shutting_down' => act' # "firing"
  BY <1>2, Zenon DEF WaitInv
<1>8. QED
  BY <1>3, <1>4, <1>5, <1>6, <1>7, Zenon DEF WaitInv

\* The equation of the wait group, with the types arithmetic needs.
LEMMA Counted ==
    ASSUME TypeOK, WaitInv
    PROVE  /\ wg = Len(pool) + Cardinality(active)
                    + (IF act = "firing" THEN 1 ELSE 0)
           /\ Len(pool) \in Nat /\ Cardinality(active) \in Nat /\ wg \in Nat
<1>1. pool \in Seq(Job) /\ wg \in Nat
  BY Zenon DEF TypeOK
<1>2. IsFiniteSet(active) /\ WaitGroupExact
  BY Zenon DEF WaitInv
<1>3. QED
  BY <1>1, <1>2, FS_CardinalityType DEF WaitGroupExact

\* Every step keeps the wait-group invariant.
LEMMA WaitStep ==
    ASSUME TypeOK, TypeOK', GenInv, WaitInv, [Next]_vars
    PROVE  WaitInv'
<1> USE DEF stageVars, queueVars, opVars, callers
<1>1. CASE Tick
  BY <1>1, WaitQuiet, Zenon DEF Tick
<1>2. CASE HttpSubmit
  <2>1. \E a \in Action : a.kind # "teardown" /\ q' = Append(q, a)
    <3>1. PICK a \in {PathEvent(p, st) : p \in Paths, st \in PathStatus}
                        \cup {Control(cmd) : cmd \in Commands} :
             q' = Append(q, a)
      BY <1>2 DEF HttpSubmit
    <3>2. a \in Action /\ a.kind # "teardown"
      BY ActionsTyped, OtherKinds
    <3>3. QED
      BY <3>1, <3>2
  <2>2. QED
    BY <1>2, <2>1, WaitQuiet, Zenon DEF HttpSubmit
<1>3. CASE ListenerSubmit
  <2>1. \E a \in Action : a.kind # "teardown" /\ q' = Append(q, a)
    BY <1>3, ActionsTyped, OtherKinds, Zenon DEF ListenerSubmit
  <2>2. QED
    BY <1>3, <2>1, WaitQuiet, Zenon DEF ListenerSubmit
<1>4. CASE HttpRequestReconcile
  BY <1>4, WaitQuiet, ActionsTyped, OtherKinds, Zenon DEF HttpRequestReconcile, EnqueueReconcile
<1>5. CASE TickerRequestReconcile
  BY <1>5, WaitQuiet, ActionsTyped, OtherKinds, Zenon DEF TickerRequestReconcile, EnqueueReconcile
<1>6. CASE HandlePathEvent
  BY <1>6, WaitQuiet, Zenon DEF HandlePathEvent, Pops
<1>7. CASE HandleControl
  BY <1>7, WaitQuiet, Zenon DEF HandleControl, Pops
<1>8. CASE HandleStageEvent
  BY <1>8, WaitQuiet, Zenon DEF HandleStageEvent, Pops
<1>9. CASE HandleClear
  BY <1>9, WaitQuiet, Zenon DEF HandleClear, Pops
<1>10. CASE ReconcileBegin
  BY <1>10, WaitQuiet, Zenon DEF ReconcileBegin, Pops
<1>11. CASE ReconcileConverged
  BY <1>11, WaitQuiet, Zenon DEF ReconcileConverged, AfterStage
<1>12. CASE ReconcileSkip
  BY <1>12, WaitQuiet, Zenon DEF ReconcileSkip, AfterStage
<1>13. CASE FireNoMemory
  BY <1>13, WaitQuiet, Zenon DEF FireNoMemory, AfterStage
<1>14. CASE TeardownBegin
  <2>1. PastWait
    BY <1>14 DEF TeardownBegin, Pops, WaitInv, TypeOK
  <2>2. QED
    BY <1>14, <2>1, WaitQuiet, Zenon DEF TeardownBegin, Pops
<1>15. CASE TeardownSkip
  <2>1. PastWait
    BY <1>15, Zenon DEF TeardownSkip, WaitInv
  <2>2. QED
    BY <1>15, <2>1, WaitQuiet, Zenon DEF TeardownSkip, TeardownAdvance, AfterStage, PastWait
<1>16. CASE TeardownMark
  <2>1. PastWait
    BY <1>16, Zenon DEF TeardownMark, WaitInv
  <2>2. QED
    BY <1>16, <2>1, WaitQuiet, Zenon DEF TeardownMark, TeardownAdvance, AfterStage, PastWait
<1>17. CASE TeardownStop
  BY <1>17, WaitQuiet, Zenon DEF TeardownStop, WaitInv
<1>18. CASE RunReturns
  BY <1>18, WaitQuiet, Zenon DEF RunReturns, PastWait
<1>19. CASE JoinThreads
  BY <1>19, Zenon DEF JoinThreads, WaitInv, PastWait, WaitGroupExact
<1>20. CASE BeginShutdown
  BY <1>20, Zenon DEF BeginShutdown, LockFree, WaitInv, PastWait, WaitGroupExact
<1>21. CASE WaitForOps
  <2> USE <1>21 DEF WaitForOps
  <2>1. wg = 0
    OBVIOUS
  <2>2. Len(pool) = 0 /\ Cardinality(active) = 0 /\ act # "firing"
    BY <2>1, Counted
  <2>3. pool = <<>> /\ active = {}
    <3>1. pool \in Seq(Job)
      BY Zenon DEF TypeOK
    <3>2. IsFiniteSet(active)
      BY Zenon DEF WaitInv
    <3>3. pool = <<>>
      BY <2>2, <3>1
    <3>4. active = {}
      BY <2>2, <3>2, FS_EmptySet, Zenon
    <3>5. QED
      BY <3>3, <3>4, Zenon
  <2>4. QED
    BY <2>3, Zenon DEF WaitInv, PastWait, WaitGroupExact
<1>22. CASE SubmitTeardown
  <2> USE <1>22 DEF SubmitTeardown
  <2>1. PastWait /\ PastWait'
    BY Zenon DEF PastWait
  <2>2. QED
    BY <2>1, Zenon DEF WaitInv, WaitGroupExact
<1>23. CASE Close
  BY <1>23, Zenon DEF Close, LockFree, WaitInv, PastWait, WaitGroupExact
<1>24. CASE Fire
  <2> USE <1>24 DEF Fire
  <2>1. ~PastWait /\ ~PastWait' /\ main' = main
    BY Zenon DEF WaitInv, PastWait
  <2>2. WaitGroupExact'
    <3>1. /\ wg' = wg + 1 /\ pool' = pool /\ active' = active
          /\ act # "firing" /\ act' = "firing"
      OBVIOUS
    <3>2. QED
      BY <3>1, Counted DEF WaitGroupExact
  <2>3. QED
    BY <2>1, <2>2, Zenon DEF WaitInv
<1>25. CASE FireUndone
  <2> USE <1>25 DEF FireUndone, AfterStage
  <2>1. PastWait' = PastWait
    BY Zenon DEF PastWait
  <2>2. WaitGroupExact'
    <3>1. /\ wg' = WgDone(wg) /\ pool' = pool /\ active' = active
          /\ act = "firing" /\ act' # "firing"
      OBVIOUS
    <3>2. QED
      BY <3>1, Counted DEF WaitGroupExact, WgDone
  <2>3. QED
    BY <2>1, <2>2, Zenon DEF WaitInv
<1>26. CASE FireSubmitted
  <2> USE <1>26 DEF FireSubmitted, AfterStage
  <2>1. ~PastWait /\ ~PastWait'
    BY Zenon DEF WaitInv, PastWait
  <2>2. Len(pool') = Len(pool) + 1
    <3>1. pool \in Seq(Job) /\ pool' \in Seq(Job)
      BY Zenon DEF TypeOK
    <3>2. QED
      BY <3>1
  <2>3. WaitGroupExact'
    <3>1. /\ wg' = wg /\ active' = active
          /\ act = "firing" /\ act' # "firing"
      OBVIOUS
    <3>2. QED
      BY <2>2, <3>1, Counted DEF WaitGroupExact
  <2>4. QED
    BY <2>1, <2>3, Zenon DEF WaitInv
<1>27. CASE WorkerTake
  <2> USE <1>27 DEF WorkerTake
  <2> DEFINE new == OnWorker(Head(pool), "op")
  <2>1. 1 \in DOMAIN pool /\ Head(pool) = pool[1]
    BY DEF TypeOK
  <2>2. new \notin active
    <3>1. \A k \in active : ~SameFire(pool[1], k)
      BY <2>1, Zenon DEF GenInv
    <3>2. QED
      BY <2>1, <3>1, Zenon DEF SameFire, OnWorker
  <2>3. IsFiniteSet(active') /\ Cardinality(active') = Cardinality(active) + 1
    BY <2>2, FS_AddElement, Zenon DEF WaitInv
  <2>4. Len(pool') = Len(pool) - 1 /\ Len(pool) \in Nat
    BY DEF TypeOK
  <2>5. WaitGroupExact'
    <3>1. wg' = wg /\ act' = act
      OBVIOUS
    <3>2. QED
      BY <2>3, <2>4, <3>1, Counted DEF WaitGroupExact
  <2>6. ~PastWait /\ ~PastWait'
    BY Zenon DEF WaitInv, PastWait
  <2>7. QED
    BY <2>3, <2>5, <2>6, Zenon DEF WaitInv
<1>28. ASSUME NEW j \in active, OpReturn(j) PROVE WaitInv'
  <2> USE <1>28 DEF OpReturn
  <2>1. /\ IsFiniteSet(active') /\ Cardinality(active') = Cardinality(active) - 1
        /\ Cardinality(active) \in Nat /\ Cardinality(active') \in Nat
    BY FS_RemoveElement, FS_CardinalityType, Zenon DEF WaitInv
  <2>2. WaitGroupExact'
    <3>1. wg' = WgDone(wg) /\ pool' = pool /\ act' = act
      OBVIOUS
    <3>2. QED
      BY <2>1, <3>1, Counted DEF WaitGroupExact, WgDone
  <2>3. ~PastWait /\ ~PastWait'
    BY Zenon DEF WaitInv, PastWait
  <2>4. QED
    BY <2>1, <2>2, <2>3, Zenon DEF WaitInv
<1>29. ASSUME NEW j \in active, OpDone(j) PROVE WaitInv'
  <2> USE <1>29 DEF OpDone
  <2>1. /\ IsFiniteSet(active') /\ Cardinality(active') = Cardinality(active) - 1
        /\ Cardinality(active) \in Nat /\ Cardinality(active') \in Nat
    BY FS_RemoveElement, FS_CardinalityType, Zenon DEF WaitInv
  <2>2. WaitGroupExact'
    <3>1. wg' = WgDone(wg) /\ pool' = pool /\ act' = act
      OBVIOUS
    <3>2. QED
      BY <2>1, <3>1, Counted DEF WaitGroupExact, WgDone
  <2>3. ~PastWait /\ ~PastWait'
    BY Zenon DEF WaitInv, PastWait
  <2>4. QED
    BY <2>1, <2>2, <2>3, Zenon DEF WaitInv
<1>30. ASSUME NEW j \in active, OpFail(j) PROVE WaitInv'
  <2> USE <1>30 DEF OpFail
  <2> DEFINE new == OnWorker(j, "clear")
  <2>1. new \notin active \ {j}
    BY Zenon DEF GenInv, SameFire, OnWorker
  <2>2. IsFiniteSet(active') /\ Cardinality(active') = Cardinality(active)
    <3>1. /\ IsFiniteSet(active \ {j})
          /\ Cardinality(active \ {j}) = Cardinality(active) - 1
          /\ Cardinality(active) \in Nat
      BY FS_RemoveElement, FS_CardinalityType, Zenon DEF WaitInv
    <3> DEFINE rest == active \ {j}
    <3>2. /\ IsFiniteSet(rest \cup {new})
          /\ Cardinality(rest \cup {new}) = Cardinality(rest) + 1
      <4> HIDE DEF rest
      <4>1. new \notin rest /\ IsFiniteSet(rest)
        BY <2>1, <3>1, Zenon DEF rest
      <4>2. QED
        BY <4>1, FS_AddElement, Zenon
    <3>3. active' = rest \cup {new}
      OBVIOUS
    <3>4. QED
      BY <3>1, <3>2, <3>3
  <2>3. WaitGroupExact'
    BY <2>2, Zenon DEF WaitInv, WaitGroupExact
  <2>4. ~PastWait /\ ~PastWait'
    BY Zenon DEF WaitInv, PastWait
  <2>5. QED
    BY <2>2, <2>3, <2>4, Zenon DEF WaitInv
<1>31. ASSUME NEW j \in active, OpPostClear(j) PROVE WaitInv'
  <2> USE <1>31 DEF OpPostClear
  <2> DEFINE new == OnWorker(j, "done")
  <2>1. new \notin active \ {j}
    BY Zenon DEF GenInv, SameFire, OnWorker
  <2>2. IsFiniteSet(active') /\ Cardinality(active') = Cardinality(active)
    <3>1. /\ IsFiniteSet(active \ {j})
          /\ Cardinality(active \ {j}) = Cardinality(active) - 1
          /\ Cardinality(active) \in Nat
      BY FS_RemoveElement, FS_CardinalityType, Zenon DEF WaitInv
    <3> DEFINE rest == active \ {j}
    <3>2. /\ IsFiniteSet(rest \cup {new})
          /\ Cardinality(rest \cup {new}) = Cardinality(rest) + 1
      <4> HIDE DEF rest
      <4>1. new \notin rest /\ IsFiniteSet(rest)
        BY <2>1, <3>1, Zenon DEF rest
      <4>2. QED
        BY <4>1, FS_AddElement, Zenon
    <3>3. active' = rest \cup {new}
      OBVIOUS
    <3>4. QED
      BY <3>1, <3>2, <3>3
  <2>3. WaitGroupExact'
    BY <2>2, Zenon DEF WaitInv, WaitGroupExact
  <2>4. ~PastWait /\ ~PastWait'
    BY Zenon DEF WaitInv, PastWait
  <2>5. NoNewTeardown
    <3>1. Clear(j.stage, j.gen) \in Action
      BY ActionsTyped, Zenon DEF TypeOK, ActiveJob
    <3>2. QED
      BY <3>1, NoTeardownAdded, OtherKinds, Zenon
  <2>6. QED
    BY <2>2, <2>3, <2>4, <2>5, Zenon DEF WaitInv, NoNewTeardown
<1>32. CASE UNCHANGED vars
  BY <1>32, WaitQuiet, Zenon DEF vars
<1>33. QED
  BY <1>1, <1>2, <1>3, <1>4, <1>5, <1>6, <1>7, <1>8, <1>9, <1>10, <1>11, <1>12, <1>13, <1>14,
     <1>15, <1>16, <1>17, <1>18, <1>19, <1>20, <1>21, <1>22, <1>23, <1>24, <1>25, <1>26, <1>27,
     <1>28, <1>29, <1>30, <1>31, <1>32, Zenon
     DEF Next, Callers, QueueThread, Worker, Shutdown, Terminated

------------------------------------------------------------------------------
IInv == TypeOK /\ GenInv /\ WaitInv

\* The initial state satisfies the inductive invariant.
LEMMA InitIInv == Init => IInv
<1> SUFFICES ASSUME Init PROVE IInv
  OBVIOUS
<1>1. TypeOK
  BY TypeInit, Zenon
<1>2. GenInv
  <2>1. pool = <<>> /\ q = <<>> /\ active = {} /\ GenerationPositive
    BY Zenon DEF Init, GenerationPositive
  <2>2. DOMAIN pool = {} /\ DOMAIN q = {}
    BY <2>1
  <2>3. QED
    BY <2>1, <2>2, Zenon DEF GenInv
<1>3. WaitInv
  BY FS_EmptySet DEF Init, WaitInv, WaitGroupExact, PastWait
<1>4. QED
  BY <1>1, <1>2, <1>3, Zenon DEF IInv

\* Every step keeps it.
LEMMA NextIInv == IInv /\ [Next]_vars => IInv'
<1> SUFFICES ASSUME IInv, [Next]_vars PROVE IInv'
  OBVIOUS
<1>1. TypeOK'
  BY TypeStep, Zenon DEF IInv, GenInv
<1>2. GenInv'
  BY <1>1, GenStep, Zenon DEF IInv
<1>3. WaitInv'
  BY <1>1, WaitStep, Zenon DEF IInv
<1>4. QED
  BY <1>1, <1>2, <1>3, Zenon DEF IInv

\* The inductive invariant holds throughout.
LEMMA Invariance == Spec => []IInv
BY InitIInv, NextIInv, PTL DEF Spec

\* Every variable of the controller keeps its type, and a pass over the stages
\* stays inside the stage array.
THEOREM TypeCorrect == Spec => []TypeOK
BY Invariance, PTL DEF IInv

\* The generations of the fires leave room for one live op only.
LEMMA LiveOpOfInvariant == IInv => OneLiveOp
<1> SUFFICES ASSUME IInv, NEW s \in Stages
             PROVE  /\ \A i, k \in LiveInPool(s) : i = k
                    /\ \A j, k \in LiveOnWorker(s) : j = k
                    /\ LiveInPool(s) = {} \/ LiveOnWorker(s) = {}
  BY Zenon DEF OneLiveOp
<1>1. \A i, k \in LiveInPool(s) : i = k
  <2>1. \A i, k \in DOMAIN pool : SameFire(pool[i], pool[k]) => i = k
    BY Zenon DEF IInv, GenInv
  <2>2. QED
    BY <2>1 DEF LiveInPool, Superseded, SameFire
<1>2. \A j, k \in LiveOnWorker(s) : j = k
  <2>1. \A j, k \in active : SameFire(j, k) => j = k
    BY Zenon DEF IInv, GenInv
  <2>2. QED
    BY <2>1 DEF LiveOnWorker, Superseded, SameFire
<1>3. \A i \in LiveInPool(s), j \in LiveOnWorker(s) : FALSE
  <2>1. \A i \in DOMAIN pool, j \in active : ~SameFire(pool[i], j)
    BY Zenon DEF IInv, GenInv
  <2>2. QED
    BY <2>1, Zenon DEF LiveInPool, LiveOnWorker, Superseded, SameFire
<1>4. QED
  BY <1>1, <1>2, <1>3, Zenon

\* Whatever retries, events, failures and undone fires came before, at most one
\* op of a stage is live; all others find themselves superseded.
THEOREM LiveOpUnique == Spec => []OneLiveOp
BY LiveOpOfInvariant, Invariance, PTL

\* The clear of a failed op never wipes the in-flight marker while the stage
\* has a live op.
THEOREM ClearsHarmless == Spec => ClearFreesNoLiveFire
<1>1. IInv /\ [Next]_vars =>
        [(Pops("clear") /\ q' = Tail(q)) =>
          LET s == Head(q).stage
          IN  in_flight_since'[s] # in_flight_since[s] =>
                 LiveInPool(s) = {} /\ LiveOnWorker(s) = {}]_vars
  <2> SUFFICES ASSUME IInv, [Next]_vars, Pops("clear"), q' = Tail(q),
                      in_flight_since'[Head(q).stage]
                        # in_flight_since[Head(q).stage]
               PROVE  /\ LiveInPool(Head(q).stage) = {}
                      /\ LiveOnWorker(Head(q).stage) = {}
    BY Zenon
  <2>1. op_generation[Head(q).stage] = Head(q).gen
    <3>1. HandleClear
      <4> USE DEF Pops, stageVars, queueVars, opVars, callers
      <4>1. in_flight_since' # in_flight_since /\ act = "idle"
        OBVIOUS
      <4>2. ~(Tick \/ Callers \/ Worker \/ Shutdown \/ Terminated)
        <5>1. ~Tick /\ ~Terminated
          BY <4>1, Zenon DEF Tick, Terminated, vars
        <5>2. ~Callers
          <6>1. ~HttpSubmit /\ ~ListenerSubmit /\ ~JoinThreads
            BY <4>1 DEF HttpSubmit, ListenerSubmit, JoinThreads
          <6>2. ~HttpRequestReconcile /\ ~TickerRequestReconcile
            BY <4>1, Zenon DEF HttpRequestReconcile, TickerRequestReconcile
          <6>3. QED
            BY <6>1, <6>2, Zenon DEF Callers
        <5>3. ~Worker
          BY <4>1, Zenon DEF Worker, WorkerTake, OpReturn, OpFail, OpPostClear, OpDone
        <5>4. ~Shutdown
          BY <4>1, Zenon DEF Shutdown, BeginShutdown, WaitForOps, SubmitTeardown, Close
        <5>5. QED
          BY <5>1, <5>2, <5>3, <5>4, Zenon
      <4>3. ~HandleStageEvent
        BY Zenon DEF HandleStageEvent
      <4>4. ~(ReconcileConverged \/ Fire \/ FireUndone \/ TeardownMark)
        BY <4>1, Zenon DEF ReconcileConverged, Fire, FireUndone, TeardownMark
      <4>5. ~(HandlePathEvent \/ HandleControl \/ ReconcileBegin
              \/ ReconcileSkip \/ FireNoMemory \/ FireSubmitted
              \/ TeardownBegin \/ TeardownSkip \/ TeardownStop \/ RunReturns)
        BY <4>1, Zenon DEF HandlePathEvent, HandleControl, ReconcileBegin, ReconcileSkip,
                           FireNoMemory, FireSubmitted, TeardownBegin, TeardownSkip, TeardownStop,
                           RunReturns
      <4>6. QED
        BY <4>1, <4>2, <4>3, <4>4, <4>5, Zenon DEF Next, QueueThread, vars
    <3>2. QED
      BY <3>1, Zenon DEF HandleClear
  <2>2. 1 \in DOMAIN q /\ q[1] = Head(q) /\ IsClear(q[1])
    BY DEF Pops, IInv, TypeOK, IsClear
  <2>3. \A k \in DOMAIN pool : ~SameFire(Head(q), pool[k])
    BY <2>2, Zenon DEF IInv, GenInv
  <2>4. \A j \in active : j.pc # "done" => ~SameFire(Head(q), j)
    BY <2>2, Zenon DEF IInv, GenInv
  <2>5. LiveInPool(Head(q).stage) = {}
    BY <2>1, <2>3, Zenon DEF LiveInPool, Superseded, SameFire
  <2>6. LiveOnWorker(Head(q).stage) = {}
    BY <2>1, <2>4, Zenon DEF LiveOnWorker, Superseded, SameFire
  <2>7. QED
    BY <2>5, <2>6, Zenon
<1>2. QED
  BY <1>1, Invariance, PTL DEF Spec, ClearFreesNoLiveFire

\* The wait group counts exactly the ops that have not finished.
THEOREM WaitGroupCounts == Spec => []WaitGroupExact
<1>1. IInv => WaitGroupExact
  BY Zenon DEF IInv, WaitInv
<1>2. QED
  BY <1>1, Invariance, PTL

\* After WaitForOps no op runs and none is fired.
THEOREM QuietAfterWait == Spec => []NoOpAfterWait
<1>1. IInv => NoOpAfterWait
  BY Zenon DEF IInv, WaitInv, PastWait, NoOpAfterWait
<1>2. QED
  BY <1>1, Invariance, PTL
------------------------------------------------------------------------------
(* Teardown is final.  A stage could be revived by a report still queued      *)
(* behind the teardown.  There is none: the listener has at most one report   *)
(* queued, it waits for the answer, and main joins it before it begins to     *)
(* shut down.                                                                 *)

None(sq, K) == \A i \in DOMAIN sq : sq[i].kind # K
One(sq, K)  == \A i, k \in DOMAIN sq : sq[i].kind = K /\ sq[k].kind = K => i = k

\* The queue and its waiting callers, and how far the pass of Teardown is.
FinalInv ==
    /\ One(q, "stage") /\ One(q, "teardown")
    /\ listener = "idle" => None(q, "stage")
    /\ main # "serving" => listener = "idle"
    /\ main # "tearing" => None(q, "teardown") /\ act \notin {"teardown", "stopping"}
    /\ act \in {"teardown", "stopping"} =>
          /\ None(q, "teardown")
          /\ \A s \in Stages : s < cursor => actual[s] = "stopped"
    /\ act = "idle" => cursor = 1
    /\ TeardownIsFinal

------------------------------------------------------------------------------
\* What the three moves of a queue do to the actions of a kind: nothing, when
\* an action of another kind is appended or the head is taken.
LEMMA QueueMoves ==
    ASSUME NEW K, NEW sq \in Seq(Action), NEW tq,
           \/ tq = sq
           \/ sq # <<>> /\ tq = Tail(sq)
           \/ \E a \in Action : a.kind # K /\ tq = Append(sq, a)
    PROVE  (None(sq, K) => None(tq, K)) /\ (One(sq, K) => One(tq, K))
<1>1. CASE tq = sq
  BY <1>1, Zenon
<1>2. CASE sq # <<>> /\ tq = Tail(sq)
  <2>1. \A i \in DOMAIN tq : i \in Nat /\ i + 1 \in DOMAIN sq /\ tq[i] = sq[i + 1]
    BY <1>2
  <2>2. QED
    BY <2>1 DEF None, One
<1>3. CASE \E a \in Action : a.kind # K /\ tq = Append(sq, a)
  <2>1. PICK a \in Action : a.kind # K /\ tq = Append(sq, a)
    BY <1>3, Zenon
  <2>2. \A i \in DOMAIN tq : (i \in DOMAIN sq /\ tq[i] = sq[i]) \/ tq[i] = a
    BY <2>1, AppendElements
  <2>3. QED
    BY <2>1, <2>2, Zenon DEF None, One
<1>4. QED
  BY <1>1, <1>2, <1>3, Zenon

\* Taking the only action of a kind leaves none.
LEMMA Taken ==
    ASSUME NEW K, NEW sq \in Seq(Action), sq # <<>>, Head(sq).kind = K, One(sq, K)
    PROVE  None(Tail(sq), K)
<1>1. 1 \in DOMAIN sq /\ sq[1].kind = K
  OBVIOUS
<1>2. \A i \in DOMAIN Tail(sq) : i + 1 \in DOMAIN sq /\ Tail(sq)[i] = sq[i + 1] /\ i + 1 # 1
  OBVIOUS
<1>3. QED
  BY <1>1, <1>2, Zenon DEF None, One

\* The first action of a kind is the only one.
LEMMA Added ==
    ASSUME NEW K, NEW sq \in Seq(Action), None(sq, K), NEW a \in Action
    PROVE  One(Append(sq, a), K)
<1>1. \A i \in DOMAIN Append(sq, a) :
          \/ i \in DOMAIN sq /\ Append(sq, a)[i] = sq[i]
          \/ i = Len(sq) + 1
  OBVIOUS
<1>2. QED
  BY <1>1, Zenon DEF None, One

\* A step that takes no report and no teardown, and touches neither actual nor
\* the pass of a teardown.
LEMMA FinalQuiet ==
    ASSUME TypeOK, FinalInv, UNCHANGED <<actual, listener, main>>,
           \/ UNCHANGED <<act, cursor>>
           \/ /\ act \notin {"teardown", "stopping"} /\ act' \notin {"teardown", "stopping"}
              /\ act' = "idle" => cursor' = 1,
           \/ q' = q
           \/ q # <<>> /\ q' = Tail(q)
           \/ \E a \in Action : a.kind \notin {"stage", "teardown"} /\ q' = Append(q, a)
    PROVE  FinalInv'
<1>1. q \in Seq(Action)
  BY Zenon DEF TypeOK
<1>2. \A K \in {"stage", "teardown"} :
          (None(q, K) => None(q', K)) /\ (One(q, K) => One(q', K))
  BY <1>1, QueueMoves, Zenon
<1>3. /\ None(q, "stage") => None(q', "stage")
      /\ None(q, "teardown") => None(q', "teardown")
      /\ One(q', "stage") /\ One(q', "teardown")
  BY <1>2, Zenon DEF FinalInv
<1>4. TeardownIsFinal'
  BY Zenon DEF FinalInv, TeardownIsFinal
<1>5. /\ act' \in {"teardown", "stopping"} =>
          /\ None(q', "teardown")
          /\ \A s \in Stages : s < cursor' => actual'[s] = "stopped"
      /\ act' = "idle" => cursor' = 1
      /\ main' # "tearing" => None(q', "teardown") /\ act' \notin {"teardown", "stopping"}
  BY <1>3, Zenon DEF FinalInv
<1>6. /\ listener' = "idle" => None(q', "stage")
      /\ main' # "serving" => listener' = "idle"
  BY <1>3, Zenon DEF FinalInv
<1>7. QED
  BY <1>3, <1>4, <1>5, <1>6, Zenon DEF FinalInv

\* The loops over the stages end where they began.
LEMMA LoopEnds ==
    ASSUME cursor \in Stages, Advance, NEW pass, act' = AfterStage(pass)
    PROVE  /\ cursor < NStages => act' = pass /\ cursor' = cursor + 1
           /\ cursor >= NStages => act' = "idle" /\ cursor' = 1 /\ cursor = NStages
  BY ConfigAssumption DEF Advance, AfterStage, Stages

\* A stage of the teardown pass is done: it is recorded stopped.
LEMMA StageTornDown ==
    ASSUME TypeOK, FinalInv, act \in {"teardown", "stopping"},
           TeardownAdvance, UNCHANGED <<q, listener>>,
           \A s \in Stages : actual'[s] = IF s = cursor THEN "stopped" ELSE actual[s]
    PROVE  FinalInv'
<1>0. cursor \in Stages /\ cursor \in Nat /\ NStages \in Nat /\ Stages = 1 .. NStages
  BY ConfigAssumption DEF TypeOK, Stages
<1>1. main = "tearing" /\ None(q, "teardown") /\ listener = "idle"
  BY Zenon DEF FinalInv
<1>2. \A s \in Stages : s <= cursor => actual'[s] = "stopped"
  <2>1. \A s \in Stages : s < cursor => actual[s] = "stopped"
    BY Zenon DEF FinalInv
  <2>2. QED
    BY <1>0, <2>1
<1>3. CASE cursor < NStages
  <2>1. act' = "teardown" /\ cursor' = cursor + 1 /\ main' = main
    BY <1>0, <1>3, LoopEnds, Zenon DEF TeardownAdvance
  <2>2. \A s \in Stages : s < cursor' => actual'[s] = "stopped"
    BY <1>0, <1>2, <2>1
  <2>3. QED
    BY <1>1, <2>1, <2>2, Zenon DEF FinalInv, TeardownIsFinal
<1>4. CASE cursor >= NStages
  <2>1. act' = "idle" /\ cursor' = 1 /\ cursor = NStages /\ main' = "torn"
    BY <1>0, <1>4, LoopEnds DEF TeardownAdvance
  <2>2. \A s \in Stages : actual'[s] = "stopped"
    BY <1>0, <1>2, <2>1
  <2>3. QED
    BY <1>1, <2>1, <2>2, Zenon DEF FinalInv, TeardownIsFinal
<1>5. QED
  BY <1>0, <1>3, <1>4

\* The kinds of the actions the other callers append.
LEMMA Kinds ==
    /\ \A p, st : PathEvent(p, st).kind \notin {"stage", "teardown"}
    /\ \A cmd : Control(cmd).kind \notin {"stage", "teardown"}
    /\ \A s1, g : Clear(s1, g).kind \notin {"stage", "teardown"}
    /\ Reconcile.kind \notin {"stage", "teardown"}
    /\ \A s1, st : StageEvent(s1, st).kind = "stage"
    /\ Teardown.kind = "teardown"
  BY Zenon DEF PathEvent, Control, Clear, Reconcile, StageEvent, Teardown

\* Every step keeps it.
LEMMA FinalStep ==
    ASSUME TypeOK, FinalInv, [Next]_vars
    PROVE  FinalInv'
<1>0. cursor \in Stages /\ q \in Seq(Action)
  BY Zenon DEF TypeOK
<1> USE DEF stageVars, queueVars, opVars, callers
<1>1. CASE Tick \/ UNCHANGED vars
  BY <1>1, FinalQuiet, Zenon DEF Tick, vars
<1>2. CASE HttpSubmit
  <2>1. PICK a \in {PathEvent(p, st) : p \in Paths, st \in PathStatus}
                      \cup {Control(cmd) : cmd \in Commands} :
           q' = Append(q, a)
    BY <1>2 DEF HttpSubmit
  <2>2. a \in Action /\ a.kind \notin {"stage", "teardown"}
    BY ActionsTyped, Kinds
  <2>3. QED
    BY <1>2, <2>1, <2>2, FinalQuiet DEF HttpSubmit
<1>3. CASE ListenerSubmit
  <2>1. PICK s \in Stages, st \in StageState : q' = Append(q, StageEvent(s, st))
    BY <1>3, Zenon DEF ListenerSubmit
  <2>2. /\ main = "serving" /\ listener = "idle" /\ listener' = "blocked"
        /\ UNCHANGED <<main, act, cursor, actual>>
    BY <1>3, Zenon DEF ListenerSubmit
  <2>3. StageEvent(s, st) \in Action /\ StageEvent(s, st).kind = "stage"
    BY ActionsTyped, Kinds, Zenon
  <2>4. One(q', "stage")
    BY <1>0, <2>1, <2>2, <2>3, Added, Zenon DEF FinalInv
  <2>5. One(q', "teardown") /\ None(q', "teardown")
    BY <1>0, <2>1, <2>2, <2>3, QueueMoves, Zenon DEF FinalInv
  <2>6. QED
    BY <2>2, <2>4, <2>5, Zenon DEF FinalInv, TeardownIsFinal
<1>4. CASE HttpRequestReconcile \/ TickerRequestReconcile
  <2>1. q' = q \/ q' = Append(q, Reconcile)
    BY <1>4, Zenon DEF HttpRequestReconcile, TickerRequestReconcile, EnqueueReconcile
  <2>2. UNCHANGED <<actual, listener, main, act, cursor>>
    BY <1>4, Zenon DEF HttpRequestReconcile, TickerRequestReconcile
  <2>3. QED
    BY <2>1, <2>2, FinalQuiet, ActionsTyped, Kinds, Zenon
<1>5. CASE HandlePathEvent \/ HandleControl \/ HandleClear
  BY <1>5, FinalQuiet, Zenon DEF HandlePathEvent, HandleControl, HandleClear, Pops
<1>6. CASE HandleStageEvent
  <2>1. /\ q # <<>> /\ Head(q).kind = "stage" /\ q' = Tail(q)
        /\ act = "idle" /\ UNCHANGED <<act, cursor, main>> /\ listener' = "idle"
    BY <1>6, Zenon DEF HandleStageEvent, Pops
  <2>2. ~None(q, "stage")
    BY <1>0, <2>1 DEF None
  <2>3. main = "serving"
    BY <2>2, Zenon DEF FinalInv, TypeOK
  <2>4. None(q', "stage")
    BY <1>0, <2>1, Taken, Zenon DEF FinalInv
  <2>5. One(q', "stage") /\ One(q', "teardown") /\ None(q', "teardown")
    BY <1>0, <2>1, <2>3, QueueMoves, Zenon DEF FinalInv
  <2>6. QED
    BY <2>1, <2>3, <2>4, <2>5, Zenon DEF FinalInv, TeardownIsFinal
<1>7. CASE ReconcileBegin
  BY <1>7, FinalQuiet, Zenon DEF ReconcileBegin, Pops, FinalInv
<1>8. CASE ReconcileConverged \/ ReconcileSkip \/ FireNoMemory
  <2>1. act = "reconcile" /\ UNCHANGED <<actual, listener, main, q>>
        /\ Advance /\ act' = AfterStage("reconcile")
    BY <1>8, Zenon DEF ReconcileConverged, ReconcileSkip, FireNoMemory
  <2>2. act' = "idle" => cursor' = 1
    BY <2>1, Zenon DEF Advance, AfterStage
  <2>3. act' \in {"reconcile", "idle"}
    BY <2>1, Zenon DEF AfterStage
  <2>4. QED
    BY <2>1, <2>2, <2>3, FinalQuiet, Zenon
<1>9. CASE FireSubmitted \/ FireUndone
  <2>1. act = "firing" /\ UNCHANGED <<actual, listener, main, q>>
        /\ Advance /\ act' = AfterStage("reconcile")
    BY <1>9, Zenon DEF FireSubmitted, FireUndone
  <2>2. act' = "idle" => cursor' = 1
    BY <2>1, Zenon DEF Advance, AfterStage
  <2>3. act' \in {"reconcile", "idle"}
    BY <2>1, Zenon DEF AfterStage
  <2>4. QED
    BY <2>1, <2>2, <2>3, FinalQuiet, Zenon
<1>10. CASE Fire
  BY <1>10, FinalQuiet, Zenon DEF Fire
<1>11. CASE TeardownBegin
  <2>1. /\ q # <<>> /\ Head(q).kind = "teardown" /\ q' = Tail(q)
        /\ act = "idle" /\ act' = "teardown" /\ UNCHANGED <<actual, cursor, main, listener>>
    BY <1>11, Zenon DEF TeardownBegin, Pops
  <2>2. ~None(q, "teardown")
    BY <1>0, <2>1 DEF None
  <2>3. main = "tearing" /\ cursor = 1 /\ None(q, "stage") /\ listener = "idle"
    BY <2>1, <2>2, Zenon DEF FinalInv
  <2>4. None(q', "teardown")
    BY <1>0, <2>1, Taken, Zenon DEF FinalInv
  <2>5. One(q', "stage") /\ One(q', "teardown") /\ None(q', "stage")
    BY <1>0, <2>1, <2>3, QueueMoves, Zenon DEF FinalInv
  <2>6. \A s \in Stages : ~(s < cursor)
    BY <2>3, ConfigAssumption DEF Stages
  <2>7. QED
    BY <2>1, <2>3, <2>4, <2>5, <2>6, Zenon DEF FinalInv, TeardownIsFinal
<1>12. CASE TeardownSkip
  <2>1. actual[cursor] = "stopped"
    BY <1>0, <1>12, Zenon DEF TeardownSkip, TypeOK, StageState
  <2>2. QED
    BY <1>12, <2>1, StageTornDown, Zenon DEF TeardownSkip
<1>13. CASE TeardownStop
  BY <1>13, Zenon DEF TeardownStop, FinalInv, TeardownIsFinal
<1>14. CASE TeardownMark
  <2>1. \A s \in Stages : actual'[s] = IF s = cursor THEN "stopped" ELSE actual[s]
    BY <1>0, <1>14, Zenon DEF TeardownMark, TypeOK
  <2>2. QED
    BY <1>14, <2>1, StageTornDown, Zenon DEF TeardownMark
<1>15. CASE RunReturns
  BY <1>15, Zenon DEF RunReturns, FinalInv, TeardownIsFinal
<1>16. CASE JoinThreads \/ BeginShutdown \/ WaitForOps \/ Close
  BY <1>16, Zenon DEF JoinThreads, BeginShutdown, WaitForOps, Close, FinalInv, TeardownIsFinal
<1>17. CASE SubmitTeardown
  <2>1. /\ main = "waited" /\ main' = "tearing" /\ q' = Append(q, Teardown)
        /\ UNCHANGED <<actual, act, cursor, listener>>
    BY <1>17, Zenon DEF SubmitTeardown
  <2>2. Teardown \in Action /\ Teardown.kind = "teardown"
    BY ActionsTyped, Kinds, Zenon
  <2>3. One(q', "teardown")
    BY <1>0, <2>1, <2>2, Added, Zenon DEF FinalInv
  <2>4. One(q', "stage") /\ None(q', "stage")
    BY <1>0, <2>1, <2>2, QueueMoves, Zenon DEF FinalInv
  <2>5. QED
    BY <2>1, <2>3, <2>4, Zenon DEF FinalInv, TeardownIsFinal
<1>18. CASE WorkerTake
  BY <1>18, FinalQuiet, Zenon DEF WorkerTake
<1>19. ASSUME NEW j \in active, OpReturn(j) \/ OpFail(j) \/ OpDone(j) PROVE FinalInv'
  BY <1>19, FinalQuiet, Zenon DEF OpReturn, OpFail, OpDone
<1>20. ASSUME NEW j \in active, OpPostClear(j) PROVE FinalInv'
  <2>1. q' = q \/ q' = Append(q, Clear(j.stage, j.gen))
    BY <1>20, Zenon DEF OpPostClear
  <2>2. Clear(j.stage, j.gen) \in Action
    BY ActionsTyped, Zenon DEF TypeOK, ActiveJob
  <2>3. UNCHANGED <<actual, listener, main, act, cursor>>
    BY <1>20, Zenon DEF OpPostClear
  <2>4. QED
    BY <2>1, <2>2, <2>3, FinalQuiet, Kinds, Zenon
<1>21. QED
  BY <1>1, <1>2, <1>3, <1>4, <1>5, <1>6, <1>7, <1>8, <1>9, <1>10, <1>11, <1>12, <1>13, <1>14,
     <1>15, <1>16, <1>17, <1>18, <1>19, <1>20, Zenon
     DEF Next, Callers, QueueThread, Worker, Shutdown, Terminated

\* When Teardown has returned every stage is recorded stopped, and stays so
\* until the process ends, for any number of stages.
THEOREM TeardownStays == Spec => []TeardownIsFinal
<1>1. Init => FinalInv
  BY DEF Init, FinalInv, None, One, TeardownIsFinal
<1>2. TypeOK /\ FinalInv /\ [Next]_vars => FinalInv'
  BY FinalStep, Zenon
<1>3. FinalInv => TeardownIsFinal
  BY Zenon DEF FinalInv
<1>4. QED
  BY <1>1, <1>2, <1>3, TypeCorrect, PTL DEF Spec
=============================================================================
