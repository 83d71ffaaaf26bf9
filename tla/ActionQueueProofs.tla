-------------------------- MODULE ActionQueueProofs --------------------------
(***************************************************************************)
(* Safety of the queue monitor for any set of submitters.  The inductive    *)
(* invariant IInv adds to the types that the queue thread is never asleep   *)
(* on work, that every blocked call is held in exactly one place, and that  *)
(* reconcile_queued tells whether a reconcile is queued.  From it follows   *)
(* that every step of the monitor is one of SerialQueue, or none.           *)
(*                                                                         *)
(* The last part is about the controller in Go, whose channel is its queue: *)
(* the state it believes a stage in follows the task.  GoInv adds that the  *)
(* listener has one message under way at a time, its own, and that nobody   *)
(* else sends one of its kind.                                              *)
(***************************************************************************)
EXTENDS ActionQueue, Integers, TLAPS

\* The initial state is well typed.
LEMMA TypeInit == Init => TypeOK
<1> SUFFICES ASSUME Init PROVE TypeOK
  OBVIOUS
<1> USE DEF Init
<1>1. q \in Seq(Action) /\ running \in Action \cup {NoAction}
  OBVIOUS
<1>2. q_closed \in BOOLEAN /\ reconcile_queued \in BOOLEAN
  BY Zenon
<1>3. q_wait \subseteq Submitters \cup {QueueThread}
  OBVIOUS
<1>4. qpc \in {"loop", "running", "exited"}
  OBVIOUS
<1>5. /\ spc \in [Submitters -> {"idle", "blocked", "refused"}]
      /\ reply_done \in [Submitters -> BOOLEAN]
  OBVIOUS
<1>6. QED
  BY <1>1, <1>2, <1>3, <1>4, <1>5 DEF TypeOK

\* Every step keeps the types.
LEMMA TypeStep ==
    ASSUME TypeOK, [Next]_vars
    PROVE  TypeOK'
<1> USE DEF TypeOK, Action
<1>1. ASSUME NEW t \in Submitters, Submit(t) PROVE TypeOK'
  BY <1>1 DEF Submit, EnqueueLocked, Signal
<1>2. ASSUME NEW t \in Submitters, SubmitClosed(t) PROVE TypeOK'
  BY <1>2 DEF SubmitClosed
<1>3. ASSUME NEW t \in Submitters, SubmitReturn(t) PROVE TypeOK'
  BY <1>3 DEF SubmitReturn
<1>4. ASSUME NEW t \in Submitters, SubmitWaitAgain(t) PROVE TypeOK'
  BY <1>4 DEF SubmitWaitAgain
<1>5. CASE RequestReconcile
  BY <1>5 DEF RequestReconcile, EnqueueLocked, Signal
<1>6. CASE PostClear
  BY <1>6 DEF PostClear, EnqueueLocked, Signal
<1>7. CASE Close
  BY <1>7 DEF Close, Broadcast
<1>8. CASE RunSleep
  BY <1>8 DEF RunSleep
<1>9. CASE RunPop
  BY <1>9 DEF RunPop
<1>10. CASE RunExit
  BY <1>10 DEF RunExit
<1>11. CASE RunReply
  BY <1>11, Zenon DEF RunReply, ReplyWake, Broadcast
<1>12. ASSUME NEW x \in q_wait, SpuriousWakeup(x) PROVE TypeOK'
  BY <1>12 DEF SpuriousWakeup
<1>13. CASE UNCHANGED vars
  BY <1>13 DEF vars
<1>14. QED
  BY <1>1, <1>2, <1>3, <1>4, <1>5, <1>6, <1>7, <1>8, <1>9, <1>10, <1>11,
     <1>12, <1>13 DEF Next, QueueThreadStep, Terminated

\* Every variable of the queue monitor keeps its type.
THEOREM TypeCorrect == Spec => []TypeOK
BY TypeInit, TypeStep, PTL DEF Spec

------------------------------------------------------------------------------
\* The control state of the queue thread and of the waiters, which links the
\* wait set to who may be in it.
ControlInv ==
    /\ qpc = "running" <=> running # NoAction
    /\ QueueThread \in q_wait => qpc = "loop"
    /\ \A t \in Submitters : t \in q_wait => spc[t] = "blocked"
    /\ qpc = "exited" => q_closed /\ q = <<>>

\* The inductive invariant: the safety properties support one another.  That
\* a signal reaches the queue thread rests on nobody else being asleep when it
\* is (CallHeldExactlyOnce with ControlInv), which rests on replies waking
\* everybody (NoLostWakeup).
IInv ==
    /\ TypeOK
    /\ ControlInv
    /\ NoLostWakeup
    /\ CallHeldExactlyOnce
    /\ CoalescingExact

\* The action records are told apart by their kind and their owner.
LEMMA ActionsDistinct ==
    /\ Reconcile # Clear /\ Reconcile # NoAction /\ Clear # NoAction
    /\ Reconcile.owner = NoThread /\ Clear.owner = NoThread
    /\ \A t \in Submitters : /\ Call(t) # Reconcile
                              /\ Call(t) # Clear
                              /\ Call(t) # NoAction
                              /\ Call(t).owner = t
                              /\ Call(t).owner # NoThread
    /\ \A t, u \in Submitters : Call(t) = Call(u) => t = u
<1>1. \A t \in Submitters : Call(t).owner = t
  BY DEF Call
<1>2. \A t \in Submitters : Call(t).kind = "call"
  BY DEF Call
<1>3. /\ Reconcile.kind = "reconcile"
      /\ Clear.kind = "clear"
      /\ NoAction.kind = "none"
      /\ Reconcile.owner = NoThread
      /\ Clear.owner = NoThread
  BY DEF Reconcile, Clear, NoAction
<1>4. QED
  BY <1>1, <1>2, <1>3, ThreadAssumption

\* While the queue thread sleeps, nobody else does: the next signal of
\* enqueue_locked can only wake the queue thread.
LEMMA SleepsAlone ==
    ASSUME IInv, QueueThread \in q_wait
    PROVE  q_wait = {QueueThread}
<1>1. q = <<>> /\ running = NoAction
  BY DEF IInv, NoLostWakeup, ControlInv
<1>2. \A t \in Submitters : t \notin q_wait
  BY <1>1, ActionsDistinct
  DEF IInv, ControlInv, NoLostWakeup, CallHeldExactlyOnce
<1>3. QED
  BY <1>2 DEF IInv, TypeOK

\* Where the elements of a queue are after an append ...
LEMMA AppendPlaces ==
    ASSUME NEW s \in Seq(Action), NEW a \in Action
    PROVE  /\ Append(s, a) \in Seq(Action)
           /\ Append(s, a) # <<>>
           /\ DOMAIN s = 1..Len(s)
           /\ DOMAIN Append(s, a) = DOMAIN s \cup {Len(s) + 1}
           /\ Len(s) + 1 \notin DOMAIN s
           /\ \A i \in DOMAIN s : Append(s, a)[i] = s[i]
           /\ Append(s, a)[Len(s) + 1] = a
OBVIOUS

\* ... and after a pop.
LEMMA TailPlaces ==
    ASSUME NEW s \in Seq(Action), s # <<>>
    PROVE  /\ Tail(s) \in Seq(Action)
           /\ Head(s) \in Action
           /\ 1 \in DOMAIN s
           /\ Head(s) = s[1]
           /\ DOMAIN Tail(s) \subseteq Nat
           /\ \A i \in DOMAIN Tail(s) : /\ i + 1 \in DOMAIN s
                                        /\ i + 1 # 1
                                        /\ Tail(s)[i] = s[i + 1]
           /\ \A i \in DOMAIN s : i # 1 => /\ i - 1 \in DOMAIN Tail(s)
                                           /\ Tail(s)[i - 1] = s[i]
OBVIOUS

\* A submit keeps the invariant.
LEMMA SubmitInv ==
    ASSUME IInv, NEW t \in Submitters, Submit(t), TypeOK'
    PROVE  IInv'
<1> USE ActionsDistinct, ThreadAssumption
<1> DEFINE n == Len(q) + 1
<1>1. Call(t) \in Action /\ q \in Seq(Action)
  BY DEF Action, IInv, TypeOK
<1>2. /\ q' = Append(q, Call(t))
      /\ DOMAIN q' = DOMAIN q \cup {n}
      /\ n \notin DOMAIN q
      /\ \A i \in DOMAIN q : q'[i] = q[i]
      /\ q'[n] = Call(t)
      /\ q' # <<>>
  BY <1>1, AppendPlaces DEF Submit, EnqueueLocked
<1>3. QueueThread \notin q_wait'
  BY SleepsAlone DEF Submit, EnqueueLocked, Signal
<1>4. q_wait' \subseteq q_wait \cup {t}
  BY DEF Submit, EnqueueLocked, Signal
<1>5. ControlInv'
  BY <1>3, <1>4 DEF IInv, TypeOK, ControlInv, Submit
<1>6. NoLostWakeup'
  BY <1>3, <1>4 DEF IInv, TypeOK, NoLostWakeup, Submit
<1>7. CallHeldExactlyOnce'
  <2> SUFFICES ASSUME NEW u \in Submitters
               PROVE  LET places == {i \in DOMAIN q' : q'[i] = Call(u)} IN
                      /\ \A i, j \in places : i = j
                      /\ running' = Call(u) => places = {}
                      /\ (spc'[u] = "blocked" /\ ~reply_done'[u])
                            <=> (running' = Call(u) \/ places # {})
    BY DEF CallHeldExactlyOnce
  <2>1. CASE u = t
    <3>1. \A i \in DOMAIN q : q[i] # Call(t)
      BY DEF IInv, CallHeldExactlyOnce, Submit
    <3>2. running # Call(t) /\ running' = running
      BY DEF IInv, CallHeldExactlyOnce, Submit
    <3>3. spc'[t] = "blocked" /\ ~reply_done'[t]
      BY DEF IInv, TypeOK, Submit
    <3>4. QED
      BY <1>2, <2>1, <3>1, <3>2, <3>3
  <2>2. CASE u # t
    <3>1. {i \in DOMAIN q' : q'[i] = Call(u)} = {i \in DOMAIN q : q[i] = Call(u)}
      BY <1>2, <2>2
    <3>2. /\ running' = running
          /\ spc'[u] = spc[u]
          /\ reply_done'[u] = reply_done[u]
      BY <2>2 DEF IInv, TypeOK, Submit
    <3>3. QED
      BY <3>1, <3>2 DEF IInv, CallHeldExactlyOnce
  <2>3. QED
    BY <2>1, <2>2
<1>8. CoalescingExact'
  <2>1. {i \in DOMAIN q' : q'[i] = Reconcile} = {i \in DOMAIN q : q[i] = Reconcile}
    BY <1>2
  <2>2. QED
    BY <2>1 DEF IInv, CoalescingExact, Submit
<1>9. QED
  BY <1>5, <1>6, <1>7, <1>8 DEF IInv

\* Posting a self-allocated action keeps everything but the coalescing flag,
\* which only a reconcile concerns.
LEMMA PostKeeps ==
    ASSUME IInv, NEW a \in {Reconcile, Clear}, EnqueueLocked(a, {}),
           UNCHANGED <<q_closed, running, qpc, spc, reply_done>>, ~q_closed
    PROVE  ControlInv' /\ NoLostWakeup' /\ CallHeldExactlyOnce'
<1> USE ActionsDistinct, ThreadAssumption
<1> DEFINE n == Len(q) + 1
<1>1. a \in Action /\ q \in Seq(Action)
  BY DEF Action, IInv, TypeOK
<1>2. /\ DOMAIN q' = DOMAIN q \cup {n}
      /\ \A i \in DOMAIN q : q'[i] = q[i]
      /\ q'[n] = a
      /\ q' # <<>>
  BY <1>1, AppendPlaces DEF EnqueueLocked
<1>3. QueueThread \notin q_wait' /\ q_wait' \subseteq q_wait
  BY SleepsAlone DEF EnqueueLocked, Signal
<1>4. ControlInv' /\ NoLostWakeup'
  BY <1>3 DEF IInv, ControlInv, NoLostWakeup
<1>5. CallHeldExactlyOnce'
  <2>1. \A u \in Submitters : {i \in DOMAIN q' : q'[i] = Call(u)}
                               = {i \in DOMAIN q : q[i] = Call(u)}
    BY <1>2
  <2>2. QED
    BY <2>1 DEF IInv, CallHeldExactlyOnce
<1>6. QED
  BY <1>4, <1>5

\* A coalesced reconcile request keeps the invariant.
LEMMA RequestReconcileInv ==
    ASSUME IInv, RequestReconcile, TypeOK'
    PROVE  IInv'
<1>1. ControlInv' /\ NoLostWakeup' /\ CallHeldExactlyOnce'
  BY PostKeeps DEF RequestReconcile
<1>2. CoalescingExact'
  <2>1. Reconcile \in Action /\ q \in Seq(Action)
    BY DEF Action, IInv, TypeOK
  <2>2. /\ DOMAIN q' = DOMAIN q \cup {Len(q) + 1}
        /\ \A i \in DOMAIN q : q'[i] = q[i]
        /\ q'[Len(q) + 1] = Reconcile
    BY <2>1, AppendPlaces DEF RequestReconcile, EnqueueLocked
  <2>3. \A i \in DOMAIN q : q[i] # Reconcile
    BY DEF IInv, CoalescingExact, RequestReconcile
  <2>4. {i \in DOMAIN q' : q'[i] = Reconcile} = {Len(q) + 1}
    BY <2>2, <2>3
  <2>5. QED
    BY <2>4 DEF CoalescingExact, RequestReconcile
<1>3. QED
  BY <1>1, <1>2 DEF IInv

\* The clear of a failed op keeps the invariant.
LEMMA PostClearInv ==
    ASSUME IInv, PostClear, TypeOK'
    PROVE  IInv'
<1>1. ControlInv' /\ NoLostWakeup' /\ CallHeldExactlyOnce'
  BY PostKeeps DEF PostClear
<1>2. CoalescingExact'
  <2>1. Clear \in Action /\ q \in Seq(Action)
    BY DEF Action, IInv, TypeOK
  <2>2. /\ DOMAIN q' = DOMAIN q \cup {Len(q) + 1}
        /\ \A i \in DOMAIN q : q'[i] = q[i]
        /\ q'[Len(q) + 1] = Clear
    BY <2>1, AppendPlaces DEF PostClear, EnqueueLocked
  <2>3. {i \in DOMAIN q' : q'[i] = Reconcile} = {i \in DOMAIN q : q[i] = Reconcile}
    BY <2>2, ActionsDistinct
  <2>4. QED
    BY <2>3 DEF IInv, CoalescingExact, PostClear
<1>3. QED
  BY <1>1, <1>2 DEF IInv

\* Popping the head moves it from the queue to run_action.
LEMMA RunPopInv ==
    ASSUME IInv, RunPop, TypeOK'
    PROVE  IInv'
<1> USE ActionsDistinct, ThreadAssumption
<1>1. q \in Seq(Action) /\ q # <<>>
  BY DEF IInv, TypeOK, RunPop
<1>2. /\ running' = q[1]
      /\ running' \in Action
      /\ 1 \in DOMAIN q
      /\ DOMAIN q' \subseteq Nat
      /\ \A i \in DOMAIN q' : i + 1 \in DOMAIN q /\ i + 1 # 1 /\ q'[i] = q[i + 1]
      /\ \A i \in DOMAIN q : i # 1 => i - 1 \in DOMAIN q' /\ q'[i - 1] = q[i]
  BY <1>1, TailPlaces DEF RunPop
<1>3. running = NoAction
  BY DEF IInv, ControlInv, RunPop, AtLoop
<1>4. running' # NoAction
  BY <1>2 DEF Action
<1>5. ControlInv'
  BY <1>4 DEF IInv, ControlInv, RunPop, AtLoop
<1>6. NoLostWakeup'
  BY DEF IInv, NoLostWakeup, RunPop, AtLoop
<1>7. CallHeldExactlyOnce'
  <2> SUFFICES ASSUME NEW u \in Submitters
               PROVE  /\ \A i, j \in DOMAIN q' :
                            q'[i] = Call(u) /\ q'[j] = Call(u) => i = j
                      /\ running' = Call(u) =>
                            \A i \in DOMAIN q' : q'[i] # Call(u)
                      /\ (spc'[u] = "blocked" /\ ~reply_done'[u])
                            <=> (\/ running' = Call(u)
                                 \/ \E i \in DOMAIN q' : q'[i] = Call(u))
    BY DEF CallHeldExactlyOnce
  <2>1. /\ \A i, j \in DOMAIN q : q[i] = Call(u) /\ q[j] = Call(u) => i = j
        /\ (spc[u] = "blocked" /\ ~reply_done[u])
              <=> \E i \in DOMAIN q : q[i] = Call(u)
    BY <1>3 DEF IInv, CallHeldExactlyOnce
  <2>2. \A i, j \in DOMAIN q' : q'[i] = Call(u) /\ q'[j] = Call(u) => i = j
    BY <1>2, <2>1
  <2>3. running' = Call(u) => \A i \in DOMAIN q' : q'[i] # Call(u)
    <3> SUFFICES ASSUME running' = Call(u), NEW i \in DOMAIN q', q'[i] = Call(u)
                 PROVE  FALSE
      OBVIOUS
    <3>1. q[1] = Call(u) /\ q[i + 1] = Call(u) /\ i + 1 \in DOMAIN q
      BY <1>2
    <3>2. i + 1 # 1
      BY <1>2
    <3>3. QED
      BY <1>2, <2>1, <3>1, <3>2, Zenon
  <2>4. (\E i \in DOMAIN q : q[i] = Call(u))
          <=> (\/ running' = Call(u)
               \/ \E i \in DOMAIN q' : q'[i] = Call(u))
    BY <1>2
  <2>5. spc' = spc /\ reply_done' = reply_done
    BY DEF RunPop
  <2>6. QED
    BY <2>1, <2>2, <2>3, <2>4, <2>5
<1>8. CoalescingExact'
  <2>1. /\ \A i, j \in DOMAIN q : q[i] = Reconcile /\ q[j] = Reconcile => i = j
        /\ reconcile_queued <=> \E i \in DOMAIN q : q[i] = Reconcile
    BY DEF IInv, CoalescingExact
  <2>2. reconcile_queued' <=> reconcile_queued /\ q[1] # Reconcile
    BY <1>2, Zenon DEF RunPop
  <2>3. \A i, j \in DOMAIN q' : q'[i] = Reconcile /\ q'[j] = Reconcile => i = j
    BY <1>2, <2>1
  <2>4. reconcile_queued' <=> \E i \in DOMAIN q' : q'[i] = Reconcile
    BY <1>2, <2>1, <2>2
  <2>5. QED
    BY <2>3, <2>4 DEF CoalescingExact
<1>9. QED
  BY <1>5, <1>6, <1>7, <1>8 DEF IInv

\* Answering a call wakes every waiter; a posted action answers nobody.
LEMMA RunReplyInv ==
    ASSUME IInv, RunReply, TypeOK'
    PROVE  IInv'
<1> USE ActionsDistinct, ThreadAssumption
<1>1. running \in Action /\ QueueThread \notin q_wait
  BY DEF IInv, TypeOK, ControlInv, RunReply
<1>2. CASE running.owner = NoThread
  <2>1. \A t \in Submitters : running # Call(t)
    BY <1>2
  <2>2. /\ q_wait' = q_wait /\ reply_done' = reply_done /\ spc' = spc
        /\ q' = q /\ q_closed' = q_closed /\ qpc' = "loop"
        /\ running' = NoAction /\ reconcile_queued' = reconcile_queued
    BY <1>2 DEF RunReply
  <2>3. ControlInv' /\ NoLostWakeup'
    BY <1>1, <2>2 DEF IInv, ControlInv, NoLostWakeup
  <2>4. CallHeldExactlyOnce' /\ CoalescingExact'
    BY <2>1, <2>2 DEF IInv, CallHeldExactlyOnce, CoalescingExact
  <2>5. QED
    BY <2>3, <2>4 DEF IInv
<1>3. CASE running.owner # NoThread
  <2>1. PICK t \in Submitters : running = Call(t)
    BY <1>1, <1>3 DEF Action
  <2>2. /\ q_wait' = {} /\ spc' = spc /\ q' = q /\ q_closed' = q_closed
        /\ qpc' = "loop" /\ running' = NoAction
        /\ reconcile_queued' = reconcile_queued
    BY <1>3 DEF RunReply, ReplyWake, Broadcast
  <2>3. reply_done'[t] /\ \A u \in Submitters : u # t => reply_done'[u] = reply_done[u]
    BY <1>3, <2>1 DEF RunReply, IInv, TypeOK
  <2>4. ControlInv' /\ NoLostWakeup'
    BY <2>2 DEF IInv, ControlInv, NoLostWakeup, RunReply
  <2>5. CoalescingExact'
    BY <2>2 DEF IInv, CoalescingExact
  <2>6. CallHeldExactlyOnce'
    <3>1. \A i \in DOMAIN q : q[i] # Call(t)
      BY <2>1 DEF IInv, CallHeldExactlyOnce
    <3>2. \A u \in Submitters : u # t => running # Call(u)
      BY <2>1
    <3>3. QED
      BY <2>2, <2>3, <3>1, <3>2 DEF IInv, CallHeldExactlyOnce
  <2>7. QED
    BY <2>4, <2>5, <2>6 DEF IInv
<1>4. QED
  BY <1>2, <1>3

\* Every step keeps the inductive invariant.
LEMMA StepKeepsIInv ==
    ASSUME IInv, [Next]_vars
    PROVE  IInv'
<1> USE ThreadAssumption
<1>0. TypeOK'
  BY TypeStep DEF IInv
<1>1. ASSUME NEW t \in Submitters, Submit(t) PROVE IInv'
  BY <1>0, <1>1, SubmitInv
<1>2. ASSUME NEW t \in Submitters, SubmitClosed(t) PROVE IInv'
  BY <1>0, <1>2 DEF SubmitClosed, IInv, TypeOK, ControlInv, NoLostWakeup,
                    CallHeldExactlyOnce, CoalescingExact
<1>3. ASSUME NEW t \in Submitters, SubmitReturn(t) PROVE IInv'
  BY <1>0, <1>3 DEF SubmitReturn, IInv, TypeOK, ControlInv, NoLostWakeup,
                    CallHeldExactlyOnce, CoalescingExact
<1>4. ASSUME NEW t \in Submitters, SubmitWaitAgain(t) PROVE IInv'
  BY <1>0, <1>4 DEF SubmitWaitAgain, IInv, TypeOK, ControlInv, NoLostWakeup,
                    CallHeldExactlyOnce, CoalescingExact
<1>5. CASE RequestReconcile
  BY <1>0, <1>5, RequestReconcileInv
<1>6. CASE PostClear
  BY <1>0, <1>6, PostClearInv
<1>7. CASE Close
  BY <1>0, <1>7 DEF Close, Broadcast, IInv, TypeOK, ControlInv, NoLostWakeup,
                    CallHeldExactlyOnce, CoalescingExact
<1>8. CASE RunSleep
  BY <1>0, <1>8 DEF RunSleep, AtLoop, IInv, TypeOK, ControlInv, NoLostWakeup,
                    CallHeldExactlyOnce, CoalescingExact
<1>9. CASE RunPop
  BY <1>0, <1>9, RunPopInv
<1>10. CASE RunExit
  BY <1>0, <1>10 DEF RunExit, AtLoop, IInv, TypeOK, ControlInv, NoLostWakeup,
                     CallHeldExactlyOnce, CoalescingExact
<1>11. CASE RunReply
  BY <1>0, <1>11, RunReplyInv
<1>12. ASSUME NEW x \in q_wait, SpuriousWakeup(x) PROVE IInv'
  BY <1>0, <1>12 DEF SpuriousWakeup, IInv, TypeOK, ControlInv, NoLostWakeup,
                     CallHeldExactlyOnce, CoalescingExact
<1>13. CASE UNCHANGED vars
  BY <1>0, <1>13 DEF vars, IInv, TypeOK, ControlInv, NoLostWakeup,
                     CallHeldExactlyOnce, CoalescingExact
<1>14. QED
  BY <1>1, <1>2, <1>3, <1>4, <1>5, <1>6, <1>7, <1>8, <1>9, <1>10, <1>11,
     <1>12, <1>13 DEF Next, QueueThreadStep, Terminated

\* The initial state satisfies the inductive invariant.
LEMMA InitIInv == Init => IInv
<1> SUFFICES ASSUME Init PROVE IInv
  OBVIOUS
<1>1. TypeOK
  BY TypeInit
<1>2. ControlInv /\ NoLostWakeup
  BY DEF Init, ControlInv, NoLostWakeup
<1>3. DOMAIN q = {}
  BY DEF Init
<1>4. CallHeldExactlyOnce /\ CoalescingExact
  BY <1>3, ActionsDistinct DEF Init, CallHeldExactlyOnce, CoalescingExact
<1>5. QED
  BY <1>1, <1>2, <1>4 DEF IInv

\* No wake-up of the shared condition variable is lost, for any number of
\* submitters: enqueue_locked may signal where the reply must broadcast.
THEOREM WakeupsNotLost == Spec => []NoLostWakeup
<1>1. IInv => NoLostWakeup
  BY DEF IInv
<1>2. QED
  BY <1>1, InitIInv, StepKeepsIInv, PTL DEF Spec

\* A blocked submit's stack-allocated action is held in exactly one place
\* while it has no reply and nowhere afterwards.
THEOREM CallsHeldOnce == Spec => []CallHeldExactlyOnce
<1>1. IInv => CallHeldExactlyOnce
  BY DEF IInv
<1>2. QED
  BY <1>1, InitIInv, StepKeepsIInv, PTL DEF Spec

\* request_reconcile drops a request only when a queued pass will still see
\* everything that led to the request.
THEOREM CoalescingIsExact == Spec => []CoalescingExact
<1>1. IInv => CoalescingExact
  BY DEF IInv
<1>2. QED
  BY <1>1, InitIInv, StepKeepsIInv, PTL DEF Spec

\* When Run has returned no caller is left without its reply.
THEOREM NobodyStranded == Spec => []NoCallerStranded
<1>1. IInv => NoCallerStranded
  <2> SUFFICES ASSUME IInv, qpc = "exited" PROVE NoCallerStranded
    BY DEF NoCallerStranded
  <2>1. q_closed /\ q = <<>> /\ running = NoAction
    BY DEF IInv, ControlInv, TypeOK
  <2>2. QED
    BY <2>1, ActionsDistinct DEF IInv, CallHeldExactlyOnce, NoCallerStranded
<1>2. QED
  BY <1>1, InitIInv, StepKeepsIInv, PTL DEF Spec
------------------------------------------------------------------------------
\* What the serial queue knows of the callers, as the mapping computes it.
CallOf == [t \in Submitters |->
              IF spc[t] # "blocked" THEN spc[t]
              ELSE IF reply_done[t] THEN "answered" ELSE "pending"]

\* The serial queue's actions are the monitor's.
LEMMA SameActions ==
    /\ Promise!Reconcile = Reconcile /\ Promise!Clear = Clear /\ Promise!NoAction = NoAction
    /\ \A t : Promise!Call(t) = Call(t)
BY Zenon DEF Promise!Reconcile, Promise!Clear, Promise!NoAction, Promise!Call,
             Reconcile, Clear, NoAction, Call

\* A step that only touches the wait set is invisible to the callers.
LEMMA Invisible ==
    ASSUME UNCHANGED <<q, q_closed, running, qpc, spc, reply_done>>
    PROVE  UNCHANGED Promise!vars
BY Zenon DEF Promise!vars

\* An accepted call is pending, a refused one is refused, and an answered one
\* returns.
LEMMA CallSteps ==
    ASSUME TypeOK, NEW t \in Submitters
    PROVE  /\ Submit(t) => Promise!Accept(t)
           /\ SubmitClosed(t) => Promise!Refuse(t)
           /\ SubmitReturn(t) => Promise!Return(t)
<1> USE DEF TypeOK
<1>1. ASSUME Submit(t) PROVE Promise!Accept(t)
  <2>1. CallOf[t] = "idle" /\ CallOf' = [CallOf EXCEPT ![t] = "pending"]
    BY <1>1, Zenon DEF CallOf, Submit
  <2>2. /\ ~q_closed /\ q' = Append(q, Call(t))
        /\ q_closed' = q_closed /\ running' = running /\ qpc' = qpc
    BY <1>1, Zenon DEF Submit, EnqueueLocked
  <2>3. QED
    BY <2>1, <2>2, SameActions DEF CallOf, Promise!Accept
<1>2. ASSUME SubmitClosed(t) PROVE Promise!Refuse(t)
  <2>1. CallOf[t] = "idle" /\ CallOf' = [CallOf EXCEPT ![t] = "refused"]
    BY <1>2, Zenon DEF CallOf, SubmitClosed
  <2>2. QED
    BY <1>2, <2>1 DEF CallOf, Promise!Refuse, SubmitClosed
<1>3. ASSUME SubmitReturn(t) PROVE Promise!Return(t)
  <2>1. CallOf[t] = "answered" /\ CallOf' = [CallOf EXCEPT ![t] = "idle"]
    BY <1>3, Zenon DEF CallOf, SubmitReturn
  <2>2. QED
    BY <1>3, <2>1 DEF CallOf, Promise!Return, SubmitReturn
<1>4. QED
  BY <1>1, <1>2, <1>3, Zenon

\* The end of run_action answers the call it ran and no other.
LEMMA ReplyEnds ==
    ASSUME IInv, RunReply
    PROVE  Promise!End
<1> USE ActionsDistinct
<1>1. running \in Action /\ running # NoAction
  BY DEF IInv, TypeOK, ControlInv, RunReply
<1>2. /\ running' = NoAction /\ q' = q /\ q_closed' = q_closed /\ spc' = spc
      /\ (qpc = "exited") = FALSE /\ (qpc' = "exited") = FALSE
  BY DEF RunReply
<1>3. CallOf' = [t \in Submitters |-> IF running = Call(t) THEN "answered" ELSE CallOf[t]]
  <2>1. CASE running.owner = NoThread
    <3>1. \A t \in Submitters : running # Call(t)
      BY <2>1
    <3>2. reply_done' = reply_done
      BY <2>1 DEF RunReply
    <3>3. QED
      BY <1>2, <3>1, <3>2 DEF CallOf
  <2>2. CASE running.owner # NoThread
    <3>1. PICK u \in Submitters : running = Call(u)
      BY <1>1, <2>2 DEF Action
    <3>2. spc[u] = "blocked"
      BY <3>1 DEF IInv, CallHeldExactlyOnce
    <3>3. reply_done'[u] /\ \A t \in Submitters : t # u => reply_done'[t] = reply_done[t]
      BY <2>2, <3>1 DEF RunReply, IInv, TypeOK
    <3>4. \A t \in Submitters : (running = Call(t)) <=> (t = u)
      BY <3>1
    <3>5. \A t \in Submitters : CallOf'[t] = IF running = Call(t) THEN "answered" ELSE CallOf[t]
      BY <1>2, <3>2, <3>3, <3>4 DEF CallOf
    <3>6. QED
      BY <3>5 DEF CallOf
  <2>3. QED
    BY <2>1, <2>2, Zenon
<1>4. QED
  BY <1>1, <1>2, <1>3, SameActions DEF CallOf, Promise!End

\* Every step of the monitor is one of the serial queue, or invisible to it.
LEMMA StepPromised ==
    ASSUME IInv, [Next]_vars
    PROVE  [Promise!Next]_(Promise!vars)
<1>0. TypeOK
  BY Zenon DEF IInv
<1>1. ASSUME NEW t \in Submitters, Submit(t) \/ SubmitClosed(t) \/ SubmitReturn(t)
      PROVE  Promise!Next
  BY <1>0, <1>1, CallSteps, Zenon DEF Promise!Next
<1>2. ASSUME NEW t \in Submitters, SubmitWaitAgain(t) PROVE UNCHANGED Promise!vars
  BY <1>2, Invisible DEF SubmitWaitAgain
<1>3. CASE RequestReconcile
  <2>1. \A i \in DOMAIN q : q[i] # Reconcile
    BY <1>3 DEF IInv, CoalescingExact, RequestReconcile
  <2>2. Promise!Post(Reconcile)
    BY <1>3, <2>1, SameActions, Zenon DEF RequestReconcile, EnqueueLocked, Promise!Post
  <2>3. QED
    BY <2>2, SameActions, Zenon DEF Promise!Next
<1>4. CASE PostClear
  <2>1. Promise!Post(Clear)
    BY <1>4, SameActions, ActionsDistinct, Zenon DEF PostClear, EnqueueLocked, Promise!Post
  <2>2. QED
    BY <2>1, SameActions, Zenon DEF Promise!Next
<1>5. CASE Close
  <2>1. Promise!Close
    BY <1>5, Zenon DEF Close, Promise!Close
  <2>2. QED
    BY <2>1, Zenon DEF Promise!Next
<1>6. CASE RunSleep
  BY <1>6, Invisible DEF RunSleep
<1>7. CASE RunPop
  <2>1. /\ running = NoAction /\ q # <<>> /\ running' = Head(q) /\ q' = Tail(q)
        /\ qpc # "exited" /\ qpc' # "exited"
    BY <1>7 DEF IInv, ControlInv, RunPop, AtLoop
  <2>2. Promise!Begin
    BY <1>7, <2>1, SameActions DEF RunPop, Promise!Begin
  <2>3. QED
    BY <2>2, Zenon DEF Promise!Next
<1>8. CASE RunExit
  <2>1. running = NoAction /\ qpc # "exited"
    BY <1>8 DEF IInv, ControlInv, RunExit, AtLoop
  <2>2. Promise!Stop
    BY <1>8, <2>1, SameActions DEF RunExit, Promise!Stop
  <2>3. QED
    BY <2>2, Zenon DEF Promise!Next
<1>9. CASE RunReply
  BY <1>9, ReplyEnds, Zenon DEF Promise!Next
<1>10. ASSUME NEW x \in q_wait, SpuriousWakeup(x) PROVE UNCHANGED Promise!vars
  BY <1>10, Invisible DEF SpuriousWakeup
<1>11. CASE UNCHANGED vars
  BY <1>11, Invisible DEF vars
<1>12. QED
  BY <1>1, <1>2, <1>3, <1>4, <1>5, <1>6, <1>7, <1>8, <1>9, <1>10, <1>11, Zenon
     DEF Next, QueueThreadStep, Terminated

\* The monitor with its shared condition variable and its coalescing flag does
\* only what the serial queue may do, for any set of submitters: actions run one
\* at a time in the order they were accepted, each once, a call is answered by
\* the end of its own action and by nothing else, and a closed queue is drained
\* before Run returns (the safety half of ImplementsSerialQueue).
THEOREM MonitorIsSerialQueue == Spec => Promise!Init /\ [][Promise!Next]_(Promise!vars)
<1>1. Init => Promise!Init
  <2>1. ASSUME Init PROVE CallOf = [t \in Submitters |-> "idle"]
    BY <2>1 DEF Init, CallOf
  <2>2. QED
    BY <2>1, SameActions DEF Init, CallOf, Promise!Init
<1>2. QED
  BY <1>1, InitIInv, StepKeepsIInv, StepPromised, PTL DEF Spec

------------------------------------------------------------------------------
\* The Go controller, with the channel that takes the place of the monitor.
CONSTANTS Stages, PathRoutes, CommandRoutes, Clients, Cap, InflightTimeout,
          MaxClock, MaxRequests, MaxTicks, MaxFaults
VARIABLES path, stage, chan, closed, pend, ops, teardown, ctr, events, alive,
          phase, clock, requests, ticks, faults, panicked

GC == INSTANCE GoController

States == {"running", "stopped"}
Names  == Stages \cup States \cup Clients \cup {"", "ready", "notReady"} \cup DOMAIN CommandRoutes
Msgs   == [kind : {"path", "control", "stage", "reconcile", "clear", "remove", "teardown"},
           x : Names, y : Names, from : GC!Senders \cup {"op"}]
Todos  == [todo : Seq(Msgs), await : BOOLEAN]
Runs(x) == x = "running"

GoTypes ==
    /\ "listener" \notin Clients
    /\ DOMAIN stage = Stages
    /\ \A s \in Stages : DOMAIN stage[s] = {"desired", "actual", "since"}
    /\ chan \in Seq(Msgs)
    /\ pend \in [GC!Senders -> Todos]
    /\ ctr \in [Stages -> {"none", "created", "running"}]
    /\ events \in Seq(Stages \X States)
    /\ \A o \in ops : o.s \in Stages /\ "s" \in DOMAIN o

\* Nobody but the listener sends stage messages or under its name, and the
\* teardown is asked for after the signal.
Foreign(m) == m.kind # "stage" /\ m.from # "listener" /\ (phase = "up" => m.kind # "teardown")
OthersSend == \A a \in GC!Senders \ {"listener"} : \A k \in DOMAIN pend[a].todo : Foreign(pend[a].todo[k])

\* The listener sends one message at a time and waits for its reply.
StageMsg(m) == m.kind = "stage" /\ m.from = "listener" /\ m.x \in Stages /\ m.y \in States
ListenerSends ==
    \/ pend["listener"].todo = <<>>
    \/ /\ ~pend["listener"].await
       /\ \E m \in Msgs : StageMsg(m) /\ pend["listener"].todo = <<m>>
Channel ==
    /\ \A k \in DOMAIN chan : StageMsg(chan[k]) \/ Foreign(chan[k])
    /\ \A j, k \in DOMAIN chan : chan[j].kind = "stage" /\ chan[k].kind = "stage" => j = k
    /\ ~pend["listener"].await => \A k \in DOMAIN chan : chan[k].kind # "stage"

\* What the controller will believe of stage s once everything on its way has
\* arrived: the last event says it, or without one the message the listener
\* holds, or the one in the channel, or the belief as it is.
NoEvent(s)   == \A k \in DOMAIN events : events[k][1] # s
NotHeld(s)   == \A k \in DOMAIN pend["listener"].todo : pend["listener"].todo[k].x # s
NotQueued(s) == \A k \in DOMAIN chan : ~(chan[k].kind = "stage" /\ chan[k].x = s)
Faithful(s) ==
    /\ \A k \in DOMAIN events :
          events[k][1] = s /\ (\A j \in DOMAIN events : events[j][1] = s => j <= k)
            => (Runs(events[k][2]) <=> Runs(ctr[s]))
    /\ NoEvent(s) =>
         /\ \A k \in DOMAIN pend["listener"].todo :
               pend["listener"].todo[k].x = s => (Runs(pend["listener"].todo[k].y) <=> Runs(ctr[s]))
         /\ \A k \in DOMAIN chan :
               chan[k].kind = "stage" /\ chan[k].x = s => (Runs(chan[k].y) <=> Runs(ctr[s]))
         /\ NotHeld(s) /\ NotQueued(s) => (Runs(stage[s].actual) <=> Runs(ctr[s]))

GoInv ==
    /\ GoTypes /\ OthersSend /\ ListenerSends /\ Channel
    /\ phase = "up" => teardown = {} /\ \A s \in Stages : Faithful(s)

\* Where the elements of a sequence are after an append and after a pop.
LEMMA AppendAt ==
    ASSUME NEW S, NEW sq \in Seq(S), NEW e \in S
    PROVE  \E n \in Nat : /\ DOMAIN sq = 1 .. n /\ DOMAIN Append(sq, e) = 1 .. n + 1
                          /\ Append(sq, e) \in Seq(S) /\ Append(sq, e)[n + 1] = e
                          /\ \A k \in 1 .. n : Append(sq, e)[k] = sq[k]
<1>1. Len(sq) \in Nat
  OBVIOUS
<1>2. QED
  BY <1>1

LEMMA TailAt ==
    ASSUME NEW S, NEW sq \in Seq(S), sq # <<>>
    PROVE  /\ Tail(sq) \in Seq(S) /\ Head(sq) \in S /\ Head(sq) = sq[1] /\ 1 \in DOMAIN sq
           /\ DOMAIN sq \subseteq Nat
           /\ \A k \in DOMAIN Tail(sq) : k \in Nat /\ k + 1 \in DOMAIN sq /\ k + 1 # 1 /\ Tail(sq)[k] = sq[k + 1]
           /\ \A k \in DOMAIN sq : k # 1 => k - 1 \in DOMAIN Tail(sq) /\ Tail(sq)[k - 1] = sq[k]
           /\ \A j \in DOMAIN Tail(sq), k \in DOMAIN sq : j + 1 = k => j = k - 1
OBVIOUS

\* Operations come and go, a container changes and its task does not.
LEMMA GoQuiet ==
    ASSUME GoInv, stage' = stage, chan' = chan, pend' = pend, events' = events, teardown' = teardown,
           ctr' \in [Stages -> {"none", "created", "running"}],
           \A s \in Stages : Runs(ctr'[s]) <=> Runs(ctr[s]),
           \A o \in ops' : o.s \in Stages /\ "s" \in DOMAIN o,
           phase' = "up" => phase = "up"
    PROVE  GoInv'
<1>1. GoTypes' /\ OthersSend' /\ ListenerSends' /\ Channel'
  BY Zenon DEF GoInv, GoTypes, OthersSend, ListenerSends, Channel, Foreign, StageMsg
<1>2. \A s \in Stages : Faithful(s) => Faithful(s)'
  BY ZenonT(40) DEF Faithful, NoEvent, NotHeld, NotQueued
<1>3. QED
  BY <1>1, <1>2, Zenon DEF GoInv

\* A task starts or ends, and its event is sent.
LEMMA GoEvent ==
    ASSUME GoInv, NEW c \in Stages, NEW v \in {"none", "created", "running"}, NEW st \in States,
           Runs(st) <=> Runs(v), ctr' = [ctr EXCEPT ![c] = v], events' = Append(events, <<c, st>>),
           stage' = stage, chan' = chan, pend' = pend, teardown' = teardown,
           \A o \in ops' : o.s \in Stages /\ "s" \in DOMAIN o,
           phase' = "up" => phase = "up"
    PROVE  GoInv'
<1>1. PICK e \in Stages \X States : e = <<c, st>> /\ e[1] = c /\ e[2] = st
  <2>1. <<c, st>> \in Stages \X States /\ <<c, st>>[1] = c /\ <<c, st>>[2] = st
    OBVIOUS
  <2>2. QED
    BY <2>1, Zenon
<1>2. events \in Seq(Stages \X States) /\ ctr \in [Stages -> {"none", "created", "running"}]
  BY Zenon DEF GoInv, GoTypes
<1>3. PICK n \in Nat : /\ DOMAIN events = 1 .. n /\ DOMAIN events' = 1 .. n + 1
                       /\ events' \in Seq(Stages \X States) /\ events'[n + 1] = e
                       /\ \A k \in 1 .. n : events'[k] = events[k]
  BY <1>1, <1>2, AppendAt
<1>4. ctr' \in [Stages -> {"none", "created", "running"}] /\ ctr'[c] = v
  BY <1>2, ZenonT(40)
<1>5. GoTypes' /\ OthersSend' /\ ListenerSends' /\ Channel'
  BY <1>3, <1>4 DEF GoInv, GoTypes, OthersSend, ListenerSends, Channel, Foreign, StageMsg
<1>6. ASSUME NEW s \in Stages, Faithful(s) PROVE Faithful(s)'
  <2>1. CASE s = c
    <3>1. \A k \in 1 .. n + 1 : (\A j \in 1 .. n + 1 : events'[j][1] = s => j <= k) => k = n + 1
      BY <1>1, <1>3, <2>1
    <3>2. n + 1 \in DOMAIN events' /\ events'[n + 1][1] = s /\ events'[n + 1][2] = st
      BY <1>1, <1>3, <2>1
    <3>3. QED
      BY <1>3, <1>4, <2>1, <3>1, <3>2, Zenon DEF Faithful, NoEvent
  <2>2. CASE s # c
    <3>1. ctr'[s] = ctr[s]
      BY <1>2, <2>2, Zenon
    <3>2. \A k \in DOMAIN events' : events'[k][1] = s => k \in DOMAIN events /\ events'[k] = events[k]
      BY <1>1, <1>3, <2>2, SMTT(30)
    <3>3. \A k \in DOMAIN events : k \in DOMAIN events' /\ events'[k] = events[k]
      BY <1>3
    <3>4. NoEvent(s)' => NoEvent(s)
      BY <3>3, Zenon DEF NoEvent
    <3>5. QED
      BY <1>6, <3>1, <3>2, <3>3, <3>4, Zenon DEF Faithful, NotHeld, NotQueued
  <2>3. QED
    BY <2>1, <2>2, Zenon
<1>7. QED
  BY <1>5, <1>6, Zenon DEF GoInv

\* The senders are told apart.
LEMMA SenderNames ==
    /\ {"http", "ticker", "listener", "main"} \subseteq GC!Senders /\ Clients \subseteq GC!Senders
    /\ "http" # "listener" /\ "ticker" # "listener" /\ "main" # "listener" /\ "op" # "listener"
BY DEF GC!Senders

\* A sender other than the listener has something to send, or nothing more.
LEMMA GoPends ==
    ASSUME GoInv, NEW a \in GC!Senders \ {"listener"}, NEW r \in Todos,
           \A k \in DOMAIN r.todo : Foreign(r.todo[k])',
           pend' = [pend EXCEPT ![a] = r], phase' = "up" => phase = "up"
    PROVE  /\ pend' \in [GC!Senders -> Todos] /\ OthersSend'
           /\ pend'["listener"] = pend["listener"]
<1>1. pend \in [GC!Senders -> Todos] /\ "listener" \in GC!Senders
  BY SenderNames, Zenon DEF GoInv, GoTypes
<1>2. pend' \in [GC!Senders -> Todos] /\ pend'["listener"] = pend["listener"] /\ pend'[a] = r
  BY <1>1, Zenon
<1>3. \A b \in GC!Senders \ {"listener"} : b # a => pend'[b] = pend[b]
  BY <1>1, Zenon
<1>4. \A m : Foreign(m) => Foreign(m)'
  BY Zenon DEF Foreign
<1>5. QED
  BY <1>2, <1>3, <1>4, Zenon DEF GoInv, OthersSend

\* Everything else stays while the senders other than the listener act.
LEMMA GoAsks ==
    ASSUME GoInv, pend' \in [GC!Senders -> Todos], OthersSend', pend'["listener"] = pend["listener"],
           stage' = stage, chan' = chan, events' = events, teardown' = teardown, ctr' = ctr, ops' = ops,
           phase' = "up" => phase = "up"
    PROVE  GoInv'
<1>1. GoTypes' /\ ListenerSends' /\ Channel'
  BY Zenon DEF GoInv, GoTypes, ListenerSends, Channel, Foreign, StageMsg
<1>2. \A s \in Stages : Faithful(s) => Faithful(s)'
  BY Zenon DEF Faithful, NoEvent, NotHeld, NotQueued
<1>3. QED
  BY <1>1, <1>2, Zenon DEF GoInv

\* A message is a record of its type, and one message waits alone.
LEMMA Message ==
    ASSUME NEW kind \in {"path", "control", "stage", "reconcile", "clear", "remove", "teardown"},
           NEW x \in Names, NEW y \in Names, NEW a \in GC!Senders \cup {"op"}
    PROVE  \E m \in Msgs : /\ m = GC!Msg(kind, x, y, a)
                           /\ m.kind = kind /\ m.x = x /\ m.y = y /\ m.from = a
<1>1. GC!Msg(kind, x, y, a) \in Msgs
  BY Zenon DEF GC!Msg, Msgs
<1>2. /\ GC!Msg(kind, x, y, a).kind = kind /\ GC!Msg(kind, x, y, a).x = x
      /\ GC!Msg(kind, x, y, a).y = y /\ GC!Msg(kind, x, y, a).from = a
  BY DEF GC!Msg
<1>3. QED
  BY <1>1, <1>2, Zenon

LEMMA Singleton ==
    ASSUME NEW m \in Msgs, NEW w \in BOOLEAN
    PROVE  \E r \in Todos : /\ r = [todo |-> <<m>>, await |-> w] /\ r.todo = <<m>> /\ r.await = w
                            /\ DOMAIN r.todo = {1} /\ r.todo[1] = m
<1>1. <<m>> \in Seq(Msgs) /\ DOMAIN <<m>> = {1} /\ <<m>>[1] = m
  OBVIOUS
<1>2. [todo |-> <<m>>, await |-> w] \in Todos
  BY <1>1, Zenon DEF Todos
<1>3. [todo |-> <<m>>, await |-> w].todo = <<m>> /\ [todo |-> <<m>>, await |-> w].await = w
  OBVIOUS
<1>4. QED
  BY <1>1, <1>2, <1>3, Zenon

\* A request, a tick, the end of a WebSocket handler and the wait for the
\* operations ask for one message.
LEMMA GoAsk ==
    ASSUME GoInv, NEW a \in GC!Senders \ {"listener"},
           NEW kind \in {"path", "control", "reconcile", "remove", "teardown"}, NEW x \in Names,
           kind = "teardown" => phase' # "up", GC!Ask(a, GC!Msg(kind, x, x, a)),
           stage' = stage, chan' = chan, events' = events, teardown' = teardown, ctr' = ctr, ops' = ops,
           phase' = "up" => phase = "up"
    PROVE  GoInv'
<1>1. PICK m \in Msgs : m = GC!Msg(kind, x, x, a) /\ m.kind = kind /\ m.from = a
  BY Message
<1>2. PICK r \in Todos : /\ r = [todo |-> <<m>>, await |-> FALSE]
                         /\ DOMAIN r.todo = {1} /\ r.todo[1] = m
  BY Singleton, Zenon
<1>3. Foreign(m)'
  BY <1>1 DEF Foreign
<1>4. pend' = [pend EXCEPT ![a] = r]
  BY <1>1, <1>2, Zenon DEF GC!Ask
<1>5. \A k \in DOMAIN r.todo : Foreign(r.todo[k])'
  BY <1>2, <1>3
<1>6. /\ pend' \in [GC!Senders -> Todos] /\ OthersSend'
      /\ pend'["listener"] = pend["listener"]
  BY <1>4, <1>5, GoPends, Zenon
<1>7. QED
  BY <1>6, GoAsks, Zenon

\* The listener takes the next event.
LEMMA GoListen ==
    ASSUME GoInv, GC!Listen
    PROVE  GoInv'
<1>1. /\ pend["listener"] = GC!Idle /\ events # <<>> /\ events' = Tail(events)
      /\ GC!Ask("listener", GC!Msg("stage", Head(events)[1], Head(events)[2], "listener"))
      /\ stage' = stage /\ chan' = chan /\ teardown' = teardown /\ ctr' = ctr /\ ops' = ops
      /\ phase' = phase
  BY Zenon DEF GC!Listen
<1>2. events \in Seq(Stages \X States) /\ pend \in [GC!Senders -> Todos] /\ "listener" \in GC!Senders
  BY SenderNames, Zenon DEF GoInv, GoTypes
<1>3. /\ events' \in Seq(Stages \X States) /\ Head(events) \in Stages \X States
      /\ Head(events) = events[1] /\ 1 \in DOMAIN events /\ DOMAIN events \subseteq Nat
      /\ \A k \in DOMAIN events' : k \in Nat /\ k + 1 \in DOMAIN events /\ k + 1 # 1 /\ events'[k] = events[k + 1]
      /\ \A k \in DOMAIN events : k # 1 => k - 1 \in DOMAIN events' /\ events'[k - 1] = events[k]
  BY <1>1, <1>2, TailAt, ZenonT(40)
<1>4. PICK c \in Stages : \E st \in States : events[1][1] = c /\ events[1][2] = st
  BY <1>3
<1>5. PICK st \in States : events[1][1] = c /\ events[1][2] = st
  BY <1>4, Zenon
<1>6. PICK m \in Msgs : /\ m = GC!Msg("stage", c, st, "listener")
                        /\ m.kind = "stage" /\ m.x = c /\ m.y = st /\ m.from = "listener"
  <2>1. c \in Names /\ st \in Names /\ "listener" \in GC!Senders \cup {"op"}
    BY <1>2, Zenon DEF Names
  <2>2. QED
    BY <2>1, Message
<1>7. PICK r \in Todos : /\ r = [todo |-> <<m>>, await |-> FALSE] /\ r.todo = <<m>> /\ r.await = FALSE
                         /\ DOMAIN r.todo = {1} /\ r.todo[1] = m
  BY Singleton, Zenon
<1>8. pend' = [pend EXCEPT !["listener"] = r]
  <2>1. Head(events)[1] = c /\ Head(events)[2] = st
    BY <1>3, <1>5, Zenon
  <2>2. QED
    BY <1>1, <1>6, <1>7, <2>1, Zenon DEF GC!Ask
<1>9. /\ pend' \in [GC!Senders -> Todos] /\ pend'["listener"] = r
      /\ \A a \in GC!Senders \ {"listener"} : pend'[a] = pend[a]
  BY <1>2, <1>8, Zenon
<1>10. ~pend["listener"].await
  BY <1>1, SMTT(30) DEF GC!Idle
<1>11. GoTypes' /\ OthersSend'
  BY <1>1, <1>3, <1>9 DEF GoInv, GoTypes, OthersSend, Foreign
<1>12. StageMsg(m)
  BY <1>6, Zenon DEF StageMsg
<1>13. ListenerSends' /\ Channel'
  BY <1>1, <1>7, <1>9, <1>10, <1>12, Zenon DEF GoInv, ListenerSends, Channel, Foreign, StageMsg
<1>14. ASSUME NEW s \in Stages, Faithful(s) PROVE Faithful(s)'
  <2>1. NotQueued(s)'
    BY <1>1, <1>10, Zenon DEF GoInv, Channel, NotQueued
  <2>2. ASSUME NEW k \in DOMAIN events', events'[k][1] = s,
               \A j \in DOMAIN events' : events'[j][1] = s => j <= k
        PROVE  Runs(events'[k][2]) <=> Runs(ctr'[s])
    <3>1. k + 1 \in DOMAIN events /\ events[k + 1] = events'[k]
      BY <1>3, Zenon
    <3>2. \A j \in DOMAIN events : events[j][1] = s => j <= k + 1
      <4>1. SUFFICES ASSUME NEW j \in DOMAIN events, events[j][1] = s, j # 1 PROVE j <= k + 1
        BY <1>3, SMTT(30)
      <4>2. j - 1 \in DOMAIN events' /\ events'[j - 1] = events[j]
        BY <1>3, <4>1, Zenon
      <4>3. j - 1 <= k
        BY <2>2, <4>1, <4>2, Zenon
      <4>4. j \in Nat /\ k \in Nat
        BY <1>3, Zenon
      <4>5. QED
        BY <4>3, <4>4, SMTT(30)
    <3>3. QED
      BY <1>1, <1>14, <2>2, <3>1, <3>2, Zenon DEF Faithful
  <2>3. CASE NoEvent(s)'
    <3>1. \A j \in DOMAIN events : events[j][1] = s => j = 1
      BY <1>3, <2>3, ZenonT(40) DEF NoEvent
    <3>2. CASE c = s
      <4>1. \A j \in DOMAIN events : events[j][1] = s => j <= 1
        BY <3>1
      <4>2. Runs(st) <=> Runs(ctr[s])
        BY <1>3, <1>5, <1>14, <3>2, <4>1, Zenon DEF Faithful
      <4>3. \A k \in DOMAIN r.todo : r.todo[k].y = st /\ r.todo[k].x = s
        BY <1>6, <1>7, <3>2
      <4>4. QED
        BY <1>1, <1>7, <1>9, <2>1, <2>2, <4>2, <4>3, SMTT(30) DEF Faithful, NotHeld, NotQueued
    <3>3. CASE c # s
      <4>1. NoEvent(s)
        BY <1>5, <3>1, <3>3, Zenon DEF NoEvent
      <4>2. \A k \in DOMAIN r.todo : r.todo[k].x # s
        BY <1>6, <1>7, <3>3
      <4>3. NotHeld(s)
        <5>1. DOMAIN pend["listener"].todo = {}
          BY <1>1 DEF GC!Idle
        <5>2. QED
          BY <5>1, Zenon DEF NotHeld
      <4>4. NotQueued(s)
        BY <1>1, <2>1, Zenon DEF NotQueued
      <4>5. Runs(stage[s].actual) <=> Runs(ctr[s])
        BY <1>14, <4>1, <4>3, <4>4, Zenon DEF Faithful
      <4>6. QED
        BY <1>1, <1>9, <2>1, <2>2, <4>2, <4>5, Zenon DEF Faithful, NotQueued
    <3>4. QED
      BY <3>2, <3>3, Zenon
  <2>4. CASE ~NoEvent(s)'
    BY <2>2, <2>4, Zenon DEF Faithful
  <2>5. QED
    BY <2>3, <2>4, Zenon
<1>15. QED
  BY <1>1, <1>11, <1>13, <1>14, ZenonT(40) DEF GoInv

\* A message of anybody else is queued.
LEMMA GoQueues ==
    ASSUME GoInv, NEW m \in Msgs, Foreign(m), chan' = Append(chan, m),
           pend' \in [GC!Senders -> Todos], OthersSend', pend'["listener"] = pend["listener"],
           stage' = stage, events' = events, teardown' = teardown, ctr' = ctr, phase' = phase,
           \A o \in ops' : o.s \in Stages /\ "s" \in DOMAIN o
    PROVE  GoInv'
<1>1. PICK n \in Nat : /\ DOMAIN chan = 1 .. n /\ DOMAIN chan' = 1 .. n + 1
                       /\ chan' \in Seq(Msgs) /\ chan'[n + 1] = m
                       /\ \A k \in 1 .. n : chan'[k] = chan[k]
  <2>1. chan \in Seq(Msgs)
    BY Zenon DEF GoInv, GoTypes
  <2>2. QED
    BY <2>1, AppendAt
<1>2. /\ \A k \in DOMAIN chan' : chan'[k].kind = "stage" => k \in DOMAIN chan
      /\ \A k \in DOMAIN chan' : k \in DOMAIN chan \/ chan'[k] = m
      /\ \A k \in DOMAIN chan : k \in DOMAIN chan' /\ chan'[k] = chan[k]
  BY <1>1 DEF Foreign
<1>3. GoTypes' /\ ListenerSends'
  BY <1>1, Zenon DEF GoInv, GoTypes, ListenerSends, StageMsg
<1>4. Channel'
  BY <1>2 DEF GoInv, Channel, Foreign, StageMsg
<1>5. ASSUME NEW s \in Stages, Faithful(s) PROVE Faithful(s)'
  <2>1. NotQueued(s)' => NotQueued(s)
    BY <1>2, Zenon DEF NotQueued
  <2>2. QED
    BY <1>2, <1>5, <2>1, Zenon DEF Faithful, NoEvent, NotHeld
<1>6. QED
  BY <1>3, <1>4, <1>5, ZenonT(40) DEF GoInv

\* The listener's message is queued, and the listener waits for the reply.
LEMMA GoTells ==
    ASSUME GoInv, pend["listener"].todo # <<>>, ~pend["listener"].await,
           chan' = Append(chan, Head(pend["listener"].todo)),
           pend' = [pend EXCEPT !["listener"] = [todo |-> Tail(@.todo), await |-> Head(@.todo).kind # "reconcile"]],
           stage' = stage, events' = events, teardown' = teardown, ctr' = ctr, ops' = ops, phase' = phase
    PROVE  GoInv'
<1>1. PICK m \in Msgs : StageMsg(m) /\ pend["listener"].todo = <<m>>
  BY Zenon DEF GoInv, ListenerSends
<1>2. Head(<<m>>) = m /\ Tail(<<m>>) = <<>> /\ DOMAIN <<m>> = {1} /\ <<m>>[1] = m /\ DOMAIN <<>> = {} /\ <<>> \in Seq(Msgs)
  OBVIOUS
<1>3. m.kind # "reconcile"
  BY <1>1 DEF StageMsg
<1>4. PICK r \in Todos : r = [todo |-> <<>>, await |-> TRUE] /\ r.todo = <<>> /\ r.await = TRUE
  <2>1. [todo |-> <<>>, await |-> TRUE] \in Todos
    BY <1>2, Zenon DEF Todos
  <2>2. [todo |-> <<>>, await |-> TRUE].todo = <<>> /\ [todo |-> <<>>, await |-> TRUE].await = TRUE
    OBVIOUS
  <2>3. QED
    BY <2>1, <2>2, Zenon
<1>5. pend' = [pend EXCEPT !["listener"] = r] /\ chan' = Append(chan, m)
  BY <1>1, <1>2, <1>3, <1>4, Zenon
<1>6. chan \in Seq(Msgs) /\ pend \in [GC!Senders -> Todos] /\ "listener" \in GC!Senders
  BY SenderNames, Zenon DEF GoInv, GoTypes
<1>7. /\ pend' \in [GC!Senders -> Todos] /\ pend'["listener"] = r
      /\ \A a \in GC!Senders \ {"listener"} : pend'[a] = pend[a]
  BY <1>5, <1>6, Zenon
<1>8. PICK n \in Nat : /\ DOMAIN chan = 1 .. n /\ DOMAIN chan' = 1 .. n + 1
                       /\ chan' \in Seq(Msgs) /\ chan'[n + 1] = m
                       /\ \A k \in 1 .. n : chan'[k] = chan[k]
  BY <1>5, <1>6, AppendAt
<1>9. \A k \in DOMAIN chan : chan[k].kind # "stage"
  BY Zenon DEF GoInv, Channel
<1>10. /\ \A k \in DOMAIN chan' : chan'[k].kind = "stage" => k = n + 1
       /\ \A k \in DOMAIN chan' : k = n + 1 \/ (k \in DOMAIN chan /\ chan'[k] = chan[k])
       /\ n + 1 \in DOMAIN chan'
  BY <1>8, <1>9, SMTT(30)
<1>11. GoTypes' /\ OthersSend' /\ ListenerSends'
  <2>1. GoTypes'
    BY <1>7, <1>8, Zenon DEF GoInv, GoTypes
  <2>2. OthersSend'
    BY <1>7, ZenonT(40) DEF GoInv, OthersSend, Foreign
  <2>3. ListenerSends'
    BY <1>2, <1>4, <1>7, Zenon DEF ListenerSends
  <2>4. QED
    BY <2>1, <2>2, <2>3, Zenon
<1>12. Channel'
  BY <1>1, <1>4, <1>7, <1>8, <1>10, SMTT(30) DEF GoInv, Channel, Foreign, StageMsg
<1>13. ASSUME NEW s \in Stages, Faithful(s) PROVE Faithful(s)'
  <2>1. NoEvent(s)' <=> NoEvent(s)
    BY Zenon DEF NoEvent
  <2>2. 1 \in DOMAIN pend["listener"].todo /\ \A k \in DOMAIN pend["listener"].todo : pend["listener"].todo[k] = m
    BY <1>1, <1>2
  <2>3. DOMAIN pend'["listener"].todo = {}
    BY <1>2, <1>4, <1>7, Zenon
  <2>4. chan'[n + 1].kind = "stage"
    BY <1>1, <1>8, Zenon DEF StageMsg
  <2>5. NotQueued(s)' => m.x # s
    BY <1>8, <1>10, <2>4, Zenon DEF NotQueued
  <2>6. m.x # s => NotHeld(s) /\ NotQueued(s)
    BY <1>9, <2>2, ZenonT(40) DEF NotHeld, NotQueued
  <2>7. NoEvent(s) => \A k \in DOMAIN chan' : chan'[k].kind = "stage" /\ chan'[k].x = s
                         => (Runs(chan'[k].y) <=> Runs(ctr[s]))
    BY <1>8, <1>10, <1>13, <2>2, SMTT(30) DEF Faithful
  <2>8. QED
    BY <1>13, <2>1, <2>3, <2>5, <2>6, <2>7, Zenon DEF Faithful
<1>14. QED
  BY <1>11, <1>12, <1>13, Zenon DEF GoInv

\* A blocked or a willing sender gets its message into the channel, or panics on
\* a closed one.
LEMMA GoSend ==
    ASSUME GoInv, NEW a \in GC!Senders, GC!Send(a)
    PROVE  GoInv'
<1>0. /\ stage' = stage /\ events' = events /\ teardown' = teardown /\ ctr' = ctr /\ ops' = ops
      /\ phase' = phase /\ pend[a].todo # <<>> /\ ~pend[a].await
  BY DEF GC!Send
<1>1. CASE closed
  <2>1. chan' = chan /\ pend' = pend
    BY <1>1 DEF GC!Send
  <2>2. QED
    BY <1>0, <2>1, GoQuiet, Zenon DEF GoInv, GoTypes
<1>2. CASE ~closed /\ a = "listener"
  <2>1. /\ chan' = Append(chan, Head(pend["listener"].todo))
        /\ pend' = [pend EXCEPT !["listener"] = [todo |-> Tail(@.todo), await |-> Head(@.todo).kind # "reconcile"]]
    BY <1>2, Zenon DEF GC!Send
  <2>2. QED
    BY <1>0, <1>2, <2>1, GoTells, Zenon
<1>3. CASE ~closed /\ a # "listener"
  <2>1. PICK sq \in Seq(Msgs) : sq = pend[a].todo
    BY Zenon DEF GoInv, GoTypes, Todos
  <2>2. /\ Tail(sq) \in Seq(Msgs) /\ Head(sq) \in Msgs /\ Head(sq) = sq[1] /\ 1 \in DOMAIN sq
        /\ \A k \in DOMAIN Tail(sq) : k + 1 \in DOMAIN sq /\ Tail(sq)[k] = sq[k + 1]
    BY <1>0, <2>1, TailAt, SMTT(30)
  <2>3. \A k \in DOMAIN sq : Foreign(sq[k])
    BY <1>3, <2>1, Zenon DEF GoInv, OthersSend
  <2>4. PICK r \in Todos : r = [todo |-> Tail(sq), await |-> Head(sq).kind # "reconcile"] /\ r.todo = Tail(sq)
    <3>1. [todo |-> Tail(sq), await |-> Head(sq).kind # "reconcile"] \in Todos
      BY <2>2, Zenon DEF Todos
    <3>2. [todo |-> Tail(sq), await |-> Head(sq).kind # "reconcile"].todo = Tail(sq)
      OBVIOUS
    <3>3. QED
      BY <3>1, <3>2, Zenon
  <2>5. pend' = [pend EXCEPT ![a] = r] /\ chan' = Append(chan, Head(sq))
    BY <1>3, <2>1, <2>4, Zenon DEF GC!Send
  <2>6. \A k \in DOMAIN r.todo : Foreign(r.todo[k])'
    BY <1>0, <2>2, <2>3, <2>4, Zenon DEF Foreign
  <2>7. /\ pend' \in [GC!Senders -> Todos] /\ OthersSend'
        /\ pend'["listener"] = pend["listener"]
    BY <1>0, <1>3, <2>5, <2>6, GoPends, Zenon
  <2>8. Foreign(Head(sq))
    BY <2>2, <2>3, Zenon
  <2>9. QED
    BY <1>0, <2>2, <2>5, <2>7, <2>8, GoQueues, Zenon DEF GoInv, GoTypes
<1>4. QED
  BY <1>1, <1>2, <1>3, Zenon

\* A message that is not about a stage leaves every belief as it is.
LEMMA BeliefKept ==
    ASSUME GoTypes, NEW m \in Msgs, m.kind # "stage", m = Head(chan), GC!Run
    PROVE  /\ DOMAIN stage' = Stages
           /\ \A s \in Stages : /\ DOMAIN stage'[s] = {"desired", "actual", "since"}
                                /\ stage'[s].actual = stage[s].actual
           /\ \A o \in ops' : o.s \in Stages /\ "s" \in DOMAIN o
<1> USE DEF GoTypes
<1>1. CASE m.kind = "reconcile"
  <2>1. GC!handleReconcile
    BY <1>1, Zenon DEF GC!Run
  <2>2. stage' = [s \in Stages |->
                   IF stage[s].desired = stage[s].actual THEN [stage[s] EXCEPT !.since = GC!Zero]
                   ELSE IF GC!Fires(s) THEN [stage[s] EXCEPT !.since = clock] ELSE stage[s]]
    BY <2>1, Zenon DEF GC!handleReconcile
  <2>3. \A o \in ops' : o \in ops \/ \E s \in Stages :
            o = [s |-> s, target |-> stage[s].desired, pc |-> "stop", deadline |-> clock + InflightTimeout,
                 id |-> GC!NewId]
    BY <2>1, Zenon DEF GC!handleReconcile
  <2>4. \A o \in ops' : o.s \in Stages /\ "s" \in DOMAIN o
    BY <2>3
  <2>5. QED
    BY <2>2, <2>4
<1>2. CASE m.kind # "reconcile"
  <2>1. ops' = ops
    BY <1>2, Zenon DEF GC!Run
  <2>2. stage' = CASE m.kind = "path"    -> GC!handlePathEvent(m.x)[1]
                   [] m.kind = "control" -> GC!handleControl(m.x)[1]
                   [] m.kind = "stage"   -> GC!handleStageEvent(m.x, m.y)
                   [] m.kind = "clear"   -> [stage EXCEPT ![m.x].since = GC!Zero]
                   [] OTHER              -> stage
    BY <1>2, Zenon DEF GC!Run
  <2>3. ASSUME NEW g, NEW p
        PROVE  \/ GC!applyDesiredStageTarget(g, p)[1] = stage
               \/ GC!applyDesiredStageTarget(g, p)[1] = [stage EXCEPT ![g.stage].desired = g.state]
    BY DEF GC!applyDesiredStageTarget
  <2>4. \/ stage' = stage
        \/ \E g : stage' = [stage EXCEPT ![g.stage].desired = g.state]
        \/ stage' = [stage EXCEPT ![m.x].since = GC!Zero]
    <3>1. CASE m.kind = "path"
      <4>1. stage' = GC!handlePathEvent(m.x)[1]
        BY <2>2, <3>1
      <4>2. CASE m.x \in DOMAIN PathRoutes
        <5>1. PICK g : g = PathRoutes[m.x]
          OBVIOUS
        <5>2. stage' = GC!applyDesiredStageTarget(g, m.x)[1]
          BY <4>1, <4>2, <5>1, Zenon DEF GC!handlePathEvent
        <5>3. stage' = stage \/ stage' = [stage EXCEPT ![g.stage].desired = g.state]
          BY <2>3, <5>2, Zenon
        <5>4. QED
          BY <5>3, Zenon
      <4>3. CASE m.x \notin DOMAIN PathRoutes
        BY <4>1, <4>3, SMTT(30) DEF GC!handlePathEvent
      <4>4. QED
        BY <4>2, <4>3, Zenon
    <3>2. CASE m.kind = "control"
      <4>1. stage' = GC!handleControl(m.x)[1]
        BY <2>2, <3>2
      <4>2. PICK g : g = CommandRoutes[m.x]
        OBVIOUS
      <4>3. stage' = GC!applyDesiredStageTarget(g, path)[1]
        BY <4>1, <4>2, Zenon DEF GC!handleControl
      <4>4. stage' = stage \/ stage' = [stage EXCEPT ![g.stage].desired = g.state]
        BY <2>3, <4>3, Zenon
      <4>5. QED
        BY <4>4, Zenon
    <3>3. CASE m.kind = "clear"
      BY <2>2, <3>3, SMTT(30)
    <3>4. CASE m.kind \notin {"path", "control", "clear"}
      BY <2>2, <3>4, Zenon
    <3>5. QED
      BY <3>1, <3>2, <3>3, <3>4, Zenon
  <2>5. CASE stage' = stage
    BY <2>1, <2>5
  <2>6. CASE \E g : stage' = [stage EXCEPT ![g.stage].desired = g.state]
    BY <2>1, <2>6, SMTT(30)
  <2>7. CASE stage' = [stage EXCEPT ![m.x].since = GC!Zero]
    BY <2>1, <2>7
  <2>8. QED
    BY <2>4, <2>5, <2>6, <2>7, Zenon
<1>3. QED
  BY <1>1, <1>2, Zenon

\* The channel after its head was taken.
LEMMA ChannelTail ==
    ASSUME GoInv, chan # <<>>, chan' = Tail(chan), phase' = phase, pend'["listener"] = pend["listener"],
           Foreign(Head(chan))
    PROVE  /\ chan' \in Seq(Msgs) /\ Channel'
           /\ \A s : NotQueued(s)' <=> NotQueued(s)
           /\ \A k \in DOMAIN chan' : \E j \in DOMAIN chan : chan'[k] = chan[j]
<1>1. chan \in Seq(Msgs)
  BY Zenon DEF GoInv, GoTypes
<1>2. /\ chan' \in Seq(Msgs) /\ Head(chan) = chan[1]
      /\ \A k \in DOMAIN chan' : k \in Nat /\ k + 1 \in DOMAIN chan /\ chan'[k] = chan[k + 1]
      /\ \A k \in DOMAIN chan : k # 1 => k - 1 \in DOMAIN chan' /\ chan'[k - 1] = chan[k]
  BY <1>1, TailAt, Zenon
<1>3. \A k \in DOMAIN chan : chan[k].kind = "stage" => k # 1
  BY <1>2, Zenon DEF Foreign
<1>4. \A j, k \in DOMAIN chan' : chan'[j].kind = "stage" /\ chan'[k].kind = "stage" => j = k
  <2>1. SUFFICES ASSUME NEW j \in DOMAIN chan', NEW k \in DOMAIN chan',
                        chan'[j].kind = "stage", chan'[k].kind = "stage"
                 PROVE  j = k
    BY Zenon
  <2>2. j + 1 = k + 1
    BY <1>2, <2>1 DEF GoInv, Channel
  <2>3. j \in Nat /\ k \in Nat
    BY <1>2, Zenon
  <2>4. QED
    BY <2>2, <2>3
<1>5. Channel'
  <2>1. \A k \in DOMAIN chan' : \E j \in DOMAIN chan : chan'[k] = chan[j]
    BY <1>2, Zenon
  <2>2. \A k \in DOMAIN chan : StageMsg(chan[k]) \/ Foreign(chan[k])
    BY Zenon DEF GoInv, Channel
  <2>3. \A k \in DOMAIN chan' : StageMsg(chan'[k]) \/ Foreign(chan'[k])
    BY <2>1, <2>2, Zenon
  <2>4. \A k \in DOMAIN chan' : (StageMsg(chan[k]) \/ Foreign(chan[k]))'
    BY <2>3, Zenon DEF StageMsg, Foreign
  <2>5. ~pend["listener"].await => \A k \in DOMAIN chan : chan[k].kind # "stage"
    BY Zenon DEF GoInv, Channel
  <2>6. ~pend'["listener"].await => \A k \in DOMAIN chan' : chan'[k].kind # "stage"
    BY <2>1, <2>5, Zenon
  <2>7. QED
    BY <1>4, <2>4, <2>6, Zenon DEF Channel
<1>6. \A s : NotQueued(s)' <=> NotQueued(s)
  <2>1. ASSUME NEW s, NotQueued(s) PROVE NotQueued(s)'
    <3>1. ASSUME NEW k \in DOMAIN chan' PROVE ~(chan'[k].kind = "stage" /\ chan'[k].x = s)
      <4>1. PICK j \in DOMAIN chan : chan'[k] = chan[j]
        BY <1>2, Zenon
      <4>2. QED
        BY <2>1, <4>1, Zenon DEF NotQueued
    <3>2. QED
      BY <3>1, Zenon DEF NotQueued
  <2>2. ASSUME NEW s, NotQueued(s)' PROVE NotQueued(s)
    <3>1. ASSUME NEW k \in DOMAIN chan, chan[k].kind = "stage" PROVE chan[k].x # s
      <4>1. PICK j \in DOMAIN chan' : chan'[j] = chan[k]
        BY <1>2, <1>3, <3>1, Zenon
      <4>2. QED
        BY <2>2, <3>1, <4>1, Zenon DEF NotQueued
    <3>2. QED
      BY <3>1, Zenon DEF NotQueued
  <2>3. QED
    BY <2>1, <2>2, Zenon
<1>7. QED
  BY <1>2, <1>5, <1>6, Zenon

\* The reply to somebody other than the listener.
LEMMA GoReplies ==
    ASSUME GoInv, NEW m \in Msgs, Foreign(m), NEW ok, GC!Reply(m, ok), phase' = phase
    PROVE  /\ pend' \in [GC!Senders -> Todos] /\ OthersSend'
           /\ pend'["listener"] = pend["listener"]
<1>1. CASE pend' = pend
  BY <1>1, Zenon DEF GoInv, GoTypes, OthersSend, Foreign
<1>2. CASE pend' # pend
  <2>1. m.from \in GC!Senders \ {"listener"}
    BY <1>2, Zenon DEF GC!Reply, Foreign
  <2>2. "" \in Names /\ "reconcile" # "stage" /\ "reconcile" # "teardown"
    BY Zenon DEF Names
  <2>3. PICK e \in Msgs : e = GC!Msg("reconcile", "", "", m.from) /\ e.kind = "reconcile" /\ e.from = m.from
    <3>1. PICK a \in GC!Senders \cup {"op"} : a = m.from
      BY <2>1, Zenon
    <3>2. "reconcile" \in {"path", "control", "stage", "reconcile", "clear", "remove", "teardown"}
      OBVIOUS
    <3>3. PICK x \in Names : x = ""
      BY <2>2, Zenon
    <3>4. \E e \in Msgs : e = GC!Msg("reconcile", x, x, a) /\ e.kind = "reconcile" /\ e.from = a
      BY <3>2, Message
    <3>5. QED
      BY <3>1, <3>3, <3>4, Zenon
  <2>4. PICK r \in Todos : /\ pend' = [pend EXCEPT ![m.from] = r]
                           /\ \A k \in DOMAIN r.todo : r.todo[k] = e
    <3>1. CASE ok /\ m.kind \in {"path", "control"}
      <4>1. PICK r \in Todos : /\ r = [todo |-> <<e>>, await |-> FALSE]
                               /\ DOMAIN r.todo = {1} /\ r.todo[1] = e
        BY Singleton, Zenon
      <4>2. pend' = [pend EXCEPT ![m.from] = r]
        BY <1>2, <2>3, <3>1, <4>1, Zenon DEF GC!Reply
      <4>3. QED
        BY <4>1, <4>2, Zenon
    <3>2. CASE ~(ok /\ m.kind \in {"path", "control"})
      <4>1. PICK r \in Todos : r = [todo |-> <<>>, await |-> FALSE] /\ DOMAIN r.todo = {}
        <5>1. <<>> \in Seq(Msgs) /\ DOMAIN <<>> = {}
          OBVIOUS
        <5>2. [todo |-> <<>>, await |-> FALSE] \in Todos /\ [todo |-> <<>>, await |-> FALSE].todo = <<>>
          BY <5>1 DEF Todos
        <5>3. QED
          BY <5>1, <5>2, Zenon
      <4>2. pend' = [pend EXCEPT ![m.from] = r]
        BY <1>2, <3>2, <4>1, Zenon DEF GC!Reply
      <4>3. QED
        BY <4>1, <4>2, Zenon
    <3>3. QED
      BY <3>1, <3>2, Zenon
  <2>5. Foreign(e)'
    BY <2>1, <2>2, <2>3, Zenon DEF Foreign
  <2>6. \A k \in DOMAIN r.todo : Foreign(r.todo[k])'
    BY <2>4, <2>5, Zenon
  <2>7. QED
    BY <2>1, <2>4, <2>6, GoPends, Zenon
<1>3. QED
  BY <1>1, <1>2, Zenon

\* The controller runs an action that is not a stage event.
LEMMA GoRunOther ==
    ASSUME GoInv, GC!Run, Foreign(Head(chan))
    PROVE  GoInv'
<1>1. /\ chan # <<>> /\ chan' = Tail(chan) /\ teardown = {}
      /\ ctr' = ctr /\ events' = events /\ phase' = phase
  BY DEF GC!Run
<1>2. chan \in Seq(Msgs)
  BY Zenon DEF GoInv, GoTypes
<1>3. PICK m \in Msgs : m = Head(chan)
  BY <1>1, <1>2, TailAt, Zenon
<1>4. Foreign(m) /\ m.kind # "stage"
  BY <1>3, Zenon DEF Foreign
<1>5. /\ DOMAIN stage' = Stages
      /\ \A s \in Stages : /\ DOMAIN stage'[s] = {"desired", "actual", "since"}
                           /\ stage'[s].actual = stage[s].actual
      /\ \A o \in ops' : o.s \in Stages /\ "s" \in DOMAIN o
  BY <1>3, <1>4, BeliefKept, Zenon DEF GoInv
<1>6. \/ pend' = pend /\ m.kind = "teardown"
      \/ (\E ok : GC!Reply(m, ok)) /\ teardown' = teardown
  BY <1>3, Zenon DEF GC!Run
<1>7. /\ pend' \in [GC!Senders -> Todos] /\ OthersSend'
      /\ pend'["listener"] = pend["listener"]
  <2>1. CASE pend' = pend
    BY <1>1, <2>1, Zenon DEF GoInv, GoTypes, OthersSend, Foreign
  <2>2. CASE \E ok : GC!Reply(m, ok)
    BY <1>1, <1>4, <2>2, GoReplies, Zenon
  <2>3. QED
    BY <1>6, <2>1, <2>2, Zenon
<1>8. phase' = "up" => teardown' = {}
  BY <1>1, <1>4, <1>6, Zenon DEF Foreign
<1>9. /\ chan' \in Seq(Msgs) /\ Channel'
      /\ \A s : NotQueued(s)' <=> NotQueued(s)
      /\ \A k \in DOMAIN chan' : \E j \in DOMAIN chan : chan'[k] = chan[j]
  BY <1>1, <1>7, ChannelTail, Zenon
<1>10. GoTypes' /\ ListenerSends'
  BY <1>1, <1>5, <1>7, <1>9, Zenon DEF GoInv, GoTypes, ListenerSends, StageMsg
<1>11. ASSUME NEW s \in Stages, Faithful(s) PROVE Faithful(s)'
  BY <1>1, <1>5, <1>7, <1>9, <1>11, ZenonT(40) DEF Faithful, NoEvent, NotHeld
<1>12. QED
  BY <1>1, <1>7, <1>8, <1>9, <1>10, <1>11, Zenon DEF GoInv

\* The controller runs a stage event.
LEMMA GoRunStage ==
    ASSUME GoInv, GC!Run, StageMsg(Head(chan))
    PROVE  GoInv'
<1>1. /\ chan # <<>> /\ chan' = Tail(chan) /\ teardown = {}
      /\ ctr' = ctr /\ events' = events /\ phase' = phase
  BY DEF GC!Run
<1>2. chan \in Seq(Msgs) /\ pend \in [GC!Senders -> Todos] /\ "listener" \in GC!Senders
  BY SenderNames, Zenon DEF GoInv, GoTypes
<1>3. /\ chan' \in Seq(Msgs) /\ Head(chan) \in Msgs /\ Head(chan) = chan[1] /\ 1 \in DOMAIN chan
      /\ \A k \in DOMAIN chan' : k + 1 \in DOMAIN chan /\ k + 1 # 1 /\ chan'[k] = chan[k + 1]
  BY <1>1, <1>2, TailAt, Zenon
<1>4. PICK m \in Msgs : m = Head(chan) /\ m = chan[1]
  BY <1>3, Zenon
<1>5. m.kind = "stage" /\ m.from = "listener" /\ m.x \in Stages /\ m.y \in States
  BY <1>4, Zenon DEF StageMsg
<1>6. PICK r \in Todos : /\ r = [todo |-> <<>>, await |-> FALSE] /\ r.todo = <<>> /\ ~r.await
                         /\ DOMAIN r.todo = {}
  <2>1. <<>> \in Seq(Msgs) /\ DOMAIN <<>> = {}
    OBVIOUS
  <2>2. /\ [todo |-> <<>>, await |-> FALSE] \in Todos
        /\ [todo |-> <<>>, await |-> FALSE].todo = <<>> /\ ~[todo |-> <<>>, await |-> FALSE].await
    BY <2>1 DEF Todos
  <2>3. QED
    BY <2>1, <2>2, Zenon
<1>7. /\ stage' = GC!handleStageEvent(m.x, m.y) /\ ops' = ops /\ teardown' = teardown
      /\ pend' = [pend EXCEPT !["listener"] = r]
  <2>1. "stage" # "reconcile" /\ "stage" # "teardown" /\ "stage" \notin {"path", "control"}
        /\ "stage" # "path" /\ "stage" # "control"
    OBVIOUS
  <2>2. ops' = ops /\ teardown' = teardown /\ \E ok : GC!Reply(m, ok)
    BY <1>4, <1>5, <2>1, Zenon DEF GC!Run
  <2>3. stage' = CASE m.kind = "path"    -> GC!handlePathEvent(m.x)[1]
                   [] m.kind = "control" -> GC!handleControl(m.x)[1]
                   [] m.kind = "stage"   -> GC!handleStageEvent(m.x, m.y)
                   [] m.kind = "clear"   -> [stage EXCEPT ![m.x].since = GC!Zero]
                   [] OTHER              -> stage
    BY <1>4, <1>5, <2>1, Zenon DEF GC!Run
  <2>4. stage' = GC!handleStageEvent(m.x, m.y)
    BY <1>5, <2>3
  <2>5. pend' = [pend EXCEPT !["listener"] = r]
    BY <1>2, <1>5, <1>6, <2>1, <2>2, Zenon DEF GC!Reply
  <2>6. QED
    BY <2>2, <2>4, <2>5, Zenon
<1>8. /\ DOMAIN stage' = Stages
      /\ \A s \in Stages : /\ DOMAIN stage'[s] = {"desired", "actual", "since"}
                           /\ stage'[s].actual = IF s = m.x THEN m.y ELSE stage[s].actual
  BY <1>7 DEF GC!handleStageEvent, GoInv, GoTypes
<1>9. /\ pend' \in [GC!Senders -> Todos] /\ pend'["listener"] = r
      /\ \A a \in GC!Senders \ {"listener"} : pend'[a] = pend[a]
  BY <1>2, <1>7, Zenon
<1>10. \A k \in DOMAIN chan' : chan'[k].kind # "stage"
  BY <1>3, <1>4, <1>5, ZenonT(40) DEF GoInv, Channel
<1>11. GoTypes' /\ OthersSend'
  <2>1. GoTypes'
    <3>1. DOMAIN stage' = Stages /\ \A s \in Stages : DOMAIN stage'[s] = {"desired", "actual", "since"}
      BY <1>8, Zenon
    <3>2. QED
      BY <1>1, <1>3, <1>7, <1>9, <3>1, ZenonT(40) DEF GoInv, GoTypes
  <2>2. OthersSend'
    BY <1>1, <1>9, ZenonT(40) DEF GoInv, OthersSend, Foreign
  <2>3. QED
    BY <2>1, <2>2, Zenon
<1>12. ListenerSends' /\ Channel'
  <2>1. ListenerSends'
    BY <1>6, <1>9, Zenon DEF ListenerSends
  <2>2. \A k \in DOMAIN chan : StageMsg(chan[k]) \/ Foreign(chan[k])
    BY Zenon DEF GoInv, Channel
  <2>3. \A k \in DOMAIN chan' : StageMsg(chan'[k]) \/ Foreign(chan'[k])
    <3>1. \A k \in DOMAIN chan' : \E j \in DOMAIN chan : chan'[k] = chan[j]
      BY <1>3, Zenon
    <3>2. QED
      BY <2>2, <3>1, Zenon
  <2>4. \A k \in DOMAIN chan' : (StageMsg(chan[k]) \/ Foreign(chan[k]))'
    BY <1>1, <2>3, Zenon DEF StageMsg, Foreign
  <2>5. Channel'
    BY <1>10, <2>4, Zenon DEF Channel
  <2>6. QED
    BY <2>1, <2>5, Zenon
<1>13. ASSUME NEW s \in Stages, Faithful(s) PROVE Faithful(s)'
  <2>1. pend["listener"].todo = <<>>
    BY <1>3, <1>4, <1>5, Zenon DEF GoInv, Channel, ListenerSends
  <2>2. NotHeld(s)
    <3>1. DOMAIN pend["listener"].todo = {}
      BY <2>1
    <3>2. QED
      BY <3>1, Zenon DEF NotHeld
  <2>3. s # m.x => NotQueued(s)
    BY <1>3, <1>4, <1>5, Zenon DEF GoInv, Channel, NotQueued
  <2>4. NoEvent(s) => (Runs(stage'[s].actual) <=> Runs(ctr[s]))
    <3>1. CASE s = m.x
      BY <1>3, <1>4, <1>5, <1>8, <1>13, <3>1, Zenon DEF Faithful
    <3>2. CASE s # m.x
      BY <1>8, <1>13, <2>2, <2>3, <3>2, Zenon DEF Faithful
    <3>3. QED
      BY <3>1, <3>2, Zenon
  <2>5. QED
    BY <1>1, <1>6, <1>9, <1>10, <1>13, <2>4, Zenon DEF Faithful, NoEvent
<1>14. QED
  BY <1>1, <1>7, <1>11, <1>12, <1>13, Zenon DEF GoInv

\* An operation that goes on is for the same stage.
LEMMA GoOps ==
    ASSUME GoInv, NEW o \in ops, NEW l, GC!Step(o, l)
    PROVE  /\ \A x \in ops' : x.s \in Stages /\ "s" \in DOMAIN x
           /\ o.s \in Stages
<1>1. \A x \in ops : x.s \in Stages /\ "s" \in DOMAIN x
  BY Zenon DEF GoInv, GoTypes
<1>2. [o EXCEPT !.pc = l].s = o.s /\ "s" \in DOMAIN [o EXCEPT !.pc = l]
  BY <1>1
<1>3. \A x \in ops' : x \in ops \/ x = [o EXCEPT !.pc = l]
  BY Zenon DEF GC!Step
<1>4. QED
  BY <1>1, <1>2, <1>3, Zenon

\* The steps of an operation.
LEMMA GoOp ==
    ASSUME GoInv, NEW o \in ops, GC!Op(o)
    PROVE  GoInv'
<1>0. ctr \in [Stages -> {"none", "created", "running"}]
  BY Zenon DEF GoInv, GoTypes
<1>1. ASSUME GC!SameOp PROVE stage' = stage /\ chan' = chan /\ pend' = pend /\ teardown' = teardown /\ phase' = phase
  BY <1>1 DEF GC!SameOp
<1>2. "none" \in {"none", "created", "running"} /\ "created" \in {"none", "created", "running"}
      /\ "running" \in {"none", "created", "running"} /\ "stopped" \in States /\ "running" \in States
      /\ ~Runs("none") /\ ~Runs("created") /\ ~Runs("stopped") /\ Runs("running")
  BY DEF States, Runs
<1>3. ASSUME GC!OpStop(o) PROVE GoInv'
  <2>1. /\ \A x \in ops' : x.s \in Stages /\ "s" \in DOMAIN x
        /\ o.s \in Stages
    BY <1>3, GoOps, Zenon DEF GC!OpStop
  <2>2. CASE ctr[o.s] = "running"
    BY <1>1, <1>2, <1>3, <2>1, <2>2, GoEvent, Zenon DEF GC!OpStop, GC!Emit
  <2>3. CASE ctr[o.s] # "running"
    <3>1. /\ ctr' \in [Stages -> {"none", "created", "running"}]
          /\ \A s \in Stages : Runs(ctr'[s]) <=> Runs(ctr[s])
      BY <1>0, <1>2, <1>3, <2>1, <2>3, Zenon DEF GC!OpStop, Runs
    <3>2. QED
      BY <1>1, <1>3, <2>1, <2>3, <3>1, GoQuiet, Zenon DEF GC!OpStop
  <2>4. QED
    BY <2>2, <2>3, Zenon
<1>4. ASSUME GC!OpCreate(o) PROVE GoInv'
  <2>1. /\ \A x \in ops' : x.s \in Stages /\ "s" \in DOMAIN x
        /\ o.s \in Stages
    BY <1>4, GoOps, Zenon DEF GC!OpCreate
  <2>2. /\ ctr' \in [Stages -> {"none", "created", "running"}]
        /\ \A s \in Stages : Runs(ctr'[s]) <=> Runs(ctr[s])
    BY <1>0, <1>2, <1>4, <2>1, Zenon DEF GC!OpCreate
  <2>3. events' = events
    BY <1>4 DEF GC!OpCreate
  <2>4. GC!SameOp
    BY <1>4, Zenon DEF GC!OpCreate
  <2>5. QED
    BY <1>1, <2>1, <2>2, <2>3, <2>4, GoQuiet, Zenon
<1>5. ASSUME GC!OpTask(o) PROVE GoInv'
  <2>1. /\ \A x \in ops' : x.s \in Stages /\ "s" \in DOMAIN x
        /\ o.s \in Stages
    BY <1>5, GoOps, Zenon DEF GC!OpTask
  <2>2. CASE ctr[o.s] = "created"
    BY <1>1, <1>2, <1>5, <2>1, <2>2, GoEvent, Zenon DEF GC!OpTask, GC!Emit
  <2>3. CASE ctr[o.s] # "created"
    <3>1. ctr' = ctr /\ events' = events
      BY <1>5, <2>3 DEF GC!OpTask
    <3>2. QED
      BY <1>0, <1>1, <1>5, <2>1, <3>1, GoQuiet, Zenon DEF GC!OpTask
  <2>4. QED
    BY <2>2, <2>3, Zenon
<1>6. ASSUME GC!OpFails(o) PROVE GoInv'
  <2>1. /\ \A x \in ops' : x.s \in Stages /\ "s" \in DOMAIN x
        /\ o.s \in Stages
    BY <1>6, GoOps, Zenon DEF GC!OpFails
  <2>2. GC!SameOp
    BY <1>6, Zenon DEF GC!OpFails
  <2>3. CASE ctr' = ctr /\ events' = events
    BY <1>0, <1>1, <2>1, <2>2, <2>3, GoQuiet, Zenon
  <2>4. CASE ctr' = [ctr EXCEPT ![o.s] = "created"] /\ GC!Emit(o.s, "stopped")
    BY <1>1, <1>2, <2>1, <2>2, <2>4, GoEvent, Zenon DEF GC!Emit
  <2>5. QED
    BY <1>6, <2>3, <2>4 DEF GC!OpFails
<1>7. ASSUME GC!OpClears(o) PROVE GoInv'
  <2>1. /\ stage' = stage /\ pend' = pend /\ teardown' = teardown /\ ctr' = ctr /\ events' = events
        /\ phase' = phase
    BY <1>7 DEF GC!OpClears
  <2>2. CASE closed
    <3>1. chan' = chan /\ ops' = ops
      BY <1>7, <2>2 DEF GC!OpClears
    <3>2. QED
      BY <2>1, <3>1, GoQuiet, Zenon DEF GoInv, GoTypes
  <2>3. CASE ~closed
    <3>1. chan' = Append(chan, GC!Msg("clear", o.s, o.s, "op")) /\ GC!Step(o, "done")
      BY <1>7, <2>3, Zenon DEF GC!OpClears
    <3>2. /\ \A x \in ops' : x.s \in Stages /\ "s" \in DOMAIN x
          /\ o.s \in Stages
      BY <3>1, GoOps, Zenon
    <3>3. o.s \in Names /\ "op" \in GC!Senders \cup {"op"} /\ "op" # "listener" /\ "clear" # "stage"
          /\ "clear" # "teardown"
      BY <3>2, Zenon DEF Names
    <3>4. PICK m \in Msgs : m = GC!Msg("clear", o.s, o.s, "op") /\ m.kind = "clear" /\ m.from = "op"
      BY <3>3, Message
    <3>5. Foreign(m)
      BY <3>3, <3>4, Zenon DEF Foreign
    <3>6. pend' \in [GC!Senders -> Todos] /\ OthersSend'
      BY <2>1, ZenonT(40) DEF GoInv, GoTypes, OthersSend, Foreign
    <3>7. QED
      BY <2>1, <3>1, <3>2, <3>4, <3>5, <3>6, GoQueues, Zenon
  <2>4. QED
    BY <2>2, <2>3, Zenon
<1>8. QED
  BY <1>3, <1>4, <1>5, <1>6, <1>7, Zenon DEF GC!Op

\* The teardown of one stage, after the signal.
LEMMA GoTeardown ==
    ASSUME GoInv, NEW s \in Stages, GC!Teardown(s)
    PROVE  GoInv'
<1>1. /\ s \in teardown /\ chan' = chan /\ ops' = ops /\ phase' = phase
      /\ stage' = [stage EXCEPT ![s] = [desired |-> "stopped", actual |-> "stopped", since |-> GC!Zero]]
      /\ pend' = IF teardown = {s} THEN [pend EXCEPT !["main"] = GC!Idle] ELSE pend
  BY DEF GC!Teardown
<1>2. phase # "up"
  BY <1>1, Zenon DEF GoInv
<1>3. DOMAIN stage' = Stages /\ \A x \in Stages : DOMAIN stage'[x] = {"desired", "actual", "since"}
  BY <1>1 DEF GoInv, GoTypes
<1>4. /\ ctr' \in [Stages -> {"none", "created", "running"}]
      /\ events' \in Seq(Stages \X States)
  <2>1. ctr \in [Stages -> {"none", "created", "running"}] /\ events \in Seq(Stages \X States)
    BY Zenon DEF GoInv, GoTypes
  <2>2. <<s, "stopped">> \in Stages \X States
    BY DEF States
  <2>3. Append(events, <<s, "stopped">>) \in Seq(Stages \X States)
    BY <2>1, <2>2
  <2>4. QED
    BY <2>1, <2>3, Zenon DEF GC!Teardown
<1>5. PICK r \in Todos : r = GC!Idle /\ DOMAIN r.todo = {}
  <2>1. <<>> \in Seq(Msgs) /\ DOMAIN <<>> = {}
    OBVIOUS
  <2>2. GC!Idle \in Todos /\ GC!Idle.todo = <<>>
    BY <2>1 DEF Todos, GC!Idle
  <2>3. QED
    BY <2>1, <2>2, Zenon
<1>6. /\ pend' \in [GC!Senders -> Todos] /\ OthersSend'
      /\ pend'["listener"] = pend["listener"]
  <2>1. CASE pend' = pend
    BY <1>1, <2>1, Zenon DEF GoInv, GoTypes, OthersSend, Foreign
  <2>2. CASE pend' = [pend EXCEPT !["main"] = r]
    <3>1. "main" \in GC!Senders \ {"listener"}
      BY SenderNames
    <3>2. QED
      BY <1>1, <1>5, <2>2, <3>1, GoPends, Zenon
  <2>3. QED
    BY <1>1, <1>5, <2>1, <2>2, Zenon
<1>7. GoTypes' /\ ListenerSends' /\ Channel'
  BY <1>1, <1>3, <1>4, <1>6, Zenon DEF GoInv, GoTypes, ListenerSends, Channel, Foreign, StageMsg
<1>8. QED
  BY <1>1, <1>2, <1>6, <1>7, Zenon DEF GoInv

\* main's steps: the signal, the joins, the wait for the operations, the close.
LEMMA GoMain ==
    ASSUME GoInv, GC!Main
    PROVE  GoInv'
<1>1. /\ stage' = stage /\ chan' = chan /\ events' = events /\ teardown' = teardown /\ ctr' = ctr /\ ops' = ops
      /\ phase' # "up"
  BY Zenon DEF GC!Main, GC!Signal, GC!Shutdown, GC!JoinLoops, GC!WaitForOps, GC!Close, GC!Exit, GC!Rest
<1>2. CASE pend' = pend
  BY <1>1, <1>2, GoQuiet, Zenon DEF GoInv, GoTypes
<1>3. CASE GC!WaitForOps
  <2>1. "" \in Names /\ "main" \in GC!Senders \ {"listener"}
    BY SenderNames DEF Names
  <2>2. GC!Ask("main", GC!Msg("teardown", "", "", "main"))
    BY <1>3, Zenon DEF GC!WaitForOps
  <2>3. QED
    BY <1>1, <2>1, <2>2, GoAsk, Zenon
<1>4. QED
  BY <1>2, <1>3, SMTT(30) DEF GC!Main, GC!Signal, GC!Shutdown, GC!JoinLoops, GC!Close, GC!Exit

\* Requests, ticks and the ends of the WebSocket handlers.
LEMMA GoRequests ==
    ASSUME GoInv, GC!postJSON \/ GC!Tick \/ \E w \in Clients : GC!Unsubscribe(w)
    PROVE  GoInv'
<1>1. ASSUME GC!postJSON PROVE GoInv'
  <2>1. /\ stage' = stage /\ chan' = chan /\ events' = events /\ teardown' = teardown /\ ctr' = ctr /\ ops' = ops
        /\ phase' = phase
    BY <1>1 DEF GC!postJSON
  <2>2. "ready" \in Names /\ "notReady" \in Names /\ DOMAIN CommandRoutes \subseteq Names
        /\ "http" \in GC!Senders \ {"listener"} /\ "path" # "teardown" /\ "control" # "teardown"
    BY SenderNames, Zenon DEF Names
  <2>3. \/ \E x \in Names : GC!Ask("http", GC!Msg("path", x, x, "http"))
        \/ \E x \in Names : GC!Ask("http", GC!Msg("control", x, x, "http"))
    BY <1>1, <2>2, Zenon DEF GC!postJSON
  <2>4. QED
    BY <2>1, <2>2, <2>3, GoAsk, Zenon
<1>2. ASSUME GC!Tick PROVE GoInv'
  <2>1. /\ stage' = stage /\ chan' = chan /\ events' = events /\ teardown' = teardown /\ ctr' = ctr /\ ops' = ops
        /\ phase' = phase
    BY <1>2, Zenon DEF GC!Tick
  <2>2. "" \in Names /\ "ticker" \in GC!Senders \ {"listener"} /\ "reconcile" # "teardown"
    BY SenderNames DEF Names
  <2>3. pend' = pend \/ GC!Ask("ticker", GC!Msg("reconcile", "", "", "ticker"))
    BY <1>2, Zenon DEF GC!Tick
  <2>4. CASE pend' = pend
    BY <2>1, <2>4, GoQuiet, Zenon DEF GoInv, GoTypes
  <2>5. QED
    BY <2>1, <2>2, <2>3, <2>4, GoAsk, Zenon
<1>3. ASSUME NEW w \in Clients, GC!Unsubscribe(w) PROVE GoInv'
  <2>1. /\ stage' = stage /\ chan' = chan /\ events' = events /\ teardown' = teardown /\ ctr' = ctr /\ ops' = ops
        /\ phase' = phase
    BY <1>3, SMTT(30) DEF GC!Unsubscribe
  <2>2. w \in Names /\ w \in GC!Senders \ {"listener"} /\ "remove" # "teardown"
    BY SenderNames, Zenon DEF Names, GoInv, GoTypes
  <2>3. GC!Ask(w, GC!Msg("remove", w, w, w))
    BY <1>3, Zenon DEF GC!Unsubscribe
  <2>4. QED
    BY <2>1, <2>2, <2>3, GoAsk, Zenon
<1>4. QED
  BY <1>1, <1>2, <1>3, Zenon

\* Every step keeps the invariant.
LEMMA GoStep ==
    ASSUME GoInv, [GC!Next]_(GC!vars)
    PROVE  GoInv'
<1>1. ASSUME GC!Run PROVE GoInv'
  <2>1. chan # <<>> /\ chan \in Seq(Msgs)
    BY <1>1, ZenonT(40) DEF GC!Run, GoInv, GoTypes
  <2>2. StageMsg(Head(chan)) \/ Foreign(Head(chan))
    <3>1. Head(chan) = chan[1] /\ 1 \in DOMAIN chan
      BY <2>1, TailAt, ZenonT(40)
    <3>2. QED
      BY <3>1, Zenon DEF GoInv, Channel
  <2>3. QED
    BY <1>1, <2>2, GoRunStage, GoRunOther, Zenon
<1>2. ASSUME NEW s \in Stages, GC!TaskDies(s) PROVE GoInv'
  <2>1. /\ ctr' = [ctr EXCEPT ![s] = "created"] /\ events' = Append(events, <<s, "stopped">>)
        /\ stage' = stage /\ chan' = chan /\ pend' = pend /\ teardown' = teardown /\ ops' = ops /\ phase' = phase
    BY <1>2 DEF GC!TaskDies, GC!Emit, GC!SameOp
  <2>2. "created" \in {"none", "created", "running"} /\ "stopped" \in States
        /\ (Runs("stopped") <=> Runs("created"))
    BY DEF States, Runs
  <2>3. QED
    BY <2>1, <2>2, GoEvent, Zenon DEF GoInv, GoTypes
<1>3. ASSUME GC!ListenerEnds \/ GC!Clock \/ UNCHANGED GC!vars PROVE GoInv'
  <2>1. /\ stage' = stage /\ chan' = chan /\ pend' = pend /\ events' = events /\ teardown' = teardown
        /\ ctr' = ctr /\ ops' = ops /\ phase' = phase
    BY <1>3 DEF GC!ListenerEnds, GC!Clock, GC!vars
  <2>2. QED
    BY <2>1, GoQuiet, Zenon DEF GoInv, GoTypes
<1>4. QED
  BY <1>1, <1>2, <1>3, GoSend, GoRequests, GoListen, GoTeardown, GoOp, GoMain, Zenon DEF GC!Next

\* In the Go controller what is believed of a stage is the state of its task, up
\* to the events still on their way, for any stages, routes, clients, channel
\* size and timeouts: no event is lost, repeated or overtaken between containerd,
\* the listener and the channel, whoever else sends to it (Run, handleStageEvent
\* and the listener of controller.go and main.go); BeliefFollows of the Go part.
THEOREM GoBeliefFollows == "listener" \notin Clients /\ GC!Spec => []GC!BeliefFollows
<1>1. "listener" \notin Clients /\ GC!Init => GoInv
  <2>0. SUFFICES ASSUME "listener" \notin Clients, GC!Init PROVE GoInv
    BY Zenon
  <2>1. <<>> \in Seq(Msgs) /\ <<>> \in Seq(Stages \X States) /\ DOMAIN <<>> = {}
    OBVIOUS
  <2>2. GC!Idle \in Todos /\ GC!Idle.todo = <<>> /\ ~GC!Idle.await
    BY <2>1 DEF Todos, GC!Idle
  <2>3. /\ chan = <<>> /\ events = <<>> /\ ops = {} /\ teardown = {}
        /\ ctr = [s \in Stages |-> "none"] /\ pend = [a \in GC!Senders |-> GC!Idle]
        /\ stage = [s \in Stages |-> [desired |-> "stopped", actual |-> "stopped", since |-> GC!Zero]]
    BY <2>0 DEF GC!Init
  <2>4. pend["listener"] = GC!Idle /\ \A a \in GC!Senders : pend[a] = GC!Idle
    BY <2>3, SenderNames, SMTT(30)
  <2>5. pend \in [GC!Senders -> Todos] /\ ctr \in [Stages -> {"none", "created", "running"}]
    BY <2>2, <2>3, SMTT(30)
  <2>6. /\ DOMAIN stage = Stages
        /\ \A s \in Stages : /\ DOMAIN stage[s] = {"desired", "actual", "since"}
                             /\ stage[s].actual = "stopped" /\ ctr[s] = "none"
    BY <2>3
  <2>7. GoTypes /\ OthersSend /\ ListenerSends /\ Channel
    BY <2>0, <2>1, <2>2, <2>3, <2>4, <2>5, <2>6, Zenon DEF GoTypes, OthersSend, ListenerSends, Channel
  <2>8. \A s \in Stages : Runs(stage[s].actual) <=> Runs(ctr[s])
    BY <2>6 DEF Runs
  <2>9. \A s \in Stages : Faithful(s)
    BY <2>1, <2>2, <2>3, <2>4, <2>8, Zenon DEF Faithful
  <2>10. QED
    BY <2>3, <2>7, <2>9, Zenon DEF GoInv
<1>2. GoInv => GC!BeliefFollows
  <2>1. SUFFICES ASSUME GoInv, phase = "up", NEW s \in Stages, NoEvent(s), s \notin GC!Queued("stage")
                 PROVE  (stage[s].actual = "running") = (ctr[s] = "running")
    BY Zenon DEF GC!BeliefFollows, NoEvent
  <2>2. \A k \in DOMAIN chan : chan[k].kind = "stage" => chan[k].x # s
    BY <2>1, SMTT(30) DEF GC!Queued, GC!Range
  <2>3. \A k \in DOMAIN pend["listener"].todo : pend["listener"].todo[k].kind = "stage" => pend["listener"].todo[k].x # s
    BY <2>1, SenderNames, SMTT(30) DEF GC!Queued, GC!Range
  <2>4. \A k \in DOMAIN pend["listener"].todo : pend["listener"].todo[k].kind = "stage"
    BY <2>1 DEF GoInv, ListenerSends, StageMsg
  <2>5. NotHeld(s) /\ NotQueued(s)
    BY <2>2, <2>3, <2>4, Zenon DEF NotHeld, NotQueued
  <2>6. Runs(stage[s].actual) <=> Runs(ctr[s])
    BY <2>1, <2>5, Zenon DEF GoInv, Faithful
  <2>7. QED
    BY <2>6 DEF Runs
<1>3. GoInv /\ [GC!Next]_(GC!vars) => GoInv'
  BY GoStep, Zenon
<1>4. QED
  BY <1>1, <1>2, <1>3, PTL DEF GC!Spec
==============================================================================
