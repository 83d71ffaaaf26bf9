---------------------------- MODULE ActionQueue -----------------------------
(***************************************************************************)
(* The action queue of the controller (core/controller/c/core/controller.c) *)
(* as a monitor: one mutex q_lock, ONE condition variable q_cond shared by  *)
(* the queue thread and by every blocked submitter, the queue itself,       *)
(* q_closed and reconcile_queued.                                           *)
(*                                                                         *)
(* A step is one critical section of q_lock.  pthread_cond_wait releases    *)
(* the lock and joins q_wait in the same step; a woken thread re-enters by  *)
(* a step of its own.  pthread_cond_signal wakes one waiter, and POSIX lets *)
(* a waiter wake up spuriously.  What the handlers do to the stages is the  *)
(* subject of module Controller.                                            *)
(***************************************************************************)
EXTENDS Naturals, Sequences, FiniteSets

CONSTANTS
    Submitters,   \* threads that call the blocking submit functions
    QueueThread,  \* the thread inside strim_controller_run
    NoThread,     \* owner of a self-allocated action
    MaxClears     \* bound: CLEAR_INFLIGHT actions in the queue at once

ASSUME ThreadAssumption ==
    /\ QueueThread \notin Submitters
    /\ NoThread \notin Submitters \cup {QueueThread}
    /\ MaxClears \in Nat

\* ACTION_RECONCILE and ACTION_CLEAR_INFLIGHT are self-allocated; every other
\* kind is a blocking submit, its strim_action owned by the caller's stack.
Reconcile == [kind |-> "reconcile", owner |-> NoThread]
Clear     == [kind |-> "clear", owner |-> NoThread]
Call(t)   == [kind |-> "call", owner |-> t]
NoAction  == [kind |-> "none", owner |-> NoThread]

Action == {Reconcile, Clear} \cup {Call(t) : t \in Submitters}

VARIABLES
    q,                 \* q_head .. q_tail
    q_closed,
    reconcile_queued,
    q_wait,            \* the threads blocked in pthread_cond_wait on q_cond
    running,           \* the action run_action executes, or NoAction
    qpc,               \* the queue thread: "loop", "running" or "exited"
    spc,               \* a submitter: "idle", "blocked" or "refused"
    reply_done         \* reply_done of the submitter's own action

vars == <<q, q_closed, reconcile_queued, q_wait, running, qpc, spc,
          reply_done>>

Init ==
    /\ q = <<>>
    /\ q_closed = FALSE
    /\ reconcile_queued = FALSE
    /\ q_wait = {}
    /\ running = NoAction
    /\ qpc = "loop"
    /\ spc = [t \in Submitters |-> "idle"]
    /\ reply_done = [t \in Submitters |-> FALSE]

------------------------------------------------------------------------------
\* The wait sets pthread_cond_signal can leave: one waiter fewer, if any.
Signal(w) == IF w = {} THEN {w} ELSE {w \ {x} : x \in w}

\* The wait sets pthread_cond_broadcast can leave.
Broadcast(w) == {{}}

\* The reply of run_action wakes every waiter: the condition variable is
\* shared, so waking one could wake a thread the reply is not for.
ReplyWake(w) == Broadcast(w)

\* enqueue_locked: append, then signal q_cond.  `joins` is what the caller
\* adds to the wait set in the same critical section.
EnqueueLocked(a, joins) ==
    /\ q' = Append(q, a)
    /\ \E w \in Signal(q_wait) : q_wait' = w \cup joins

\* queue_submit on an open queue: enqueue, then wait for reply_done.
Submit(t) ==
    /\ spc[t] = "idle"
    /\ ~q_closed
    /\ EnqueueLocked(Call(t), {t})
    /\ reply_done' = [reply_done EXCEPT ![t] = FALSE]
    /\ spc' = [spc EXCEPT ![t] = "blocked"]
    /\ UNCHANGED <<q_closed, reconcile_queued, running, qpc>>

\* queue_submit on a closed queue: STRIM_CTRL_ERR_CLOSED.
SubmitClosed(t) ==
    /\ spc[t] = "idle"
    /\ q_closed
    /\ spc' = [spc EXCEPT ![t] = "refused"]
    /\ UNCHANGED <<q, q_closed, reconcile_queued, q_wait, running, qpc,
                   reply_done>>

\* Mutant: `if` instead of `while` around pthread_cond_wait.
SubmitReturnOnWake(t) ==
    /\ spc[t] = "blocked"
    /\ t \notin q_wait
    /\ spc' = [spc EXCEPT ![t] = "idle"]
    /\ UNCHANGED <<q, q_closed, reconcile_queued, q_wait, running, qpc,
                   reply_done>>

\* A submitter that was woken finds its reply and returns ...
SubmitReturn(t) ==
    /\ spc[t] = "blocked"
    /\ t \notin q_wait
    /\ reply_done[t]
    /\ spc' = [spc EXCEPT ![t] = "idle"]
    /\ UNCHANGED <<q, q_closed, reconcile_queued, q_wait, running, qpc,
                   reply_done>>

\* ... or finds none and waits again: the wake-up was for somebody else.
SubmitWaitAgain(t) ==
    /\ spc[t] = "blocked"
    /\ t \notin q_wait
    /\ ~reply_done[t]
    /\ q_wait' = q_wait \cup {t}
    /\ UNCHANGED <<q, q_closed, reconcile_queued, running, qpc, spc,
                   reply_done>>

\* strim_controller_request_reconcile; a request that finds the queue closed
\* or a reconcile already queued is dropped and changes nothing.
RequestReconcile ==
    /\ ~q_closed
    /\ ~reconcile_queued
    /\ reconcile_queued' = TRUE
    /\ EnqueueLocked(Reconcile, {})
    /\ UNCHANGED <<q_closed, running, qpc, spc, reply_done>>

\* The clear a failed op posts from its worker thread (run_stage_op).
PostClear ==
    /\ ~q_closed
    /\ Cardinality({i \in DOMAIN q : q[i] = Clear}) < MaxClears
    /\ EnqueueLocked(Clear, {})
    /\ UNCHANGED <<q_closed, reconcile_queued, running, qpc, spc, reply_done>>

\* Mutant: the queue is closed without waking anybody.
CloseQuietly ==
    /\ ~q_closed
    /\ q_closed' = TRUE
    /\ UNCHANGED <<q, reconcile_queued, q_wait, running, qpc, spc, reply_done>>

\* strim_controller_close (its queue half).
Close ==
    /\ ~q_closed
    /\ q_closed' = TRUE
    /\ q_wait' \in Broadcast(q_wait)
    /\ UNCHANGED <<q, reconcile_queued, running, qpc, spc, reply_done>>

------------------------------------------------------------------------------
\* strim_controller_run, at the top of its loop and not in pthread_cond_wait.
AtLoop == qpc = "loop" /\ QueueThread \notin q_wait

RunSleep ==
    /\ AtLoop
    /\ q = <<>>
    /\ ~q_closed
    /\ q_wait' = q_wait \cup {QueueThread}
    /\ UNCHANGED <<q, q_closed, reconcile_queued, running, qpc, spc,
                   reply_done>>

RunPop ==
    /\ AtLoop
    /\ q # <<>>
    /\ running' = Head(q)
    /\ q' = Tail(q)
    /\ reconcile_queued' = (reconcile_queued /\ Head(q) # Reconcile)
    /\ qpc' = "running"
    /\ UNCHANGED <<q_closed, q_wait, spc, reply_done>>

\* Mutant: a closed queue is left undrained.
RunExitUndrained ==
    /\ AtLoop
    /\ q_closed
    /\ qpc' = "exited"
    /\ UNCHANGED <<q, q_closed, reconcile_queued, q_wait, running, spc,
                   reply_done>>

RunExit ==
    /\ AtLoop
    /\ q = <<>>
    /\ q_closed
    /\ qpc' = "exited"
    /\ UNCHANGED <<q, q_closed, reconcile_queued, q_wait, running, spc,
                   reply_done>>

\* The end of run_action: answer the caller and broadcast, or free the
\* self-allocated action without waking anybody.
RunReply ==
    /\ qpc = "running"
    /\ IF running.owner = NoThread
       THEN UNCHANGED <<q_wait, reply_done>>
       ELSE /\ reply_done' = [reply_done EXCEPT ![running.owner] = TRUE]
            /\ q_wait' \in ReplyWake(q_wait)
    /\ running' = NoAction
    /\ qpc' = "loop"
    /\ UNCHANGED <<q, q_closed, reconcile_queued, spc>>

\* A waiter may wake up without a signal.
SpuriousWakeup(x) ==
    /\ x \in q_wait
    /\ q_wait' = q_wait \ {x}
    /\ UNCHANGED <<q, q_closed, reconcile_queued, running, qpc, spc,
                   reply_done>>

QueueThreadStep == RunSleep \/ RunPop \/ RunExit \/ RunReply

\* Run has returned and every caller was turned away: nothing is left to do.
Terminated ==
    /\ qpc = "exited"
    /\ \A t \in Submitters : spc[t] = "refused"
    /\ UNCHANGED vars

Next ==
    \/ \E t \in Submitters :
          Submit(t) \/ SubmitClosed(t) \/ SubmitReturn(t) \/ SubmitWaitAgain(t)
    \/ RequestReconcile
    \/ PostClear
    \/ Close
    \/ QueueThreadStep
    \/ \E x \in q_wait : SpuriousWakeup(x)
    \/ Terminated

\* A runnable thread eventually gets the lock.  Nobody is obliged to submit,
\* to request, to close or to wake up spuriously.
Fairness ==
    /\ WF_vars(QueueThreadStep)
    /\ \A t \in Submitters : WF_vars(SubmitReturn(t) \/ SubmitWaitAgain(t))

Spec == Init /\ [][Next]_vars /\ Fairness

------------------------------------------------------------------------------
\* The type of every variable.
TypeOK ==
    /\ q \in Seq(Action)
    /\ q_closed \in BOOLEAN
    /\ reconcile_queued \in BOOLEAN
    /\ q_wait \subseteq Submitters \cup {QueueThread}
    /\ running \in Action \cup {NoAction}
    /\ qpc \in {"loop", "running", "exited"}
    /\ spc \in [Submitters -> {"idle", "blocked", "refused"}]
    /\ reply_done \in [Submitters -> BOOLEAN]

\* No wake-up is lost although enqueue_locked only signals a condition
\* variable shared with the blocked submitters: the queue thread is never
\* asleep while there is an action to run or a close to notice, and no
\* submitter is asleep once its reply has been stored.
NoLostWakeup ==
    /\ QueueThread \in q_wait => q = <<>> /\ ~q_closed
    /\ \A t \in Submitters : t \in q_wait => ~reply_done[t]

\* The strim_action of a blocking submit lives on its caller's stack.  It is
\* reachable from the queue or from run_action exactly while its caller is
\* blocked without a reply, and from one place only: it runs exactly once and
\* is never touched after the submit has returned.
CallHeldExactlyOnce ==
    \A t \in Submitters :
        LET places == {i \in DOMAIN q : q[i] = Call(t)} IN
        /\ \A i, j \in places : i = j
        /\ running = Call(t) => places = {}
        /\ (spc[t] = "blocked" /\ ~reply_done[t])
              <=> (running = Call(t) \/ places # {})

\* Coalescing loses nothing: the flag that makes request_reconcile drop a
\* request is up exactly while a reconcile pass that has not begun is queued,
\* and never two of them.
CoalescingExact ==
    LET places == {i \in DOMAIN q : q[i] = Reconcile} IN
    /\ reconcile_queued <=> places # {}
    /\ \A i, j \in places : i = j

\* When Run returns after Close it has run everything that was accepted: no
\* submitter is left waiting for a thread that is gone.
NoCallerStranded ==
    qpc = "exited" =>
        /\ q_closed
        /\ q = <<>>
        /\ \A t \in Submitters : spc[t] = "blocked" => reply_done[t]

\* Nobody waits for good: every accepted submit returns to its caller, and once
\* the queue is closed Run returns, whoever is still submitting.
CallReturns ==
    /\ \A t \in Submitters : spc[t] = "blocked" ~> spc[t] # "blocked"
    /\ q_closed ~> qpc = "exited"

\* The monitor implements the serial queue its header promises: the mapping
\* forgets the condition variable and the coalescing flag.
Promise == INSTANCE SerialQueue WITH
    accepted <- q,
    busy <- running,
    call <- [t \in Submitters |->
                IF spc[t] # "blocked" THEN spc[t]
                ELSE IF reply_done[t] THEN "answered" ELSE "pending"],
    open <- ~q_closed,
    stopped <- (qpc = "exited")

\* Accepted actions run once each, in order, calls are answered after their
\* own action, and close drains: every behaviour of the monitor is one of the
\* serial queue, fairness included.
ImplementsSerialQueue == Promise!Spec
=============================================================================
