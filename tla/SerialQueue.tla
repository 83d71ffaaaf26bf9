---------------------------- MODULE SerialQueue -----------------------------
(***************************************************************************)
(* What the action queue promises its callers, with no lock, no condition   *)
(* variable and no wake-up in sight (controller.h: every state change is    *)
(* serialized through one queue; a submit blocks until its action has run   *)
(* or fails with STRIM_CTRL_ERR_CLOSED).                                    *)
(*                                                                         *)
(* Accepted actions run one at a time in the order of acceptance, each      *)
(* exactly once; an accepted call is answered after its own action ran; a   *)
(* closed queue accepts nothing, finishes what it accepted, then stops.     *)
(***************************************************************************)
EXTENDS Sequences

CONSTANTS
    Submitters,  \* the blocking callers
    NoThread     \* owner of an action nobody waits for

\* ACTION_RECONCILE and ACTION_CLEAR_INFLIGHT are posted, nobody waits for
\* them; every other action kind is a blocking call owned by its caller.
Reconcile == [kind |-> "reconcile", owner |-> NoThread]
Clear     == [kind |-> "clear", owner |-> NoThread]
Call(t)   == [kind |-> "call", owner |-> t]
NoAction  == [kind |-> "none", owner |-> NoThread]

Action == {Reconcile, Clear} \cup {Call(t) : t \in Submitters}

VARIABLES
    accepted,  \* accepted actions that have not begun, in order
    busy,      \* the action being executed, or NoAction
    call,      \* per submitter: "idle", "pending", "answered" or "refused"
    open,      \* does the queue accept actions
    stopped    \* has the executor stopped

vars == <<accepted, busy, call, open, stopped>>

Init ==
    /\ accepted = <<>>
    /\ busy = NoAction
    /\ call = [t \in Submitters |-> "idle"]
    /\ open = TRUE
    /\ stopped = FALSE

Accept(t) ==
    /\ open
    /\ call[t] = "idle"
    /\ accepted' = Append(accepted, Call(t))
    /\ call' = [call EXCEPT ![t] = "pending"]
    /\ UNCHANGED <<busy, open, stopped>>

Refuse(t) ==
    /\ ~open
    /\ call[t] = "idle"
    /\ call' = [call EXCEPT ![t] = "refused"]
    /\ UNCHANGED <<accepted, busy, open, stopped>>

\* At most one reconcile pass waits in the queue; clears are not coalesced.
Post(a) ==
    /\ open
    /\ a = Reconcile => \A i \in DOMAIN accepted : accepted[i] # Reconcile
    /\ accepted' = Append(accepted, a)
    /\ UNCHANGED <<busy, call, open, stopped>>

Begin ==
    /\ busy = NoAction
    /\ accepted # <<>>
    /\ busy' = Head(accepted)
    /\ accepted' = Tail(accepted)
    /\ UNCHANGED <<call, open, stopped>>

End ==
    /\ busy # NoAction
    /\ busy' = NoAction
    /\ call' = [t \in Submitters |->
                   IF busy = Call(t) THEN "answered" ELSE call[t]]
    /\ UNCHANGED <<accepted, open, stopped>>

Return(t) ==
    /\ call[t] = "answered"
    /\ call' = [call EXCEPT ![t] = "idle"]
    /\ UNCHANGED <<accepted, busy, open, stopped>>

Close ==
    /\ open
    /\ open' = FALSE
    /\ UNCHANGED <<accepted, busy, call, stopped>>

Stop ==
    /\ ~open
    /\ ~stopped
    /\ accepted = <<>>
    /\ busy = NoAction
    /\ stopped' = TRUE
    /\ UNCHANGED <<accepted, busy, call, open>>

Next ==
    \/ \E t \in Submitters : Accept(t) \/ Refuse(t) \/ Return(t)
    \/ \E a \in {Reconcile, Clear} : Post(a)
    \/ Begin \/ End \/ Close \/ Stop

\* The executor runs whenever it has something to do, and an answered caller
\* gets its answer.
Fairness ==
    /\ WF_vars(Begin \/ End \/ Stop)
    /\ \A t \in Submitters : WF_vars(Return(t))

Spec == Init /\ [][Next]_vars /\ Fairness
=============================================================================
