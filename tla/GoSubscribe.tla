---------------------------- MODULE GoSubscribe -----------------------------
(***************************************************************************)
(* GET /subscribe in the Go controller (main.go): for every client a         *)
(* listener that the controller's goroutine calls, a channel of one status,  *)
(* and a handler goroutine that writes what it takes from the channel.  The  *)
(* listener must never make the controller wait for a slow client.           *)
(***************************************************************************)
EXTENDS Naturals, Sequences, Functions

CONSTANTS
    Clients,
    MaxStatus,  \* statuses the controller goes through, numbered from 1
    Buffer      \* actionsBufferSize

VARIABLES
    status,     \* number of the controller's current status
    actions,    \* the controller's channel
    listeners,  \* c.listeners
    todo,       \* listeners the action under way has still to call
    snapshot,   \* the status it calls them with
    step,       \* how far the listener it calls is: "try", "drain" or "send"
    adding,     \* clients whose SubmitAddListener waits for the action under way
    chan,       \* sendChannel of every client, 0 when empty
    pc,         \* of every client's handler
    hold,       \* what the handler took from the channel
    seen        \* the last status the client was sent, 0 for none

control == <<status, actions, listeners, todo, snapshot, step, adding>>
vars == <<control, chan, pc, hold, seen>>

Init ==
    /\ status = 1 /\ actions = <<>> /\ listeners = <<>>
    /\ todo = <<>> /\ snapshot = 0 /\ step = "try" /\ adding = {}
    /\ chan = [c \in Clients |-> 0]
    /\ pc = [c \in Clients |-> "away"]
    /\ hold = [c \in Clients |-> 0]
    /\ seen = [c \in Clients |-> 0]

Submits(a) == Len(actions) < Buffer /\ actions' = Append(actions, a)

------------------------------------------------------------------------------
(* Run: one action after the other, each to its end.                         *)

\* An event that changes the status, from whichever goroutine.
Event ==
    /\ status + Len(SelectSeq(actions, LAMBDA a : a.kind = "change")) < MaxStatus
    /\ Submits([kind |-> "change"])
    /\ UNCHANGED <<status, listeners, todo, snapshot, step, adding, chan, pc, hold, seen>>

Takes(kind) ==
    /\ todo = <<>> /\ adding = {} /\ actions # <<>> /\ Head(actions).kind = kind
    /\ actions' = Tail(actions)

\* Mutant: the listeners hear of a change before its prerequisite is checked.
TakeChangeAnnounced ==
    /\ Takes("change")
    /\ status' \in {status, status + 1}
    /\ todo' = listeners /\ snapshot' = status + 1
    /\ UNCHANGED <<listeners, step, adding, chan, pc, hold, seen>>

\* notifyListeners: one snapshot for all of them.
TakeChange ==
    /\ Takes("change")
    /\ status' = status + 1
    /\ todo' = listeners /\ snapshot' = status'
    /\ UNCHANGED <<listeners, step, adding, chan, pc, hold, seen>>

\* handleAddListener: the new one is called with the status as it is.
TakeAdd ==
    /\ Takes("add")
    /\ LET c == Head(actions).client
       IN  /\ listeners' = Append(listeners, c)
           /\ todo' = <<c>> /\ adding' = {c}
    /\ snapshot' = status
    /\ UNCHANGED <<status, step, chan, pc, hold, seen>>

\* handleRemoveListener
TakeRemove ==
    /\ Takes("remove")
    /\ LET c == Head(actions).client
       IN  /\ listeners' = SelectSeq(listeners, LAMBDA l : l # c)
           /\ pc' = [pc EXCEPT ![c] = "gone"]
    /\ UNCHANGED <<status, todo, snapshot, step, adding, chan, hold, seen>>

------------------------------------------------------------------------------
(* The listener: send, or make room and send.                                *)

\* Mutant: when the channel is full the new status is dropped, not the old one.
TrySendOrDrop ==
    /\ todo # <<>> /\ step = "try"
    /\ chan' = [chan EXCEPT ![Head(todo)] = IF @ = 0 THEN snapshot ELSE @]
    /\ todo' = Tail(todo)
    /\ UNCHANGED <<status, actions, listeners, snapshot, step, adding, pc, hold, seen>>

TrySend ==
    /\ todo # <<>> /\ step = "try"
    /\ LET c == Head(todo)
       IN  IF chan[c] = 0
             THEN chan' = [chan EXCEPT ![c] = snapshot] /\ todo' = Tail(todo)
                  /\ UNCHANGED step
             ELSE step' = "drain" /\ UNCHANGED <<chan, todo>>
    /\ UNCHANGED <<status, actions, listeners, snapshot, adding, pc, hold, seen>>

\* The handler may have been quicker.
Drain ==
    /\ step = "drain"
    /\ chan' = [chan EXCEPT ![Head(todo)] = 0]
    /\ step' = "send"
    /\ UNCHANGED <<status, actions, listeners, todo, snapshot, adding, pc, hold, seen>>

Send ==
    /\ step = "send"
    /\ chan' = [chan EXCEPT ![Head(todo)] = IF @ = 0 THEN snapshot ELSE @]
    /\ todo' = Tail(todo)
    /\ step' = "try"
    /\ UNCHANGED <<status, actions, listeners, snapshot, adding, pc, hold, seen>>

\* The reply to SubmitAddListener, once the listener has returned.
AddReply ==
    /\ todo = <<>> /\ adding # {}
    /\ pc' = [c \in Clients |-> IF c \in adding THEN "writing" ELSE pc[c]]
    /\ adding' = {}
    /\ UNCHANGED <<status, actions, listeners, todo, snapshot, step, chan, hold, seen>>

Run ==
    \/ TakeChange \/ TakeAdd \/ TakeRemove
    \/ TrySend \/ Drain \/ Send \/ AddReply

------------------------------------------------------------------------------
(* The handler of a client.                                                  *)

Accept(c) ==
    /\ pc[c] = "away"
    /\ Submits([kind |-> "add", client |-> c])
    /\ pc' = [pc EXCEPT ![c] = "adding"]
    /\ UNCHANGED <<status, listeners, todo, snapshot, step, adding, chan, hold, seen>>

Receive(c) ==
    /\ pc[c] = "writing" /\ chan[c] # 0
    /\ hold' = [hold EXCEPT ![c] = chan[c]]
    /\ chan' = [chan EXCEPT ![c] = 0]
    /\ pc' = [pc EXCEPT ![c] = "write"]
    /\ UNCHANGED <<control, seen>>

Written(c) ==
    /\ pc[c] = "write"
    /\ seen' = [seen EXCEPT ![c] = hold[c]]
    /\ pc' = [pc EXCEPT ![c] = "writing"]
    /\ UNCHANGED <<control, chan, hold>>

\* The write fails, or takes longer than WebsocketWriteTimeout.
WriteFails(c) ==
    /\ pc[c] = "write"
    /\ pc' = [pc EXCEPT ![c] = "leaving"]
    /\ UNCHANGED <<control, chan, hold, seen>>

\* The client has closed, or the process is shutting down.
Done(c) ==
    /\ pc[c] = "writing"
    /\ pc' = [pc EXCEPT ![c] = "leaving"]
    /\ UNCHANGED <<control, chan, hold, seen>>

\* The deferred goroutine goes on when the handler no longer waits for it.
SubmitRemove(c) ==
    /\ pc[c] = "leaving"
    /\ Submits([kind |-> "remove", client |-> c])
    /\ pc' = [pc EXCEPT ![c] = "removing"]
    /\ UNCHANGED <<status, listeners, todo, snapshot, step, adding, chan, hold, seen>>

Writer(c) == Receive(c) \/ Written(c) \/ WriteFails(c)

Next ==
    \/ Event \/ Run
    \/ \E c \in Clients : Accept(c) \/ Writer(c) \/ Done(c) \/ SubmitRemove(c)

\* Go runs every goroutine, and serves those that wait to send in turn; a write
\* has a timeout.
Fairness ==
    /\ WF_vars(Run)
    /\ \A c \in Clients : WF_vars(Writer(c)) /\ SF_vars(SubmitRemove(c))

Spec == Init /\ [][Next]_vars /\ Fairness

------------------------------------------------------------------------------
\* Mapped to the clients' views, the channels implement LatestValue: what a
\* client is sent only moves forward, though the listener and the handler both
\* take from the channel.
LV == INSTANCE LatestValue WITH
          latest <- status, view <- seen,
          open <- {c \in Clients : pc[c] \in {"adding", "writing", "write"}}
ImplementsLatestValue == LV!LSpec

\* A client that stays is to be sent status v; it was sent v or a later one, or
\* is leaving.
Owed(c, v) == pc[c] \in {"writing", "write"} /\ status = v
Sent(c, v) == seen[c] >= v \/ pc[c] \notin {"writing", "write"}

Forgotten(c) == pc[c] = "gone" /\ c \notin Range(listeners)
=============================================================================
