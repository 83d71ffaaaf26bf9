---------------------------- MODULE LatestValue -----------------------------
(***************************************************************************)
(* What /subscribe promises a client: while it is connected its view of the  *)
(* status moves forward only, and only to statuses the controller had.       *)
(* Intermediate ones may be skipped.                                         *)
(***************************************************************************)
EXTENDS Naturals

CONSTANT Clients

VARIABLES latest,  \* number of the controller's current status
          view,    \* number of the last status a client was sent, 0 for none
          open     \* the connected clients

lvars == <<latest, view, open>>

LInit == latest = 1 /\ view = [c \in Clients |-> 0] /\ open = {}

Change == latest' = latest + 1 /\ UNCHANGED <<view, open>>

Connect(c) ==
    /\ c \notin open /\ view[c] = 0
    /\ open' = open \cup {c} /\ UNCHANGED <<latest, view>>

Forward(c) == \E v \in view[c] .. latest : view' = [view EXCEPT ![c] = v]

See(c)   == c \in open /\ Forward(c) /\ UNCHANGED <<latest, open>>

\* The last frame may be flushed in the step that closes the connection.
Leave(c) == c \in open /\ Forward(c) /\ open' = open \ {c} /\ UNCHANGED latest

LNext == Change \/ \E c \in Clients : Connect(c) \/ See(c) \/ Leave(c)

LSpec == LInit /\ [][LNext]_lvars
=============================================================================
