----------------------------- MODULE MsgStream ------------------------------
(***************************************************************************)
(* What a server-streaming call promises its caller (containerd/h2c.h):   *)
(* h2c_stream_next hands out the messages the server wrote on the stream,  *)
(* each one whole, in the order they were written and none of them twice.  *)
(* A stream may end early; what was handed out by then stays a prefix.     *)
(***************************************************************************)
EXTENDS Naturals, Sequences

CONSTANT Streams, Messages

VARIABLES sent,   \* sent[s]: what the server has written on stream s
          got     \* got[s]: what the caller has been handed from it

MInit == sent = [s \in Streams |-> <<>>] /\ got = [s \in Streams |-> <<>>]

Write(s, m) == sent' = [sent EXCEPT ![s] = Append(@, m)] /\ UNCHANGED got

(* The next message not handed out yet, the very one that was written.     *)
HandOut(s) ==
    /\ Len(got[s]) < Len(sent[s])
    /\ got' = [got EXCEPT ![s] = Append(@, sent[s][Len(@) + 1])]
    /\ UNCHANGED sent

MNext == \E s \in Streams : HandOut(s) \/ \E m \in Messages : Write(s, m)

MSpec == MInit /\ [][MNext]_<<sent, got>>
=============================================================================
