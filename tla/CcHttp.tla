------------------------------- MODULE CcHttp -------------------------------
(***************************************************************************)
(* The WebSocket side of the alternate HTTP server                          *)
(* (alternate/c/cc_http.c): one thread in lws_service, a fixed table of      *)
(* client slots with one pending frame each, and the shutdown flush.  A      *)
(* frame is the status version it carries.  libwebsockets calls the          *)
(* writeable callback of a connection that asked for it once its socket has  *)
(* room; a refused connection gets the closed callback like any other, with  *)
(* the zeroed session space it was created with.                             *)
(***************************************************************************)
EXTENDS Integers, FiniteSets

CONSTANTS Conns,
          CC_HTTP_MAX_WS_CLIENTS,
          MaxVersion,       \* bound: status changes
          Passes            \* the passes of the flush, 256 in the code

VARIABLES conn,       \* per connection: state, session slot, last frame, close code
          slot,       \* per slot: the connection (or none) and the pending frame
          listening,  \* the slots with a registered listener
          wants,      \* connections that asked for the writeable callback
          stalled,    \* connections whose peer does not read
          version, phase, pass

vars == <<conn, slot, listening, wants, stalled, version, phase, pass>>

Slots   == 0..CC_HTTP_MAX_WS_CLIENTS - 1
NoConn  == "none"
Nothing == 0
Live    == {i \in Slots : slot[i].wsi # NoConn}

Init ==
    /\ conn = [c \in Conns |-> [st |-> "new", idx |-> 0, last |-> 0, code |-> 0]]
    /\ slot = [i \in Slots |-> [wsi |-> NoConn, pending |-> Nothing]]
    /\ listening = {} /\ wants = {} /\ stalled = {}
    /\ version = 1 /\ phase = "serving" /\ pass = 0

\* LWS_CALLBACK_CLOSED, on the table s and the listeners: the slot of the
\* session is freed.
Freed(s, i) == [s EXCEPT ![i] = [wsi |-> NoConn, pending |-> Nothing]]

Close(c, code) ==
    /\ conn' = [conn EXCEPT ![c].st = "closed", ![c].code = code]
    /\ slot' = Freed(slot, conn[c].idx)
    /\ listening' = listening \ {conn[c].idx}
    /\ wants' = wants \ {c}

\* LWS_CALLBACK_ESTABLISHED: a slot, a listener, and its first frame at once.
Established(c) ==
    /\ phase = "serving" /\ conn[c].st = "new"
    /\ IF Live = Slots
         THEN Close(c, 1008)
         ELSE LET i == CHOOSE k \in Slots \ Live : \A l \in Slots \ Live : k <= l
              IN  /\ conn' = [conn EXCEPT ![c].st = "ws", ![c].idx = i]
                  /\ slot' = [slot EXCEPT ![i] = [wsi |-> c, pending |-> version]]
                  /\ listening' = listening \cup {i}
                  /\ wants' = wants \cup {c}
    /\ UNCHANGED <<stalled, version, phase, pass>>

\* Mutant: a full queue drops the new frame.
cc_http_ws_send_textDropsNew(s, v) ==
    [i \in Slots |-> IF i \in listening /\ s[i].wsi # NoConn /\ s[i].pending = Nothing
                       THEN [s[i] EXCEPT !.pending = v] ELSE s[i]]

\* A frame for every listener's slot; the newest replaces the pending one.
cc_http_ws_send_text(s, v) ==
    [i \in Slots |-> IF i \in listening /\ s[i].wsi # NoConn THEN [s[i] EXCEPT !.pending = v] ELSE s[i]]

StatusChanges ==
    /\ phase = "serving" /\ version < MaxVersion
    /\ version' = version + 1
    /\ slot' = cc_http_ws_send_text(slot, version + 1)
    /\ wants' = wants \cup {slot[i].wsi : i \in listening \cap Live}
    /\ UNCHANGED <<conn, listening, stalled, phase, pass>>

Written(c) ==
    /\ conn' = [conn EXCEPT ![c].last = slot[conn[c].idx].pending]
    /\ slot' = [slot EXCEPT ![conn[c].idx].pending = Nothing]
    /\ wants' = wants \ {c}
    /\ UNCHANGED listening

\* LWS_CALLBACK_SERVER_WRITEABLE.  The deadline is computed when the frame is
\* written, so with a positive timeout it never passes.
Writeable(c) ==
    /\ phase \in {"serving", "flush"}
    /\ conn[c].st = "ws" /\ c \in wants /\ c \notin stalled
    /\ LET s == slot[conn[c].idx]
       IN  IF s.wsi # c
             THEN wants' = wants \ {c} /\ UNCHANGED <<conn, slot, listening>>
             ELSE IF s.pending # Nothing THEN Written(c)
             ELSE IF phase = "flush" THEN Close(c, 1000)
             ELSE wants' = wants \ {c} /\ UNCHANGED <<conn, slot, listening>>
    /\ UNCHANGED <<stalled, version, phase, pass>>

\* The peer leaves: LWS_CALLBACK_WS_PEER_INITIATED_CLOSE and then CLOSED.
PeerCloses(c) ==
    /\ phase \in {"serving", "flush"} /\ conn[c].st = "ws"
    /\ Close(c, 1000)
    /\ UNCHANGED <<stalled, version, phase, pass>>

Stalls(c) ==
    /\ phase = "serving" /\ conn[c].st = "ws" /\ c \notin stalled
    /\ stalled' = stalled \cup {c}
    /\ UNCHANGED <<conn, slot, listening, wants, version, phase, pass>>

\* The loop of cc_http_service sees the flag: every client asks to write.
cc_http_shutdown_request ==
    /\ phase = "serving"
    /\ phase' = "flush"
    /\ wants' = wants \cup {slot[i].wsi : i \in Live}
    /\ UNCHANGED <<conn, slot, listening, stalled, version, pass>>

\* One more pass, while clients remain; a pass has served whoever could be.
FlushPass ==
    /\ phase = "flush" /\ Live # {} /\ pass < Passes
    /\ ~ \E c \in wants \ stalled : conn[c].st = "ws"
    /\ pass' = pass + 1
    /\ UNCHANGED <<conn, slot, listening, wants, stalled, version, phase>>

\* lws_context_destroy: whoever remains is cut off.
Destroy ==
    /\ phase = "flush" /\ (Live = {} \/ pass = Passes)
    /\ phase' = "down"
    /\ conn' = [c \in Conns |-> IF conn[c].st = "ws" THEN [conn[c] EXCEPT !.st = "closed", !.code = 1006]
                                ELSE conn[c]]
    /\ slot' = [i \in Slots |-> [wsi |-> NoConn, pending |-> Nothing]]
    /\ listening' = {} /\ wants' = {}
    /\ UNCHANGED <<stalled, version, pass>>

Next ==
    \/ \E c \in Conns : Established(c) \/ Writeable(c) \/ PeerCloses(c) \/ Stalls(c)
    \/ StatusChanges \/ cc_http_shutdown_request \/ FlushPass \/ Destroy

\* The service loop runs, and a shutdown once begun is carried through.
Fairness ==
    /\ \A c \in Conns : WF_vars(Writeable(c))
    /\ WF_vars(FlushPass \/ Destroy)

Spec == Init /\ [][Next]_vars /\ Fairness

(* A connected client has got the current status or has it pending, and     *)
(* what is pending has asked to be written: no change is forgotten.         *)
CurrentOrPending ==
    phase = "serving" =>
      \A c \in Conns : conn[c].st = "ws" =>
         \/ conn[c].last = version
         \/ slot[conn[c].idx].pending = version /\ c \in wants

\* A connected client is to be sent status v; it was sent v or a later one, or
\* does not read, or is gone.
Owed(c, v) == conn[c].st = "ws" /\ version = v
Sent(c, v) == conn[c].last >= v \/ c \in stalled \/ conn[c].st # "ws"
=============================================================================
