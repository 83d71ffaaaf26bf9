------------------------------ MODULE WsSlots -------------------------------
(***************************************************************************)
(* Status push to WebSocket clients: the client slots of                     *)
(* core/controller/c/http/http_server.c, the controller's listener table     *)
(* (core/controller.c) and the callbacks of main.c between them.             *)
(*                                                                         *)
(* Two threads meet here.  The HTTP thread owns a slot's connection: it      *)
(* accepts, pumps, closes and recycles it.  The queue thread notifies the    *)
(* registered listeners, each push being one critical section of the slot's  *)
(* slot_mutex.  The HTTP thread registers and unregisters a listener by a    *)
(* blocking call to the queue thread, so it pumps nothing meanwhile.         *)
(*                                                                         *)
(* One pass of ws_pump_client over a slot is one step: it touches what the   *)
(* queue thread also touches in one place only, the critical section of      *)
(* ws_drain_slot.  closing and closed are written outside slot_mutex, so     *)
(* ws_send may still read their old values: it may accept a frame for a slot *)
(* that has begun to close.                                                  *)
(*                                                                         *)
(* A status is a number, counted up at every change; 0 is "no frame".        *)
(***************************************************************************)
EXTENDS Naturals, Sequences, FiniteSets, Functions

CONSTANTS
    Clients,       \* connections that ask for /subscribe
    None,          \* no client
    NSlots,        \* STRIM_HTTP_MAX_WS_CLIENTS
    MaxListeners,  \* STRIM_CTRL_MAX_LISTENERS
    MaxStatus      \* bound: status changes

ASSUME SlotAssumption ==
    /\ None \notin Clients
    /\ NSlots \in Nat \ {0} /\ MaxListeners \in Nat \ {0}
    /\ MaxStatus \in Nat \ {0}

Slots == 1 .. NSlots

VARIABLES
    status,     \* the controller's status
    todo,       \* the listeners notify_listeners has yet to call
    listeners,  \* the controller's listener table: slot numbers
    slot,       \* the ws_client records
    conn,       \* a client: "new", "open", "closed" (CLOSE issued), "done"
    seen,       \* the last status flushed to a client's socket
    leaving,    \* clients that have sent a close frame
    http,       \* the HTTP thread: "loop", "shutdown" or "stopped" ...
    call,       \* ... and its blocked call: <<>>, <<"add", i>> or <<"remove", i>>
    shutdown_requested

vars == <<status, todo, listeners, slot, conn, seen, leaving, http, call,
          shutdown_requested>>
queue == <<status, todo, listeners>>

FreeSlot == [in_use |-> FALSE, closed |-> FALSE, closing |-> FALSE,
             session |-> None, pending |-> 0, inflight |-> 0, late |-> FALSE]

Init ==
    /\ status = 1 /\ todo = <<>> /\ listeners = <<>>
    /\ slot = [i \in Slots |-> FreeSlot]
    /\ conn = [c \in Clients |-> "new"]
    /\ seen = [c \in Clients |-> 0]
    /\ leaving = {}
    /\ http = "loop" /\ call = <<>>
    /\ shutdown_requested = FALSE

------------------------------------------------------------------------------
\* strim_http_ws_send: what one push may leave in slot i.  It overwrites the
\* pending frame: latest wins.  in_use is written under the mutex; a read of
\* closing or closed may be stale.
WsSend(i) ==
    LET kept == slot
        put  == [slot EXCEPT ![i].pending = status]
    IN  IF ~slot[i].in_use THEN {kept}
        ELSE IF slot[i].closing \/ slot[i].closed THEN {kept, put}
        ELSE {put}

\* A handler that changes the status and notifies (apply_desired_stage_target,
\* handle_stage_event, teardown_inner): the listeners are called one by one.
StatusChange ==
    /\ todo = <<>> /\ status < MaxStatus
    /\ status' = status + 1
    /\ todo' = listeners
    /\ UNCHANGED <<listeners, slot, conn, seen, leaving, http, call,
                   shutdown_requested>>

\* notify_listeners calls ws_status_listener with the next slot number.
NotifyNext ==
    /\ todo # <<>>
    /\ slot' \in WsSend(Head(todo))
    /\ todo' = Tail(todo)
    /\ UNCHANGED <<status, listeners, conn, seen, leaving, http, call,
                   shutdown_requested>>

\* A path event that matches no route, or whose target is already desired:
\* the path is stored, nobody is notified.
PathChange ==
    /\ todo = <<>> /\ status < MaxStatus
    /\ status' = status + 1
    /\ UNCHANGED <<todo, listeners, slot, conn, seen, leaving, http, call,
                   shutdown_requested>>

\* handle_add_listener: append, and push a first snapshot at once.
AddListener ==
    /\ todo = <<>> /\ call # <<>> /\ call[1] = "add"
    /\ Len(listeners) < MaxListeners
    /\ listeners' = Append(listeners, call[2])
    /\ slot' \in WsSend(call[2])
    /\ call' = <<>>
    /\ UNCHANGED <<status, todo, conn, seen, leaving, http, shutdown_requested>>

\* The table is full: ws_upgrade_handler closes the connection with 1011.
AddListenerRefused ==
    /\ todo = <<>> /\ call # <<>> /\ call[1] = "add"
    /\ Len(listeners) >= MaxListeners
    /\ slot' = [slot EXCEPT ![call[2]].closing = TRUE, ![call[2]].closed = TRUE]
    /\ conn' = [conn EXCEPT ![slot[call[2]].session] = "closed"]
    /\ call' = <<>>
    /\ UNCHANGED <<queue, seen, leaving, http, shutdown_requested>>

\* handle_remove_listener: the entries behind the first one for slot i move up.
Dropped(i) ==
    {SubSeq(listeners, 1, k - 1) \o SubSeq(listeners, k + 1, Len(listeners)) :
        k \in {n \in DOMAIN listeners :
                 listeners[n] = i /\ \A m \in 1 .. n - 1 : listeners[m] # i}}

\* The queue thread's half of ws_cleanup_slot, whose remainder then resets the
\* record.
RemoveListener ==
    /\ todo = <<>> /\ call # <<>> /\ call[1] = "remove"
    /\ listeners' \in IF call[2] \in Range(listeners)
                      THEN Dropped(call[2]) ELSE {listeners}
    /\ slot' = [slot EXCEPT ![call[2]].session = None, ![call[2]].pending = 0,
                            ![call[2]].inflight = 0, ![call[2]].late = FALSE]
    /\ call' = <<>>
    /\ UNCHANGED <<status, todo, conn, seen, leaving, http, shutdown_requested>>

QueueThread ==
    \/ StatusChange \/ PathChange \/ NotifyNext
    \/ AddListener \/ AddListenerRefused \/ RemoveListener

------------------------------------------------------------------------------
HttpFree == http # "stopped" /\ call = <<>>

\* Mutant: a closed slot counts as free before it was cleaned up.
LowestClosed == {i \in Slots : slot[i].closed \/ ~slot[i].in_use}

\* ws_upgrade_handler: the lowest free slot is published under its mutex.
LowestFree == {i \in Slots : ~slot[i].in_use /\ \A j \in 1 .. i - 1 : slot[j].in_use}

Upgraded(c) == [FreeSlot EXCEPT !.in_use = TRUE, !.session = c]

Upgrade(c) ==
    /\ HttpFree /\ http = "loop" /\ conn[c] = "new"
    /\ \E i \in LowestFree : /\ slot' = [slot EXCEPT ![i] = Upgraded(c)]
                             /\ call' = <<"add", i>>
    /\ conn' = [conn EXCEPT ![c] = "open"]
    /\ UNCHANGED <<queue, seen, leaving, http, shutdown_requested>>

\* Lack of memory after the slot was published: closed without a listener.
UpgradeFails(c) ==
    /\ HttpFree /\ http = "loop" /\ conn[c] = "new"
    /\ \E i \in LowestFree :
          slot' = [slot EXCEPT ![i] = [Upgraded(c) EXCEPT !.closed = TRUE]]
    /\ conn' = [conn EXCEPT ![c] = "closed"]
    /\ UNCHANGED <<queue, seen, leaving, http, call, shutdown_requested>>

\* No free slot: the connection is closed at once.
UpgradeRefused(c) ==
    /\ HttpFree /\ http = "loop" /\ conn[c] = "new"
    /\ \A i \in Slots : slot[i].in_use
    /\ conn' = [conn EXCEPT ![c] = "done"]
    /\ UNCHANGED <<queue, slot, seen, leaving, http, call, shutdown_requested>>

\* The peer sends a close frame.
PeerCloses(c) ==
    /\ conn[c] = "open" /\ c \notin leaving
    /\ leaving' = leaving \cup {c}
    /\ UNCHANGED <<queue, slot, conn, seen, http, call, shutdown_requested>>

\* The write deadline of the frame in flight, or the deadline of the close
\* handshake, passes.
DeadlinePasses(i) ==
    /\ slot[i].in_use /\ ~slot[i].closed /\ ~slot[i].late
    /\ slot[i].inflight # 0 \/ slot[i].closing
    /\ slot' = [slot EXCEPT ![i].late = TRUE]
    /\ UNCHANGED <<queue, conn, seen, leaving, http, call, shutdown_requested>>

\* ws_close_socket: MHD_UPGRADE_ACTION_CLOSE; the slot stays reserved.
CloseSocket(i, s) ==
    /\ slot' = [slot EXCEPT ![i] = [s EXCEPT !.closed = TRUE]]
    /\ conn' = [conn EXCEPT ![s.session] = "closed"]

\* recv or send fails, or the handoff from wslay is out of order.
SocketFails(i) ==
    /\ HttpFree /\ slot[i].in_use /\ ~slot[i].closed
    /\ CloseSocket(i, slot[i])
    /\ UNCHANGED <<queue, seen, leaving, http, call, shutdown_requested>>

\* One pass of ws_pump_client, as functions of the record: receive, move the
\* pending frame to wslay, and give up on a frame that is late.
BeginClose(s) == [s EXCEPT !.closing = TRUE, !.late = FALSE]

Received(s) ==
    IF s.session \in leaving /\ ~s.closing THEN BeginClose(s) ELSE s

\* ws_drain_slot; nothing pending during shutdown starts the 1000 close.
Drained(s) ==
    IF s.closing \/ s.inflight # 0 THEN s
    ELSE IF s.pending # 0
         THEN [s EXCEPT !.inflight = s.pending, !.pending = 0, !.late = FALSE]
         ELSE IF shutdown_requested THEN BeginClose(s) ELSE s

TimedOut(s) ==
    IF s.inflight # 0 /\ ~s.closing /\ s.late THEN BeginClose(s) ELSE s

Sees(s) == IF s.inflight = 0 THEN seen
           ELSE [seen EXCEPT ![s.session] = s.inflight]

Pumped(i) == TimedOut(Drained(Received(slot[i])))

\* Mutant: a pass does not skip a connection that was closed.
PumpFlushesClosed(i) ==
    /\ HttpFree /\ http = "loop" /\ slot[i].in_use
    /\ slot' = [slot EXCEPT ![i] = [Pumped(i) EXCEPT !.inflight = 0]]
    /\ seen' = Sees(Pumped(i))
    /\ UNCHANGED <<queue, conn, leaving, http, call, shutdown_requested>>

\* The socket takes everything: the frame is out, and a close frame ends the
\* handshake.  A control frame may overtake a frame not yet begun.
PumpFlushes(i) ==
    /\ HttpFree /\ http = "loop" /\ slot[i].in_use /\ ~slot[i].closed
    /\ IF Pumped(i).closing
       THEN CloseSocket(i, Pumped(i)) /\ seen' \in {seen, Sees(Pumped(i))}
       ELSE /\ slot' = [slot EXCEPT ![i] = [Pumped(i) EXCEPT !.inflight = 0,
                                                            !.late = FALSE]]
            /\ seen' = Sees(Pumped(i))
            /\ UNCHANGED conn
    /\ UNCHANGED <<queue, leaving, http, call, shutdown_requested>>

\* The socket takes nothing; a close handshake that is late is cut short.
PumpBlocks(i) ==
    /\ HttpFree /\ http = "loop" /\ slot[i].in_use /\ ~slot[i].closed
    /\ IF Pumped(i).closing /\ Pumped(i).late
       THEN CloseSocket(i, Pumped(i))
       ELSE slot' = [slot EXCEPT ![i] = Pumped(i)] /\ UNCHANGED conn
    /\ UNCHANGED <<queue, seen, leaving, http, call, shutdown_requested>>

\* strim_http_server_shutdown_request, and the service loop's response.
RequestShutdown ==
    /\ ~shutdown_requested
    /\ shutdown_requested' = TRUE
    /\ UNCHANGED <<queue, slot, conn, seen, leaving, http, call>>

LeaveLoop ==
    /\ HttpFree /\ http = "loop" /\ shutdown_requested
    /\ http' = "shutdown"
    /\ UNCHANGED <<queue, slot, conn, seen, leaving, call, shutdown_requested>>

\* One pass of ws_shutdown_all over a slot: flush the frame, then close 1000.
Flushable(i) == http = "shutdown" /\ slot[i].in_use /\ ~slot[i].closed

FlushPass(i) ==
    LET s == Drained(slot[i]) IN
    /\ Flushable(i)
    /\ \/ slot' = [slot EXCEPT ![i] = s] /\ UNCHANGED <<seen, conn>>
       \/ /\ slot' = [slot EXCEPT ![i] = [BeginClose(s) EXCEPT !.inflight = 0]]
          /\ seen' = Sees(s) /\ UNCHANGED conn
       \/ CloseSocket(i, BeginClose(s)) /\ seen' = Sees(s)
    /\ UNCHANGED <<queue, leaving, http, call, shutdown_requested>>

\* Mutant: connections whose close handshake began are left to it.
ForceCloseIdle(i) ==
    /\ Flushable(i) /\ ~slot[i].closing
    /\ CloseSocket(i, slot[i])
    /\ UNCHANGED <<queue, seen, leaving, http, call, shutdown_requested>>

\* After 256 passes the stragglers are closed hard.
ForceClose(i) ==
    /\ Flushable(i)
    /\ CloseSocket(i, slot[i])
    /\ UNCHANGED <<queue, seen, leaving, http, call, shutdown_requested>>

\* request_completed_cb and ws_cleanup_slot: unpublish under the mutex, then
\* remove the listener by a blocking call.  When the service loop is left the
\* completions come from MHD_stop_daemon, after every socket was closed.
Cleanup(i) ==
    /\ HttpFree /\ slot[i].in_use /\ slot[i].closed
    /\ http = "shutdown" => \A j \in Slots : slot[j].in_use => slot[j].closed
    /\ slot' = [slot EXCEPT ![i].in_use = FALSE, ![i].pending = 0]
    /\ conn' = [conn EXCEPT ![slot[i].session] = "done"]
    /\ call' = <<"remove", i>>
    /\ UNCHANGED <<queue, seen, leaving, http, shutdown_requested>>

Stop ==
    /\ HttpFree /\ http = "shutdown" /\ \A i \in Slots : ~slot[i].in_use
    /\ http' = "stopped"
    /\ UNCHANGED <<queue, slot, conn, seen, leaving, call, shutdown_requested>>

Pump(i)  == PumpFlushes(i) \/ PumpBlocks(i)
Flush(i) == FlushPass(i) \/ ForceClose(i)

Next ==
    \/ QueueThread
    \/ \E c \in Clients :
          Upgrade(c) \/ UpgradeFails(c) \/ UpgradeRefused(c) \/ PeerCloses(c)
    \/ \E i \in Slots :
          \/ DeadlinePasses(i) \/ Pump(i) \/ Flush(i) \/ Cleanup(i)
          \/ http = "loop" /\ SocketFails(i)
    \/ RequestShutdown \/ LeaveLoop \/ Stop

Spec == Init /\ [][Next]_vars

\* The queue thread serves its queue; every pass of the service loop visits
\* every slot and comes back to its flag, in between it may block in a call;
\* after the loop it closes every slot and stops; clocks advance.  Peers owe
\* nothing: a pass may find the socket full.
Serve    == NotifyNext \/ AddListener \/ AddListenerRefused \/ RemoveListener
WindDown == Stop \/ \E i \in Slots : ForceClose(i)
Deadline == \E i \in Slots : DeadlinePasses(i)
Recycle  == \E i \in Slots : Cleanup(i)

Fairness ==
    /\ WF_vars(Serve) /\ WF_vars(WindDown) /\ WF_vars(Deadline)
    /\ \A i \in Slots : SF_vars(Pump(i))
    /\ SF_vars(Recycle) /\ SF_vars(LeaveLoop)

FairSpec == Spec /\ Fairness

------------------------------------------------------------------------------
WTypeOK ==
    /\ status \in 1 .. MaxStatus
    /\ todo \in Seq(Slots) /\ listeners \in Seq(Slots)
    /\ slot \in [Slots -> [in_use : BOOLEAN, closed : BOOLEAN,
                           closing : BOOLEAN, session : Clients \cup {None},
                           pending : 0 .. MaxStatus, inflight : 0 .. MaxStatus,
                           late : BOOLEAN]]
    /\ conn \in [Clients -> {"new", "open", "closed", "done"}]
    /\ seen \in [Clients -> 0 .. MaxStatus]
    /\ leaving \subseteq Clients
    /\ call \in {<<>>} \cup ({"add", "remove"} \X Slots)
    /\ \A i \in Slots : slot[i].in_use => slot[i].session \in Clients

\* The listener table and the slots agree: no slot is registered twice, a
\* registered slot is in use or being unregistered, and every open connection
\* is registered or being registered.  So at most NSlots listeners exist.
ListenersMatchSlots ==
    /\ IsInjective(listeners)
    /\ \A i \in Range(listeners) : slot[i].in_use \/ call = <<"remove", i>>
    /\ \A i \in Slots : slot[i].in_use /\ ~slot[i].closed =>
          i \in Range(listeners) \/ call = <<"add", i>>

\* A connection has one slot: an open client is the session of exactly one
\* slot in use, so no frame can reach two connections or the wrong one.
OneSlotPerClient ==
    \A c \in Clients :
        Cardinality({i \in Slots : slot[i].in_use /\ slot[i].session = c})
          = IF conn[c] \in {"open", "closed"} THEN 1 ELSE 0

\* Who is served and who is told agree, through every opening, closing and
\* refusal: both of the above.
SlotsConsistent == ListenersMatchSlots /\ OneSlotPerClient

\* Frames queue up in order: what waits in the slot is newer than what is in
\* flight, and both are newer than what the client saw.
FramesInOrder ==
    \A i \in Slots : slot[i].in_use /\ slot[i].session \in Clients =>
        LET s == slot[i] IN
        /\ s.pending # 0 /\ s.inflight # 0 => s.pending >= s.inflight
        /\ s.inflight # 0 => s.inflight >= seen[s.session]
        /\ s.pending # 0 => s.pending >= seen[s.session]

\* Mapped to the clients' views, slots implement LatestValue.
LV == INSTANCE LatestValue WITH latest <- status, view <- seen,
          open <- {c \in Clients : conn[c] = "open"}
ImplementsLatestValue == LV!LSpec

\* The controller is pushing status v to client c; c was sent v or a newer
\* status, or its connection is over.
Owed(c, v) ==
    /\ conn[c] = "open" /\ status = v
    /\ \E i \in Range(todo) : slot[i].in_use /\ slot[i].session = c
Sent(c, v) == seen[c] >= v \/ conn[c] # "open"
=============================================================================
