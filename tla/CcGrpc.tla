------------------------------- MODULE CcGrpc -------------------------------
(***************************************************************************)
(* The HTTP/2 client of the alternate controller (alternate/c/cc_grpc.c),  *)
(* a sibling of containerd/h2c.c: the same slots and frames, the same      *)
(* daemon, and so the state and the environment of H2cStreams.  It differs *)
(* in what it does with them: envelopes go to a callback as they complete, *)
(* windows are credited frame by frame, one poll reports one event, a      *)
(* deadline sends no RST_STREAM, and a cancelled stream keeps its slot     *)
(* until the table is full.                                                *)
(*                                                                         *)
(* One thread drives a handle.  It makes unary calls, subscribes, polls,   *)
(* asks for a stream's status, cancels and closes.  `handle.sid' is the    *)
(* subscription it holds.  conn has two more fields than in H2cStreams:    *)
(* ev, the event flags of the current poll, and cb, the envelopes passed   *)
(* to the callback by it.                                                  *)
(***************************************************************************)
EXTENDS H2cStreams

CONSTANT SrvMaxStreams   \* srv_max_streams, the daemon's stream limit

CcInit ==
    /\ conn = [dead |-> "no", stop |-> FALSE, win |-> InitWin, out |-> <<>>,
               slots |-> [i \in 1 .. NSlots |-> FreeSlot], ev |-> {}, cb |-> <<>>]
    /\ call = Idle /\ handle = NoHandle /\ nextSid = 1
    /\ ret = [op |-> "none", sid |-> 0, rc |-> "OK", msg |-> <<>>]
    /\ s2c = <<>> /\ c2s = <<>>
    /\ srv = [i \in Sids |-> SrvStream]
    /\ srvConn = [up |-> "up", credit |-> InitWin, bad |-> FALSE]
    /\ sent = [i \in Sids |-> <<>>] /\ got = [i \in Sids |-> <<>>]
    /\ gaveUp = {}

stream_find(c, sid) == FindSlot(c, sid)
stream_alloc(c) == AllocSlot(c)
stream_destroy(s) == Destroyed(s)
frame_write_rst(c, sid) == Emit(c, [t |-> "RST", sid |-> sid, n |-> 0])
Flag(c, e) == [c EXCEPT !.ev = @ \cup {e}]

complete_all_streams(c) == Flag(CompleteAll(c), "END")

conn_fail(c, code) ==
    [(IF c.dead # "no" THEN c ELSE [complete_all_streams(c) EXCEPT !.dead = code])
        EXCEPT !.stop = TRUE]

stream_proto_error(c, i) ==
    Flag(frame_write_rst(Put(c, i, [c.slots[i] EXCEPT !.state = "DONE",
                                       !.status = "INTERNAL", !.err = "none"]),
                         c.slots[i].sid), "END")

(***************************************************************************)
(* stream_feed_data.  A subscription's message goes to the callback; the   *)
(* second message of a unary call is an error.                             *)
(***************************************************************************)
(* Mutant: the header count is not reset after a message.                  *)
CompletedNoReset(c, i) ==
    LET s == c.slots[i]
        m == [len |-> s.mlen, body |-> s.buf]
        next == Flag(Put(c, i, [s EXCEPT !.fill = HdrLen - 1]), "MSG")
    IN  IF s.type = "SUBSCRIBE" THEN [next EXCEPT !.cb = Append(@, [sid |-> s.sid, m |-> m])]
        ELSE next

Completed(c, i) ==
    LET s == c.slots[i]
        m == [len |-> s.mlen, body |-> s.buf]
        next == Flag(Put(c, i, [s EXCEPT !.fill = 0, !.msgs = @ + 1]), "MSG")
    IN  IF s.type = "SUBSCRIBE" THEN [next EXCEPT !.cb = Append(@, [sid |-> s.sid, m |-> m])]
        ELSE IF s.msgs > 0 THEN stream_proto_error(c, i) ELSE next

HeaderRead(c, i, u) ==
    LET s == c.slots[i]
        c1 == Put(c, i, [s EXCEPT !.fill = HdrLen, !.mlen = u, !.buf = <<>>])
    IN  IF u = Compressed \/ u > MaxMsg THEN stream_proto_error(c, i)
        ELSE IF s.type = "UNARY" /\ u > RespCap
        THEN Flag(frame_write_rst(Put(c, i, [s EXCEPT !.state = "DONE", !.err = "TOOBIG",
                                                      !.status = "OK"]), s.sid), "END")
        ELSE IF u = 0 THEN Completed(c1, i) ELSE c1

FeedOne(c, i, u) ==
    LET s == c.slots[i]
        grown == Put(c, i, [s EXCEPT !.buf = Append(@, u)])
    IN  CASE s.state = "DONE" -> c
          [] s.state # "DONE" /\ s.fill < HdrLen - 1 -> Put(c, i, [s EXCEPT !.fill = @ + 1])
          [] s.state # "DONE" /\ s.fill = HdrLen - 1 -> HeaderRead(c, i, u)
          [] OTHER -> IF Len(s.buf) + 1 = s.mlen THEN Completed(grown, i) ELSE grown

stream_feed_data(c, i, units) == FoldLeft(LAMBDA acc, u : FeedOne(acc, i, u), c, units)

(***************************************************************************)
(* The handlers.  A data frame is credited as soon as it is fed, except on *)
(* a stream the client aborted, whose frames are dropped.                  *)
(***************************************************************************)
Refuse(c) == conn_fail(c, "PROTO")

CreditFrame(c, sid, n) ==
    IF n = 0 THEN c ELSE Emit(Emit(c, [t |-> "WU", sid |-> sid, n |-> n]),
                              [t |-> "WU", sid |-> 0, n |-> n])

handle_data_frame(c, f) ==
    LET i == stream_find(c, f.sid)
        n == Len(f.units)
        fed == CreditFrame(stream_feed_data(c, i, f.units), f.sid, n)
    IN  CASE i = 0 -> Refuse(c)
          [] i # 0 /\ c.slots[i].state = "DONE" ->
                IF c.slots[i].err # "none" THEN c ELSE Refuse(c)
          [] i # 0 /\ c.slots[i].state # "DONE" /\ (c.win < n \/ c.slots[i].win < n) -> Refuse(c)
          [] OTHER -> IF f.end /\ fed.slots[i].fill = HdrLen
                      THEN stream_proto_error(fed, i) ELSE fed

handle_header_block(c, f) ==
    LET i == stream_find(c, f.sid)
        s == c.slots[i]
    IN  CASE i = 0 -> Refuse(c)
          [] i # 0 /\ s.state = "DONE" /\ s.err # "none" -> c
          [] i # 0 /\ ~(s.state = "DONE" /\ s.err # "none") /\ f.st # "none" ->
                Flag(Put(c, i, [s EXCEPT !.state = "DONE", !.status = f.st, !.err = "none"]),
                     "END")
          [] OTHER -> IF s.state = "SENT" THEN Put(c, i, [s EXCEPT !.state = "HEADERS"])
                      ELSE Refuse(c)

handle_rst_stream(c, f) ==
    LET i == stream_find(c, f.sid)
        s == c.slots[i]
    IN  CASE i = 0 -> c
          [] i # 0 /\ s.state = "DONE" -> Put(c, i, stream_destroy(s))
          [] OTHER -> Flag(Put(c, i, [s EXCEPT !.state = "DONE", !.status = "CANCELLED",
                                               !.err = "none"]), "END")

handle_goaway(c) == [complete_all_streams(c) EXCEPT !.dead = "GOAWAY"]

process_one_frame(c, f) ==
    CASE f.t = "DATA" -> handle_data_frame(c, f)
      [] f.t = "HEADERS" -> handle_header_block(c, f)
      [] f.t = "RST" -> handle_rst_stream(c, f)
      [] f.t = "GOAWAY" -> handle_goaway(c)
      [] f.t = "BAD" -> Refuse(c)
      [] f.t = "EOF" -> conn_fail(c, "IO")

(* conn_poll_once: a batch, then the most important thing that happened.   *)
conn_poll_once(c, frames) ==
    FoldLeft(LAMBDA acc, f : IF acc.stop THEN acc ELSE process_one_frame(acc, f),
             [c EXCEPT !.stop = FALSE, !.ev = {}], frames)

EventOf(c) ==
    CASE c.dead # "no" -> c.dead
      [] c.dead = "no" /\ "MSG" \in c.ev -> "MSG"
      [] c.dead = "no" /\ c.ev = {"END"} -> "END"
      [] OTHER -> "NONE"

-----------------------------------------------------------------------------
(* A new connection state: its frames are on the wire, its envelopes have  *)
(* been passed to the callback.                                            *)
Settle(c) ==
    /\ conn' = [c EXCEPT !.out = <<>>, !.ev = {}, !.cb = <<>>]
    /\ c2s' = c2s \o c.out
    /\ got' = FoldLeft(LAMBDA g, d : [g EXCEPT ![d.sid] = Append(@, d.m)], got, c.cb)

Daemon == <<s2c, srv, srvConn, sent>>

(* gaveUp holds the streams whose slot was freed while they were open, and *)
(* this mark once the client has aborted any.                              *)
Aborted == MaxStreams + 1

(* A slot taken over while the daemon may still be sending on it.          *)
Reclaims(i) == gaveUp \cup (IF conn.slots[i].inUse /\ srv[conn.slots[i].sid].st # "ended"
                            THEN {conn.slots[i].sid} ELSE {})

(* stream_alloc and send_request; a socket the daemon closed refuses.      *)
Submit(type, sent_) ==
    \E i \in {stream_alloc(conn)} :
        /\ i # 0
        /\ nextSid' = nextSid + 1
        /\ gaveUp' = Reclaims(i)
        /\ \E fresh \in {Put(conn, i, FreshSlot(nextSid, type))} :
             IF sent_ THEN Settle(Emit(fresh, [t |-> "REQ", sid |-> nextSid, n |-> 0]))
             ELSE Settle(Put(fresh, i, stream_destroy(fresh.slots[i])))

Refusal(op, rc) ==
    Answer(op, 0, rc, <<>>) /\ UNCHANGED <<conn, c2s, got, nextSid, gaveUp, call, handle>>

CcUnary ==
    /\ call = Idle /\ nextSid \in Sids /\ "UNARY" \in StreamTypes
    /\ \/ conn.dead # "no" /\ Refusal("unary", DeadCode)
       \/ conn.dead = "no" /\ stream_alloc(conn) = 0 /\ Refusal("unary", "NOSTREAM")
       \/ /\ conn.dead = "no" /\ srvConn.up # "closed" /\ Submit("UNARY", TRUE)
          /\ call' = [op |-> "unary", slot |-> stream_alloc(conn)] /\ UNCHANGED <<ret, handle>>
       \/ /\ conn.dead = "no" /\ srvConn.up = "closed" /\ Submit("UNARY", FALSE)
          /\ Answer("unary", nextSid, "IO", <<>>) /\ UNCHANGED <<call, handle>>
    /\ UNCHANGED Daemon

CcSubscribe ==
    /\ call = Idle /\ nextSid \in Sids /\ "SUBSCRIBE" \in StreamTypes /\ handle = NoHandle
    /\ LET live == Cardinality({i \in 1 .. NSlots : conn.slots[i].inUse})
           free == conn.dead = "no" /\ live < SrvMaxStreams
       IN  \/ (~free \/ stream_alloc(conn) = 0) /\ Refusal("subscribe", "REFUSED")
           \/ /\ free /\ srvConn.up # "closed" /\ Submit("SUBSCRIBE", TRUE)
              /\ handle' = [slot |-> 0, sid |-> nextSid]
              /\ Answer("subscribe", nextSid, "OK", <<>>) /\ UNCHANGED call
           \/ /\ free /\ srvConn.up = "closed" /\ Submit("SUBSCRIBE", FALSE)
              /\ Answer("subscribe", nextSid, "REFUSED", <<>>) /\ UNCHANGED <<call, handle>>
    /\ UNCHANGED Daemon

(* The end of cc_grpc_unary.  complete_all_streams has ended the stream of *)
(* a connection that died, so that is its result.                          *)
UnaryReturn(c) ==
    LET s == c.slots[call.slot]
    IN  /\ Settle(Put(c, call.slot, stream_destroy(s)))
        /\ Answer("unary", s.sid, Final(s), IF Final(s) = "OK" THEN s.buf ELSE <<>>)
        /\ call' = Idle
        /\ gaveUp' = gaveUp \cup (IF srv[s.sid].st # "ended" THEN {s.sid} ELSE {})
                             \cup (IF s.err # "none" THEN {Aborted} ELSE {})

(* One pass of its loop.                                                   *)
UnaryPoll ==
    /\ call.op = "unary"
    /\ \E k \in 1 .. Len(s2c) : \E c \in {conn_poll_once(conn, SubSeq(s2c, 1, k))} :
         /\ s2c' = SubSeq(s2c, k + 1, Len(s2c))
         /\ IF c.slots[call.slot].state = "DONE" THEN UnaryReturn(c)
            ELSE Settle(c) /\ UNCHANGED <<ret, call, gaveUp>>
    /\ UNCHANGED <<handle, nextSid, srv, srvConn, sent>>

(* The local deadline: the slot is freed, and the daemon is not told.      *)
UnaryTimeout ==
    /\ Deadlines /\ call.op = "unary"
    /\ LET s == conn.slots[call.slot]
       IN  /\ Settle(Put(conn, call.slot, stream_destroy(s)))
           /\ Answer("unary", s.sid, "TIMEOUT", <<>>)
           /\ gaveUp' = gaveUp \cup {s.sid}
    /\ call' = Idle
    /\ UNCHANGED <<handle, nextSid, Daemon>>

CcPoll ==
    /\ call = Idle /\ conn.dead # "closed"
    /\ \E k \in 0 .. (IF conn.dead = "no" THEN Len(s2c) ELSE 0) :
       \E c \in {conn_poll_once(conn, SubSeq(s2c, 1, k))} :
         /\ s2c' = SubSeq(s2c, k + 1, Len(s2c))
         /\ Settle(c)
         /\ Answer("poll", handle.sid, EventOf(c), <<>>)
    /\ UNCHANGED <<call, handle, nextSid, srv, srvConn, sent, gaveUp>>

(* cc_grpc_cancel: the stream is done, and its frames will be dropped.     *)
CcCancel ==
    /\ call = Idle /\ handle # NoHandle
    /\ \E i \in {stream_find(conn, handle.sid)} :
         IF conn.dead # "no" \/ i = 0
         THEN /\ Answer("cancel", handle.sid, IF i = 0 THEN "NOSTREAM" ELSE "NOCONN", <<>>)
              /\ UNCHANGED <<conn, c2s, got>>
         ELSE LET s == conn.slots[i]
                  off == Put(conn, i, [s EXCEPT !.state = "DONE", !.status = "CANCELLED",
                                                !.err = "CANCEL"])
              IN  /\ Answer("cancel", handle.sid, "OK", <<>>)
                  /\ Settle(IF s.state = "DONE" THEN conn ELSE frame_write_rst(off, s.sid))
    /\ handle' = NoHandle /\ gaveUp' = gaveUp \cup {Aborted}
    /\ UNCHANGED <<call, nextSid, Daemon>>

(* cc_grpc_stream_status: "OK" is 0, which also says the stream is active. *)
StatusOf(c, sid) ==
    LET i == stream_find(c, sid)
    IN  IF i = 0 THEN "NOSTREAM" ELSE IF c.slots[i].state # "DONE" THEN "OK"
        ELSE Final(c.slots[i])

CcStatus ==
    /\ call = Idle /\ handle # NoHandle
    /\ Answer("status", handle.sid, StatusOf(conn, handle.sid), <<>>)
    /\ UNCHANGED <<conn, c2s, got, call, handle, nextSid, gaveUp, Daemon>>

CcClose == CloseConn

CcNext ==
    \/ CcUnary \/ CcSubscribe \/ UnaryPoll \/ UnaryTimeout \/ CcPoll
    \/ CcCancel \/ CcStatus \/ CcClose
    \/ SrvRead \/ SrvSends
    \/ \E sid \in Sids : SrvRst(sid) \/ \E st \in {"OK", "NOTFOUND"} : SrvTrailers(sid, st)
    \/ \E t \in {"GOAWAY", "EOF"} : SrvDies(t)
    \/ SrvMisbehaves

CcSpec == CcInit /\ [][CcNext]_vars

-----------------------------------------------------------------------------
(* The callback sees what the daemon wrote on a stream, in order, whole    *)
(* and once, however the bytes were framed and whatever else the           *)
(* connection went through (stream_feed_data).                             *)
EnvelopesInOrder == ~srvConn.bad => \A sid \in Sids : IsPrefix(got[sid], sent[sid])

(* While no stream was aborted or given up, everything the daemon sent on  *)
(* the connection is on its way or has been credited: handle_data_frame    *)
(* credits each frame it accepts, also one that ends in a stream error.    *)
OnWire == srvConn.credit + UnitsOf(s2c, LAMBDA x : TRUE) + GrantsOf(c2s, 0)
Healthy == conn.dead = "no" /\ ~srvConn.bad /\ srvConn.up # "closed"
AcceptedIsCredited ==
    (Healthy /\ gaveUp = {} /\ \A i \in 1 .. NSlots : conn.slots[i].err = "none")
        => OnWire = InitWin

(* A unary call that succeeds returns the daemon's one message, and the    *)
(* daemon finished that call (cc_grpc_unary).                              *)
UnaryAnswer ==
    (ret.op = "unary" /\ ret.rc = "OK") =>
        /\ srv[ret.sid].st = "ended"
        /\ ~srvConn.bad => IF sent[ret.sid] = <<>> THEN ret.msg = <<>>
                           ELSE ret.msg = sent[ret.sid][1].body /\ Len(sent[ret.sid]) = 1

(* No frame of a daemon that keeps to the protocol fails the connection    *)
(* unless the client freed the slot of a stream that was still open: a     *)
(* cancelled stream alone is drained (handle_header_block,                 *)
(* handle_data_frame).                                                     *)
RefusalExplained == conn.dead = "PROTO" => srvConn.bad \/ gaveUp \cap Sids # {}

(* No slot stays taken by a unary call that has returned (stream_destroy   *)
(* on every path out of cc_grpc_unary).                                    *)
NoUnaryLeftBehind ==
    call = Idle => \A i \in 1 .. NSlots : conn.slots[i].inUse => conn.slots[i].type = "SUBSCRIBE"

(* cc_grpc.h on cc_grpc_subscribe: "when the server ends it (trailers) or  *)
(* it fails, cc_grpc_poll returns CC_GRPC_EV_STREAM_END / an error".       *)
Active(c, sid) == LET i == stream_find(c, sid) IN i # 0 /\ c.slots[i].state # "DONE"
=============================================================================
