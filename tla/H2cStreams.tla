----------------------------- MODULE H2cStreams -----------------------------
(***************************************************************************)
(* The receive side of the HTTP/2 client in containerd/h2c.c: stream       *)
(* slots, frame dispatch, the gRPC message reassembler, receive windows,   *)
(* and the calls (h2c_unary, h2c_stream_open/next/close) that pump the     *)
(* connection from one thread.                                             *)
(*                                                                         *)
(* The daemon is the environment.  It keeps to HTTP/2 and gRPC (flow       *)
(* control, HEADERS then DATA then trailers, silence once it has seen our  *)
(* RST_STREAM) unless PeerConforms is FALSE, and it may send GOAWAY or     *)
(* close the socket.  Both directions of the socket are FIFO.              *)
(*                                                                         *)
(* Bytes are units: a gRPC message is HdrLen header units, each holding    *)
(* the body length (Compressed marks the flag byte), then the body units,  *)
(* each holding the number of the message.  Requests fit the send window   *)
(* here; H2cSend is about the ones that do not.                            *)
(***************************************************************************)
EXTENDS Integers, Sequences, FiniteSets, SequencesExt

CONSTANTS NSlots,        \* H2C_MAX_STREAMS
          InitWin,       \* H2_INIT_WINDOW
          HdrLen,        \* the 5-byte gRPC message header
          MaxMsg,        \* H2C_MAX_MSG
          QueueMax,      \* H2C_QUEUE_MAX_BYTES
          RespCap,       \* the response buffer of a unary caller
          Bodies,        \* body lengths the daemon may answer with
          MaxStreams,    \* bound: streams opened in a behaviour
          MaxMsgs,       \* bound: messages per stream
          MaxFrames,     \* bound: frames in flight from the daemon
          StreamTypes,   \* which calls the client makes
          PeerConforms,  \* the daemon never breaks the protocol
          PeerDies,      \* the daemon may send GOAWAY or close
          Deadlines      \* local deadlines may expire

SizesAssumption ==
    /\ NSlots \in Nat \ {0} /\ InitWin \in Nat \ {0} /\ HdrLen \in Nat \ {0}
    /\ MaxMsg \in Nat /\ QueueMax \in Nat /\ RespCap \in Nat
    /\ Bodies \subseteq Nat

Sids == 1 .. MaxStreams
Compressed == -1

VARIABLES conn,     \* struct strim_h2c
          call,     \* the API call in progress on the driving thread
          handle,   \* the stream handle the caller holds: [slot, sid]
          ret,      \* what the last call returned
          nextSid,
          s2c, c2s, \* frames in flight
          srv,      \* the daemon's side of each stream
          srvConn,  \* the daemon's side of the connection
          sent, got,
          gaveUp    \* streams the client dropped before their end

vars == <<conn, call, handle, ret, nextSid, s2c, c2s, srv, srvConn, sent, got,
          gaveUp>>

NoHandle == [slot |-> 0, sid |-> 0]
Idle == [op |-> "idle", slot |-> 0]

(* A slot after memset; stream_destroy only frees what the slot owns.      *)
FreeSlot == [inUse |-> FALSE, sid |-> 0, type |-> "UNARY", state |-> "SENT",
             saw |-> FALSE, status |-> "OK", err |-> "none", win |-> 0,
             fill |-> 0, mlen |-> 0, buf |-> <<>>, q |-> <<>>, msgs |-> 0]

Destroyed(s) == [s EXCEPT !.inUse = FALSE, !.q = <<>>]

(***************************************************************************)
(* stream_alloc: the lowest unused slot, else the first finished one       *)
(* (destroyed and taken over), else none.                                  *)
(***************************************************************************)
LowestOf(S) == CHOOSE i \in S : \A j \in S : i <= j

AllocSlot(c) ==
    LET unused == {i \in 1 .. NSlots : ~c.slots[i].inUse}
        done == {i \in 1 .. NSlots : c.slots[i].state = "DONE"}
    IN  IF unused # {} THEN LowestOf(unused)
        ELSE IF done # {} THEN LowestOf(done) ELSE 0

FreshSlot(sid, type) ==
    [FreeSlot EXCEPT !.inUse = TRUE, !.sid = sid, !.type = type, !.win = InitWin]

(* stream_find: 0 stands for NULL.                                         *)
FindSlot(c, sid) ==
    LET S == {i \in 1 .. NSlots : c.slots[i].inUse /\ c.slots[i].sid = sid}
    IN  IF S = {} THEN 0 ELSE LowestOf(S)

Put(c, i, s) == [c EXCEPT !.slots[i] = s]
Emit(c, f) == [c EXCEPT !.out = Append(@, f)]

(* complete_all_streams, and the two ways a connection dies.               *)
CompleteAll(c) ==
    [c EXCEPT !.slots = [i \in 1 .. NSlots |->
        IF c.slots[i].inUse /\ c.slots[i].state # "DONE"
        THEN [c.slots[i] EXCEPT !.state = "DONE", !.status = "UNAVAILABLE",
                                !.err = "none"]
        ELSE c.slots[i]]]

ConnFail(c, code) ==
    [(IF c.dead # "no" THEN c ELSE [CompleteAll(c) EXCEPT !.dead = code])
        EXCEPT !.stop = TRUE]

StreamAbort(c, i, code) ==
    Emit(Put(c, i, [c.slots[i] EXCEPT !.state = "DONE", !.status = "INTERNAL",
                                      !.err = code]),
         [t |-> "RST", sid |-> c.slots[i].sid, n |-> 0])

(* Mutant: the connection's WINDOW_UPDATE is forgotten.                    *)
CreditStreamOnly(c, i, total) ==
    Emit([c EXCEPT !.win = @ + total, !.slots[i].win = @ + total],
         [t |-> "WU", sid |-> c.slots[i].sid, n |-> total])

(* stream_credit_message: both windows and both WINDOW_UPDATEs together.   *)
Credit(c, i, total) ==
    Emit(Emit([c EXCEPT !.win = @ + total, !.slots[i].win = @ + total],
              [t |-> "WU", sid |-> c.slots[i].sid, n |-> total]),
         [t |-> "WU", sid |-> 0, n |-> total])

(***************************************************************************)
(* stream_feed_data, a unit at a time.  `halted' is the early return of an *)
(* abort: the rest of the frame is dropped.                                *)
(***************************************************************************)

MessageComplete(c, i) ==
    LET s == c.slots[i]
        body == [len |-> s.mlen, body |-> s.buf]
        reset == [s EXCEPT !.fill = 0]
        queued == FoldLeft(LAMBDA n, m : n + m.len, 0, s.q)
    IN  CASE s.type = "SUBSCRIBE" /\ queued + s.mlen > QueueMax ->
                StreamAbort(c, i, "PROTO")
          [] s.type = "SUBSCRIBE" /\ queued + s.mlen <= QueueMax ->
                Put(c, i, [reset EXCEPT !.q = Append(@, body), !.buf = <<>>])
          [] s.type = "UNARY" /\ s.msgs > 0 ->
                StreamAbort(Put(c, i, [s EXCEPT !.msgs = @ + 1]), i, "PROTO")
          [] s.type = "UNARY" /\ s.msgs = 0 ->
                Credit(Put(c, i, [reset EXCEPT !.msgs = 1]), i, s.mlen + HdrLen)

HeaderComplete(c, i, u) ==
    LET s == c.slots[i]
        c1 == Put(c, i, [s EXCEPT !.fill = HdrLen, !.mlen = u, !.buf = <<>>])
    IN  CASE u = Compressed -> StreamAbort(c, i, "PROTO")
          [] u # Compressed /\ u > MaxMsg -> StreamAbort(c, i, "TOOBIG")
          [] u # Compressed /\ u <= MaxMsg /\ s.type = "UNARY" /\ u > RespCap ->
                Emit(Put(c, i, [s EXCEPT !.state = "DONE", !.err = "TOOBIG",
                                         !.status = "OK"]),
                     [t |-> "RST", sid |-> s.sid, n |-> 0])
          [] OTHER -> IF u = 0 THEN MessageComplete(c1, i) ELSE c1

FeedUnit(c, i, u) ==
    LET s == c.slots[i]
        grown == Put(c, i, [s EXCEPT !.buf = Append(@, u)])
    IN  CASE s.state = "DONE" -> c
          [] s.state # "DONE" /\ s.fill < HdrLen - 1 ->
                Put(c, i, [s EXCEPT !.fill = @ + 1])
          [] s.state # "DONE" /\ s.fill = HdrLen - 1 -> HeaderComplete(c, i, u)
          [] s.state # "DONE" /\ s.fill = HdrLen ->
                IF Len(s.buf) + 1 = s.mlen THEN MessageComplete(grown, i) ELSE grown

StreamFeedData(c, i, units) ==
    FoldLeft(LAMBDA acc, u : FeedUnit(acc, i, u), c, units)

(***************************************************************************)
(* Frame dispatch (process_one_frame and its handlers).                    *)
(***************************************************************************)
Protocol(c) == ConnFail(c, "PROTO")

HandleData(c, f) ==
    LET i == FindSlot(c, f.sid)
        n == Len(f.units)
        taken == [c EXCEPT !.win = @ - n, !.slots[i].win = @ - n]
        fed == StreamFeedData(taken, i, f.units)
    IN  CASE i = 0 -> Protocol(c)
          [] i # 0 /\ c.slots[i].state = "DONE" ->
                IF c.slots[i].err # "none" THEN c ELSE Protocol(c)
          [] i # 0 /\ c.slots[i].state # "DONE" /\ (c.win < n \/ c.slots[i].win < n) ->
                Protocol(c)
          [] OTHER -> IF f.end /\ fed.slots[i].fill = HdrLen
                      THEN StreamAbort(fed, i, "PROTO") ELSE fed

(* handle_header_block: st is "none" for initial headers, otherwise the    *)
(* grpc-status of a trailer (or of a trailers-only response).              *)
HandleHeaders(c, f) ==
    LET i == FindSlot(c, f.sid)
        s == c.slots[i]
    IN  CASE i = 0 -> Protocol(c)
          [] i # 0 /\ s.state = "DONE" /\ s.err # "none" -> c
          [] i # 0 /\ ~(s.state = "DONE" /\ s.err # "none") /\ f.st # "none" ->
                Put(c, i, [s EXCEPT !.state = "DONE", !.status = f.st, !.err = "none"])
          [] OTHER -> IF s.state = "SENT"
                      THEN Put(c, i, [s EXCEPT !.state = "HEADERS", !.saw = TRUE])
                      ELSE Protocol(c)

HandleRst(c, f) ==
    LET i == FindSlot(c, f.sid)
    IN  CASE i = 0 -> c
          [] i # 0 /\ c.slots[i].state = "DONE" -> Put(c, i, Destroyed(c.slots[i]))
          [] i # 0 /\ c.slots[i].state # "DONE" ->
                Put(c, i, [c.slots[i] EXCEPT !.state = "DONE", !.status = "CANCELLED",
                                             !.err = "none"])

HandleGoaway(c) == [CompleteAll(c) EXCEPT !.dead = "GOAWAY"]

ProcessFrame(c, f) ==
    CASE f.t = "DATA" -> HandleData(c, f)
      [] f.t = "HEADERS" -> HandleHeaders(c, f)
      [] f.t = "RST" -> HandleRst(c, f)
      [] f.t = "GOAWAY" -> HandleGoaway(c)
      [] f.t = "BAD" -> Protocol(c)
      [] f.t = "EOF" -> ConnFail(c, "IO")

(* conn_poll_once over a batch: it goes on after a GOAWAY (only a negative *)
(* result stops it) and stops at the frame that failed the connection.     *)
PollBatch(c, frames) ==
    FoldLeft(LAMBDA acc, f : IF acc.stop THEN acc ELSE ProcessFrame(acc, f),
             [c EXCEPT !.stop = FALSE], frames)

-----------------------------------------------------------------------------
SrvStream == [st |-> "none", hdrs |-> FALSE, pending |-> <<>>, credit |-> 0]

Init ==
    /\ conn = [dead |-> "no", stop |-> FALSE, win |-> InitWin, out |-> <<>>,
               slots |-> [i \in 1 .. NSlots |-> FreeSlot]]
    /\ call = Idle /\ handle = NoHandle /\ nextSid = 1
    /\ ret = [op |-> "none", sid |-> 0, rc |-> "OK", msg |-> <<>>]
    /\ s2c = <<>> /\ c2s = <<>>
    /\ srv = [i \in Sids |-> SrvStream]
    /\ srvConn = [up |-> "up", credit |-> InitWin, bad |-> FALSE]
    /\ sent = [i \in Sids |-> <<>>] /\ got = [i \in Sids |-> <<>>]
    /\ gaveUp = {}

(* Commit a new connection state: what it emitted is now on the wire.      *)
Commit(c) == conn' = [c EXCEPT !.out = <<>>] /\ c2s' = c2s \o c.out

Answer(op, sid, rc, msg) == ret' = [op |-> op, sid |-> sid, rc |-> rc, msg |-> msg]

(* The code a dead connection answers with.                                *)
DeadCode == IF conn.dead = "GOAWAY" THEN "GOAWAY" ELSE "IO"

(***************************************************************************)
(* h2c_unary and h2c_stream_open up to the request being on the wire.  A   *)
(* send to a socket the daemon has closed fails (EPIPE).                   *)
(***************************************************************************)
StartCall(type) ==
    LET i == AllocSlot(conn)
        op == IF type = "UNARY" THEN "unary" ELSE "open"
        fresh == Put(conn, i, FreshSlot(nextSid, type))
    IN  /\ call = Idle /\ nextSid \in Sids /\ type \in StreamTypes
        /\ type = "SUBSCRIBE" => handle = NoHandle
        /\ IF conn.dead # "no"
           THEN /\ Answer(op, 0, DeadCode, <<>>)
                /\ UNCHANGED <<conn, c2s, call, nextSid>>
           ELSE IF i = 0
           THEN /\ Answer(op, 0, "NOSTREAM", <<>>)
                /\ UNCHANGED <<conn, c2s, call, nextSid>>
           ELSE /\ nextSid' = nextSid + 1
                /\ IF srvConn.up = "closed"
                   THEN /\ Commit(Put(fresh, i, Destroyed(fresh.slots[i])))
                        /\ Answer(op, nextSid, "IO", <<>>)
                        /\ UNCHANGED call
                   ELSE /\ Commit(Emit(fresh, [t |-> "REQ", sid |-> nextSid, n |-> 0]))
                        /\ call' = [op |-> op, slot |-> i]
                        /\ UNCHANGED ret
        /\ UNCHANGED <<handle, s2c, srv, srvConn, sent, got, gaveUp>>

StartUnary == StartCall("UNARY")
StartOpen == StartCall("SUBSCRIBE")

(* A stream dropped while the daemon may still be sending on it.           *)
Abandons(s) == s.inUse /\ (s.state # "DONE" \/ s.err # "none")
DropOf(s) == gaveUp \cup (IF Abandons(s) THEN {s.sid} ELSE {})

(* What a finished stream reports: a local error, the clean end, a status. *)
Final(s) == IF s.err # "none" THEN s.err ELSE s.status

(* The tail of h2c_unary once the stream is done.                          *)
UnaryEnds(c) ==
    LET s == c.slots[call.slot]
    IN  /\ Commit(Put(c, call.slot, Destroyed(s)))
        /\ Answer("unary", s.sid, Final(s), IF Final(s) = "OK" THEN s.buf ELSE <<>>)
        /\ call' = Idle
        /\ gaveUp' = DropOf(s)
        /\ UNCHANGED handle

(* The tail of h2c_stream_open once the grace loop is left.                *)
OpenEnds(c) ==
    LET s == c.slots[call.slot]
        refused == s.err # "none" \/ (s.state = "DONE" /\ ~s.saw)
        rc == IF Final(s) = "OK" THEN "END" ELSE Final(s)
    IN  /\ call' = Idle
        /\ IF refused
           THEN /\ Commit(Put(c, call.slot, Destroyed(s)))
                /\ Answer("open", s.sid, rc, <<>>)
                /\ gaveUp' = DropOf(s)
                /\ UNCHANGED handle
           ELSE /\ Commit(c)
                /\ Answer("open", s.sid, "OK", <<>>)
                /\ handle' = [slot |-> call.slot, sid |-> s.sid]
                /\ UNCHANGED gaveUp

(***************************************************************************)
(* One conn_poll_once of the waiting call: the first k frames in flight,   *)
(* then the loop condition of the call.                                    *)
(***************************************************************************)
Waiting ==
    /\ call # Idle
    /\ call.op = "next" => /\ conn.slots[call.slot].q = <<>>
                           /\ conn.slots[call.slot].state # "DONE"

Pump ==
    /\ Waiting
    /\ \E k \in 1 .. Len(s2c) :
        LET c == PollBatch(conn, SubSeq(s2c, 1, k))
            s == c.slots[call.slot]
        IN  /\ s2c' = SubSeq(s2c, k + 1, Len(s2c))
            /\ CASE call.op = "unary" /\ s.state = "DONE" -> UnaryEnds(c)
                 [] call.op = "open" /\ s.state # "SENT" -> OpenEnds(c)
                 [] OTHER -> Commit(c) /\ UNCHANGED <<call, handle, ret, gaveUp>>
    /\ UNCHANGED <<nextSid, srv, srvConn, sent, got>>

(* The local deadline of the waiting call.                                 *)
Deadline ==
    /\ Deadlines /\ Waiting
    /\ LET s == conn.slots[call.slot]
       IN  CASE call.op = "unary" ->
                  /\ Commit(Emit(Put(conn, call.slot, Destroyed(s)),
                                 [t |-> "RST", sid |-> s.sid, n |-> 0]))
                  /\ Answer("unary", s.sid, "TIMEOUT", <<>>)
                  /\ call' = Idle /\ gaveUp' = DropOf(s)
                  /\ UNCHANGED handle
             [] call.op = "open" -> OpenEnds(conn)
             [] call.op = "next" ->
                  /\ Answer("next", s.sid, "TIMEOUT", <<>>)
                  /\ call' = Idle /\ UNCHANGED <<conn, c2s, handle, gaveUp>>
    /\ UNCHANGED <<nextSid, s2c, srv, srvConn, sent, got>>

(* h2c_stream_next: entry, then the queue, then the end of the stream.     *)
StartNext ==
    /\ call = Idle /\ handle # NoHandle
    /\ IF conn.slots[handle.slot].inUse
       THEN call' = [op |-> "next", slot |-> handle.slot] /\ UNCHANGED ret
       ELSE Answer("next", handle.sid, "CLOSED", <<>>) /\ UNCHANGED call
    /\ UNCHANGED <<conn, handle, nextSid, s2c, c2s, srv, srvConn, sent, got, gaveUp>>

(* Mutant: handing out a message gives no credit back.                     *)
PopMessageNoCredit ==
    LET s == conn.slots[call.slot]
    IN  /\ call.op = "next" /\ s.q # <<>>
        /\ Commit(Put(conn, call.slot, [s EXCEPT !.q = Tail(@)]))
        /\ Answer("next", s.sid, "OK", Head(s.q).body)
        /\ got' = [got EXCEPT ![handle.sid] = Append(@, Head(s.q))]
        /\ call' = Idle
        /\ UNCHANGED <<handle, nextSid, s2c, srv, srvConn, sent, gaveUp>>

(* Mutant: the newest message is handed out first.                         *)
PopMessageNewest ==
    LET s == conn.slots[call.slot]
        m == s.q[Len(s.q)]
        popped == Put(conn, call.slot, [s EXCEPT !.q = SubSeq(@, 1, Len(@) - 1)])
    IN  /\ call.op = "next" /\ s.q # <<>>
        /\ Commit(Credit(popped, call.slot, m.len + HdrLen))
        /\ Answer("next", s.sid, "OK", m.body)
        /\ got' = [got EXCEPT ![handle.sid] = Append(@, m)]
        /\ call' = Idle
        /\ UNCHANGED <<handle, nextSid, s2c, srv, srvConn, sent, gaveUp>>

PopMessage ==
    LET s == conn.slots[call.slot]
        m == Head(s.q)
        popped == Put(conn, call.slot, [s EXCEPT !.q = Tail(@)])
    IN  /\ call.op = "next" /\ s.q # <<>>
        /\ Commit(Credit(popped, call.slot, m.len + HdrLen))
        /\ Answer("next", s.sid, "OK", m.body)
        /\ got' = [got EXCEPT ![handle.sid] = Append(@, m)]
        /\ call' = Idle
        /\ UNCHANGED <<handle, nextSid, s2c, srv, srvConn, sent, gaveUp>>

NextEnds ==
    LET s == conn.slots[call.slot]
    IN  /\ call.op = "next" /\ s.q = <<>> /\ s.state = "DONE"
        /\ Answer("next", s.sid, IF Final(s) = "OK" THEN "END" ELSE Final(s), <<>>)
        /\ call' = Idle
        /\ UNCHANGED <<conn, handle, nextSid, s2c, c2s, srv, srvConn, sent, got,
                       gaveUp>>

(* h2c_stream_close.                                                       *)
CloseStream ==
    LET s == conn.slots[handle.slot]
        gone == Put(conn, handle.slot, [Destroyed(s) EXCEPT !.state = "DONE"])
    IN  /\ call = Idle /\ handle # NoHandle
        /\ IF ~s.inUse THEN UNCHANGED <<conn, c2s>>
           ELSE Commit(IF conn.dead = "no" /\ s.state # "DONE"
                       THEN Emit(gone, [t |-> "RST", sid |-> s.sid, n |-> 0])
                       ELSE gone)
        /\ handle' = NoHandle
        /\ gaveUp' = DropOf(s)
        /\ UNCHANGED <<call, ret, nextSid, s2c, srv, srvConn, sent, got>>

(* h2c_close: live streams are cancelled, the handle is gone.              *)
CloseConn ==
    LET live == {i \in 1 .. NSlots : conn.slots[i].inUse
                                     /\ conn.slots[i].state # "DONE"}
        cancels == [j \in 1 .. Cardinality(live) |->
                       [t |-> "RST", n |-> 0,
                        sid |-> conn.slots[SetToSortSeq(live, <)[j]].sid]]
    IN  /\ call = Idle /\ conn.dead # "closed"
        /\ Commit([conn EXCEPT !.dead = "closed", !.out = cancels,
                               !.slots = [i \in 1 .. NSlots |-> Destroyed(@[i])]])
        /\ handle' = NoHandle /\ nextSid' = MaxStreams + 1
        /\ UNCHANGED <<call, ret, s2c, srv, srvConn, sent, got, gaveUp>>

-----------------------------------------------------------------------------
(* The daemon.                                                             *)
Client == <<conn, call, handle, ret, nextSid, got, gaveUp>>

Say(f) == Len(s2c) < MaxFrames /\ s2c' = Append(s2c, f)
Speaking(sid) == srvConn.up = "up" /\ srv[sid].st = "open"

SrvRead ==
    LET f == Head(c2s)
    IN  /\ c2s # <<>> /\ c2s' = Tail(c2s)
        /\ srv' = CASE f.t = "REQ" -> [srv EXCEPT ![f.sid].st = "open",
                                                  ![f.sid].credit = InitWin]
                     [] f.t = "RST" -> [srv EXCEPT ![f.sid].st = "ended"]
                     [] f.t = "WU" /\ f.sid # 0 -> [srv EXCEPT ![f.sid].credit = @ + f.n]
                     [] OTHER -> srv
        /\ srvConn' = IF f.t = "WU" /\ f.sid = 0
                      THEN [srvConn EXCEPT !.credit = @ + f.n] ELSE srvConn
        /\ UNCHANGED <<Client, s2c, sent>>

SrvHeaders(sid) ==
    /\ Speaking(sid) /\ ~srv[sid].hdrs
    /\ Say([t |-> "HEADERS", sid |-> sid, st |-> "none"])
    /\ srv' = [srv EXCEPT ![sid].hdrs = TRUE]
    /\ UNCHANGED <<Client, c2s, srvConn, sent>>

SrvMessage(sid, b) ==
    LET m == [len |-> b, body |-> [j \in 1 .. b |-> Len(sent[sid]) + 1]]
    IN  /\ Speaking(sid) /\ srv[sid].hdrs /\ Len(sent[sid]) < MaxMsgs
        /\ sent' = [sent EXCEPT ![sid] = Append(@, m)]
        /\ srv' = [srv EXCEPT ![sid].pending = @ \o [j \in 1 .. HdrLen |-> b] \o m.body]
        /\ UNCHANGED <<Client, s2c, c2s, srvConn>>

SrvData(sid) ==
    /\ Speaking(sid)
    /\ \E n \in 1 .. Len(srv[sid].pending) :
        /\ n <= srv[sid].credit /\ n <= srvConn.credit
        /\ Say([t |-> "DATA", sid |-> sid, end |-> FALSE,
                units |-> SubSeq(srv[sid].pending, 1, n)])
        /\ srv' = [srv EXCEPT ![sid].credit = @ - n,
                   ![sid].pending = SubSeq(@, n + 1, Len(@))]
        /\ srvConn' = [srvConn EXCEPT !.credit = @ - n]
    /\ UNCHANGED <<Client, c2s, sent>>

SrvTrailers(sid, st) ==
    /\ Speaking(sid) /\ srv[sid].pending = <<>>
    /\ Say([t |-> "HEADERS", sid |-> sid, st |-> st])
    /\ srv' = [srv EXCEPT ![sid].st = "ended"]
    /\ UNCHANGED <<Client, c2s, srvConn, sent>>

SrvRst(sid) ==
    /\ Speaking(sid)
    /\ Say([t |-> "RST", sid |-> sid])
    /\ srv' = [srv EXCEPT ![sid].st = "ended"]
    /\ UNCHANGED <<Client, c2s, srvConn, sent>>

SrvDies(t) ==
    /\ PeerDies /\ srvConn.up = "up"
    /\ Say([t |-> t])
    /\ srvConn' = [srvConn EXCEPT !.up = IF t = "EOF" THEN "closed" ELSE "goaway"]
    /\ UNCHANGED <<Client, c2s, srv, sent>>

(* A daemon that breaks the protocol: a frame the handlers refuse, a       *)
(* compressed message, a stream ended in the middle of a message.          *)
SrvMisbehaves ==
    /\ ~PeerConforms /\ ~srvConn.bad /\ srvConn.up = "up"
    /\ \/ Say([t |-> "BAD"]) /\ UNCHANGED srv
       \/ \E sid \in Sids :
            /\ Speaking(sid) /\ srv[sid].hdrs
            /\ Say([t |-> "DATA", sid |-> sid, end |-> TRUE,
                    units |-> IF srv[sid].pending = <<>>
                              THEN [j \in 1 .. HdrLen |-> Compressed] ELSE <<>>])
            /\ srv' = [srv EXCEPT ![sid].st = "ended"]
    /\ srvConn' = [srvConn EXCEPT !.bad = TRUE]
    /\ UNCHANGED <<Client, c2s, sent>>

SrvSends ==
    \E sid \in Sids :
        \/ SrvHeaders(sid) \/ SrvData(sid)
        \/ \E b \in Bodies : SrvMessage(sid, b)

Next ==
    \/ StartUnary \/ StartOpen
    \/ Pump \/ Deadline \/ StartNext \/ PopMessage \/ NextEnds
    \/ CloseStream \/ CloseConn
    \/ SrvRead \/ SrvSends
    \/ \E sid \in Sids : SrvRst(sid) \/ \E st \in {"OK", "NOTFOUND"} : SrvTrailers(sid, st)
    \/ \E t \in {"GOAWAY", "EOF"} : SrvDies(t)
    \/ SrvMisbehaves

Spec == Init /\ [][Next]_vars

(***************************************************************************)
(* Fairness for the liveness properties.  A call in progress polls, hands  *)
(* out what is queued and reports the end; a poll may be pre-empted by the *)
(* deadline again and again, yet each call polls before it looks at the    *)
(* clock, so polling is strongly fair.  The caller keeps asking for the    *)
(* next message, and the daemon reads its socket and sends what its        *)
(* windows allow.  (For the actions that poll and consume, SF and WF are    *)
(* written out with their enabling conditions.)                            *)
(***************************************************************************)
PumpReady == Waiting /\ s2c # <<>>
CallerReady ==
    \/ call = Idle /\ handle # NoHandle /\ conn.slots[handle.slot].inUse
    \/ call.op = "next" /\ ~Waiting

Fairness ==
    /\ <>[]~PumpReady \/ []<><<Pump>>_vars
    /\ WF_vars(Deadline)
    /\ []<>~CallerReady \/ []<><<StartNext \/ PopMessage \/ NextEnds>>_vars
    /\ WF_vars(SrvRead)
    /\ \A sid \in Sids : SF_vars(SrvData(sid))

FairSpec == Spec /\ Fairness

-----------------------------------------------------------------------------
UnitsOf(frames, P(_)) ==
    FoldLeft(LAMBDA n, f : n + (IF f.t = "DATA" /\ P(f.sid) THEN Len(f.units) ELSE 0),
             0, frames)

GrantsOf(frames, sid) ==
    FoldLeft(LAMBDA n, f : n + (IF f.t = "WU" /\ f.sid = sid THEN f.n ELSE 0), 0, frames)

(* The type invariant of the client's state.                               *)
HTypeOK ==
    /\ conn.dead \in {"no", "PROTO", "IO", "GOAWAY", "closed"} /\ conn.win \in Int
    /\ \A i \in 1 .. NSlots :
        /\ conn.slots[i].state \in {"SENT", "HEADERS", "DONE"}
        /\ conn.slots[i].fill \in 0 .. HdrLen /\ conn.slots[i].mlen \in Nat
        /\ conn.slots[i].sid \in 0 .. MaxStreams
    /\ call.slot \in 0 .. NSlots /\ handle.slot \in 0 .. NSlots

(* Both ends of a receive window agree once what is on the wire is counted *)
(* (handle_data_frame debits, stream_credit_message credits): the client's *)
(* window is what the daemon may still send, plus the DATA in flight, plus *)
(* the WINDOW_UPDATEs in flight.  So DATA a conforming daemon sends is     *)
(* never refused as an excess.  A stream the client dropped or aborted can *)
(* only leave the daemon with less.                                        *)
WindowsAgree ==
    LET onWire == srvConn.credit + UnitsOf(s2c, LAMBDA x : TRUE) + GrantsOf(c2s, 0)
    IN  (conn.dead = "no" /\ ~srvConn.bad /\ srvConn.up # "closed") =>
        /\ conn.win >= onWire
        /\ (gaveUp = {} /\ \A i \in 1 .. NSlots : conn.slots[i].err = "none") =>
              conn.win = onWire
        /\ \A i \in 1 .. NSlots :
            LET s == conn.slots[i]
            IN  (s.inUse /\ s.err = "none" /\ srv[s.sid].st = "open") =>
                  s.win = srv[s.sid].credit + UnitsOf(s2c, LAMBDA x : x = s.sid)
                                            + GrantsOf(c2s, s.sid)

(* A daemon that keeps to the protocol has the connection failed over a    *)
(* protocol error only after the client itself dropped a stream that was   *)
(* still open (deadline, close, local abort) and forgot its number.        *)
ProtocolErrorExplained ==
    conn.dead = "PROTO" => srvConn.bad \/ gaveUp # {}

(* A successful unary call returns exactly the message the daemon wrote on *)
(* that stream, whole, however it was cut into frames.                     *)
UnaryReturnsTheAnswer ==
    (ret.op = "unary" /\ ret.rc = "OK" /\ ~srvConn.bad) =>
        ret.msg = IF sent[ret.sid] = <<>> THEN <<>> ELSE sent[ret.sid][1].body

(* Flow control alone keeps the stream queue within the receive window, so *)
(* the H2C_QUEUE_MAX_BYTES abort is never what stops a conforming daemon.  *)
QueueWithinWindow ==
    ~srvConn.bad =>
        \A i \in 1 .. NSlots :
            LET s == conn.slots[i]
                held == FoldLeft(LAMBDA n, m : n + m.len + HdrLen, 0, s.q)
            IN  s.inUse /\ s.type = "SUBSCRIBE" => held + s.win <= InitWin

(* h2c_stream_next works on the stream its handle was opened for: the slot *)
(* is never another stream's while the call is in it.                      *)
NextOnOwnStream ==
    call.op = "next" => conn.slots[call.slot].sid = handle.sid

(* The stream calls implement the ordered message stream of MsgStream.     *)
AnyMessage == {[len |-> b, body |-> [j \in 1 .. b |-> k]] : b \in Bodies, k \in 1 .. MaxMsgs}
MS == INSTANCE MsgStream WITH Streams <- Sids, Messages <- AnyMessage
ImplementsMsgStream == MS!MSpec

(* A call is in progress: the deadlines of h2c_unary, h2c_stream_open and  *)
(* h2c_stream_next bound a daemon that says nothing.                       *)
Calling == call # Idle

(* The daemon wrote its k-th message on the caller's stream; it arrived, or *)
(* the stream or the connection ended.                                     *)
Wrote(sid, k)   == Len(sent[sid]) >= k /\ handle.sid = sid
Arrived(sid, k) == \/ Len(got[sid]) >= k \/ srv[sid].st = "ended"
                   \/ conn.dead # "no" \/ handle.sid # sid
=============================================================================
