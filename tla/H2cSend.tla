------------------------------ MODULE H2cSend -------------------------------
(***************************************************************************)
(* The send side of the HTTP/2 client (containerd/h2c.c): the handshake,   *)
(* a request cut into DATA frames under the stream's and the connection's  *)
(* send windows, the wait for credit, and the frames that change windows.  *)
(*                                                                         *)
(* One thread drives the connection at a time (the callers hold a lock),   *)
(* so the client is one sequential process; the interleaving is with the   *)
(* daemon through two ordered channels.  Bytes are counted, not stored.    *)
(* Windows are signed integers that wrap past MaxWin as int32_t does past  *)
(* 0x7fffffff.  The daemon keeps SETTINGS_MAX_FRAME_SIZE at its default.   *)
(***************************************************************************)
EXTENDS Integers, Sequences, FiniteSets, FiniteSetsExt, SequencesExt

CONSTANTS Calls,      \* how many calls are made; call n uses stream n
          Totals,     \* request sizes, the 5-byte gRPC prefix included
          FrameMax,   \* srv_max_frame
          InitWin,    \* H2_INIT_WINDOW
          Inits,      \* values the daemon may announce as initial window
          MaxSettings,\* how many SETTINGS the daemon sends
          Threshold,  \* consumed bytes after which the daemon grants credit
          MaxWin,     \* largest window, 0x7fffffff in the code
          SrvFaults,  \* subset of {"ping", "die", "early", "overflow"}
          MaxWire     \* bound on frames in flight to the client

SendAssumption ==
    /\ {Calls, FrameMax, InitWin, MaxWin, MaxWire} \subseteq Nat \ {0}
    /\ Totals \subseteq Nat \ {0} /\ Inits \subseteq 0 .. MaxWin
    /\ FrameMax <= InitWin /\ InitWin < MaxWin

VARIABLES conn,   \* the client's connection: [up, ready, dead, win, init, out]
          strm,   \* the slot of call n: [inUse, done, status, win]
          call,   \* the running call: [n, phase, total, sent]
          ret,    \* ret[n]: what call n returned, "none" before
          s2c, c2s,
          srv     \* the daemon, see SrvInit

vars == <<conn, strm, call, ret, s2c, c2s, srv>>

Sids == 1 .. Calls
Idle == [n |-> 0, phase |-> "idle", total |-> 0, sent |-> 0]
Closed == [up |-> FALSE, ready |-> FALSE, dead |-> "no", win |-> 0, init |-> 0, out |-> <<>>]
NoSlot == [inUse |-> FALSE, done |-> FALSE, status |-> "none", win |-> 0]

Wrap(w) == IF w > MaxWin THEN w - 2 * (MaxWin + 1) ELSE w
Smaller(a, b) == IF a < b THEN a ELSE b

-----------------------------------------------------------------------------
(* Frame handlers.  State k == [c |-> connection, t |-> slots].            *)

Reply(k, f) == [k EXCEPT !.c.out = Append(@, f)]

(* conn_fail, and the daemon going away, finish every stream.              *)
Died(k, code) ==
    IF k.c.dead # "no" THEN k
    ELSE [c |-> [k.c EXCEPT !.dead = code],
          t |-> [n \in Sids |-> IF k.t[n].inUse /\ ~k.t[n].done
                                THEN [k.t[n] EXCEPT !.done = TRUE, !.status = "UNAVAILABLE"]
                                ELSE k.t[n]]]

(* A changed initial window moves the window of every stream in use by the *)
(* difference; the code's test for a window that is too large never fires. *)
HandleSettings(k, f) ==
    LET delta == f.val - k.c.init
    IN  Reply([c |-> [k.c EXCEPT !.init = f.val, !.ready = TRUE],
               t |-> [n \in Sids |-> IF k.t[n].inUse
                                     THEN [k.t[n] EXCEPT !.win = Wrap(@ + delta)]
                                     ELSE k.t[n]]],
              [type |-> "ACK"])

HandleWindowUpdate(k, f) ==
    IF f.n = 0 THEN [k EXCEPT !.c.win = Wrap(@ + f.inc)]
    ELSE IF k.t[f.n].inUse THEN [k EXCEPT !.t[f.n].win = Wrap(@ + f.inc)]
    ELSE k

(* Trailers; what the response holds otherwise is the receive side's.      *)
HandleTrailers(k, f) ==
    IF ~k.t[f.n].inUse \/ k.t[f.n].done THEN Died(k, "PROTO")
    ELSE [k EXCEPT !.t[f.n].done = TRUE, !.t[f.n].status = f.status]

ProcessFrame(k, f) ==
    CASE f.type = "SETTINGS" -> HandleSettings(k, f)
      [] f.type = "UPDATE"   -> HandleWindowUpdate(k, f)
      [] f.type = "PING"     -> Reply(k, [type |-> "PONG"])
      [] f.type = "TRAILERS" -> HandleTrailers(k, f)
      [] f.type = "GOAWAY"   -> Died(k, "GOAWAY")
      [] f.type = "EOF"      -> Died(k, "IO")

PollBatch(k, frames) ==
    FoldLeft(LAMBDA a, f : IF a.c.dead # "no" THEN a ELSE ProcessFrame(a, f), k, frames)

Now == [c |-> conn, t |-> strm]

(* What a handler wrote leaves with the step that ran it.                  *)
Commit(k) ==
    /\ conn' = [k.c EXCEPT !.out = <<>>]
    /\ strm' = k.t
    /\ c2s' = c2s \o k.c.out

Destroy(k, n) == [k EXCEPT !.t[n] = NoSlot]

-----------------------------------------------------------------------------
SrvInit == [up |-> TRUE, acked |-> InitWin, pending |-> <<>>, settings |-> 0,
            recvd |-> [n \in 0 .. Calls |-> 0], granted |-> [n \in 0 .. Calls |-> 0],
            st |-> [n \in Sids |-> "none"], overrun |-> FALSE, excess |-> FALSE,
            pinged |-> FALSE]

Init ==
    /\ conn = Closed
    /\ strm = [n \in Sids |-> NoSlot]
    /\ call = Idle
    /\ ret = [n \in Sids |-> "none"]
    /\ s2c = <<>> /\ c2s = <<>>
    /\ srv = SrvInit

(* h2c_connect: the socket is up and our SETTINGS are on the wire.         *)
Connect ==
    /\ ~conn.up /\ conn.dead = "no"
    /\ conn' = [Closed EXCEPT !.up = TRUE, !.win = InitWin, !.init = InitWin]
    /\ call' = [Idle EXCEPT !.phase = "handshake"]
    /\ UNCHANGED <<strm, ret, s2c, c2s, srv>>

(* The handshake's loop ends with the daemon's SETTINGS, its death or 5 s. *)
Handshake ==
    /\ call.phase = "handshake" /\ s2c # <<>>
    /\ \E b \in 1 .. Len(s2c) :
         LET k == PollBatch(Now, SubSeq(s2c, 1, b))
         IN  /\ s2c' = SubSeq(s2c, b + 1, Len(s2c))
             /\ IF k.c.dead # "no"
                THEN conn' = [Closed EXCEPT !.dead = k.c.dead] /\ call' = Idle
                                                    /\ UNCHANGED <<strm, c2s>>
                ELSE Commit(k) /\ call' = IF k.c.ready THEN Idle ELSE call
    /\ UNCHANGED <<ret, srv>>

HandshakeTimeout ==
    /\ call.phase = "handshake"
    /\ conn' = [Closed EXCEPT !.dead = "TIMEOUT"]
    /\ call' = Idle
    /\ UNCHANGED <<strm, ret, s2c, c2s, srv>>

(* h2c_unary: a slot with the current initial window, then the HEADERS.    *)
StartCall(total) ==
    /\ call = Idle /\ conn.ready
    /\ \E n \in Sids :
         /\ \A i \in Sids : ret[i] = "none" <=> i >= n
         /\ IF conn.dead # "no"
            THEN /\ ret' = [ret EXCEPT ![n] = IF conn.dead = "GOAWAY" THEN "GOAWAY" ELSE "IO"]
                 /\ UNCHANGED <<strm, call, c2s>>
            ELSE /\ strm' = [strm EXCEPT ![n] = [NoSlot EXCEPT !.inUse = TRUE, !.win = conn.init]]
                 /\ call' = [n |-> n, phase |-> "send", total |-> total, sent |-> 0]
                 /\ c2s' = Append(c2s, [type |-> "HEADERS", n |-> n])
                 /\ UNCHANGED ret
    /\ UNCHANGED <<conn, s2c, srv>>

Chunk == Smaller(call.total - call.sent, FrameMax)
HasCredit == strm[call.n].win >= Chunk /\ conn.win >= Chunk

Returns(n, rc) == ret' = [ret EXCEPT ![n] = rc] /\ call' = Idle

(* One DATA frame, END_STREAM on the last.                                 *)
SendChunk ==
    /\ call.phase = "send" /\ HasCredit
    /\ strm' = [strm EXCEPT ![call.n].win = @ - Chunk]
    /\ conn' = [conn EXCEPT !.win = @ - Chunk]
    /\ LET last == call.sent + Chunk >= call.total
       IN  /\ c2s' = Append(c2s, [type |-> "DATA", n |-> call.n, len |-> Chunk, end |-> last])
           /\ call' = [call EXCEPT !.sent = @ + Chunk, !.phase = IF last THEN "await" ELSE "send"]
    /\ UNCHANGED <<ret, s2c, srv>>

(* Where a poll leaves the loop that waits for credit; nothing is told to  *)
(* the daemon about the rest of the request.                               *)
CreditEnds(k) ==
    LET n == call.n
    IN  IF k.c.dead # "no"
        THEN Commit(Destroy(k, n)) /\ Returns(n, IF k.c.dead = "GOAWAY" THEN "GOAWAY" ELSE "IO")
        ELSE IF k.t[n].done THEN Commit(Destroy(k, n)) /\ Returns(n, "PROTO")
        ELSE Commit(k) /\ UNCHANGED <<call, ret>>

(* The loop that waits for the response: only a finished stream ends it.   *)
AwaitEnds(k) ==
    LET n == call.n
    IN  IF k.t[n].done THEN Commit(Destroy(k, n)) /\ Returns(n, k.t[n].status)
        ELSE Commit(k) /\ UNCHANGED <<call, ret>>

Poll ==
    /\ \/ call.phase = "send" /\ ~HasCredit
       \/ call.phase = "await"
    /\ s2c # <<>>
    /\ \E b \in 1 .. Len(s2c) : \E k \in {PollBatch(Now, SubSeq(s2c, 1, b))} :
         /\ s2c' = SubSeq(s2c, b + 1, Len(s2c))
         /\ IF call.phase = "send" THEN CreditEnds(k) ELSE AwaitEnds(k)
    /\ UNCHANGED srv

(* 30 s without credit: no RST_STREAM.  A late response: RST_STREAM.       *)
Deadline ==
    /\ \/ call.phase = "send" /\ ~HasCredit
       \/ call.phase = "await"
    /\ LET k == Destroy(Now, call.n)
       IN  Commit(IF call.phase = "send" THEN k
                  ELSE Reply(k, [type |-> "RST", n |-> call.n]))
    /\ Returns(call.n, "TIMEOUT")
    /\ UNCHANGED <<s2c, srv>>

-----------------------------------------------------------------------------
(* The daemon (external).  It enlarges a window when it announces it and   *)
(* shrinks one when the client has acknowledged.                           *)

Client == <<conn, strm, call, ret>>
Say(fs) == Len(s2c) + Len(fs) <= MaxWire /\ s2c' = s2c \o fs

Allowed(n) ==
    srv.granted[n] + IF n = 0 THEN InitWin ELSE Max({srv.acked} \cup ToSet(srv.pending))
Grants(n, v) == IF v.recvd[n] - v.granted[n] >= Threshold
                THEN <<[type |-> "UPDATE", n |-> n, inc |-> v.recvd[n] - v.granted[n]]>>
                ELSE <<>>
Granted(v, n) == IF Grants(n, v) = <<>> THEN v ELSE [v EXCEPT !.granted[n] = v.recvd[n]]

SrvReadsData(f) ==
    LET v == [srv EXCEPT !.recvd[f.n] = @ + f.len, !.recvd[0] = @ + f.len,
                         !.st[f.n] = IF f.end /\ @ = "open" THEN "half" ELSE @,
                         !.overrun = @ \/ srv.recvd[f.n] + f.len > Allowed(f.n)
                                       \/ srv.recvd[0] + f.len > Allowed(0)]
        open == v.st[f.n] = "open"
    IN  /\ Say((IF open THEN Grants(f.n, v) ELSE <<>>) \o Grants(0, v))
        /\ srv' = Granted(IF open THEN Granted(v, f.n) ELSE v, 0)

SrvRead ==
    /\ srv.up /\ c2s # <<>>
    /\ c2s' = Tail(c2s)
    /\ LET f == Head(c2s)
       IN  CASE f.type = "DATA"    -> SrvReadsData(f)
             [] f.type = "HEADERS" -> srv' = [srv EXCEPT !.st[f.n] = "open"] /\ UNCHANGED s2c
             [] f.type = "RST"     -> srv' = [srv EXCEPT !.st[f.n] = "done"] /\ UNCHANGED s2c
             [] f.type = "ACK"     -> /\ srv' = [srv EXCEPT !.acked = Head(srv.pending),
                                                            !.pending = Tail(@)]
                                      /\ UNCHANGED s2c
             [] f.type = "PONG"    -> UNCHANGED <<srv, s2c>>
    /\ UNCHANGED Client

SrvSettings ==
    /\ srv.up /\ conn.up /\ srv.settings < MaxSettings
    /\ \E v \in Inits :
         /\ Say(<<[type |-> "SETTINGS", val |-> v]>>)
         /\ srv' = [srv EXCEPT !.settings = @ + 1, !.pending = Append(@, v)]
    /\ UNCHANGED <<Client, c2s>>

SrvAnswers(n) ==
    /\ srv.up
    /\ srv.st[n] = "half" \/ (srv.st[n] = "open" /\ "early" \in SrvFaults)
    /\ Say(<<[type |-> "TRAILERS", n |-> n,
              status |-> IF srv.st[n] = "half" THEN "OK" ELSE "REFUSED"]>>)
    /\ srv' = [srv EXCEPT !.st[n] = "done"]
    /\ UNCHANGED <<Client, c2s>>

SrvPings ==
    /\ srv.up /\ conn.up /\ ~srv.pinged /\ "ping" \in SrvFaults
    /\ Say(<<[type |-> "PING"]>>)
    /\ srv' = [srv EXCEPT !.pinged = TRUE]
    /\ UNCHANGED <<Client, c2s>>

SrvDies ==
    /\ srv.up /\ conn.up /\ "die" \in SrvFaults
    /\ \E t \in {"GOAWAY", "EOF"} : Say(<<[type |-> t]>>)
    /\ srv' = [srv EXCEPT !.up = FALSE]
    /\ UNCHANGED <<Client, c2s>>

(* A daemon that breaks the protocol: more credit than a window can hold.  *)
SrvOverflows ==
    /\ srv.up /\ conn.ready /\ "overflow" \in SrvFaults /\ ~srv.excess
    /\ Say(<<[type |-> "UPDATE", n |-> 0, inc |-> MaxWin]>>)
    /\ srv' = [srv EXCEPT !.excess = TRUE]
    /\ UNCHANGED <<Client, c2s>>

Next ==
    \/ Connect \/ Handshake \/ HandshakeTimeout
    \/ \E t \in Totals : StartCall(t)
    \/ SendChunk \/ Poll \/ Deadline
    \/ SrvRead \/ SrvSettings \/ SrvPings \/ SrvDies \/ SrvOverflows
    \/ \E n \in Sids : SrvAnswers(n)

Spec == Init /\ [][Next]_vars

(* The client's loops run until they end; the daemon reads what is sent.   *)
(* No deadline is needed for the progress below, so none is fair.          *)
PollReady == s2c # <<>> /\ (call.phase = "await" \/ (call.phase = "send" /\ ~HasCredit))
SrvReady == srv.up /\ c2s # <<>> /\ Len(s2c) + 2 <= MaxWire
FairSpec ==
    /\ Spec /\ WF_vars(SendChunk)
    /\ <>[]~PollReady \/ []<><<Poll>>_vars       \* WF_vars(Poll), ENABLED spelled out
    /\ <>[]~SrvReady \/ []<><<SrvRead>>_vars     \* and WF_vars(SrvRead)

-----------------------------------------------------------------------------
(* Type: windows may be negative (a shrunk initial window), a slot is in   *)
(* use exactly while its call runs, and a live connection has no backlog.  *)
SendTypeOK ==
    /\ conn.win \in -(MaxWin + 1) .. MaxWin
    /\ \A n \in Sids : strm[n].inUse <=> call.n = n
    /\ \A n \in Sids : strm[n].win \in -(MaxWin + 1) .. MaxWin
    /\ call.sent <= call.total

DataInFlight(n) ==
    FoldLeft(LAMBDA a, f : a + IF f.type = "DATA" /\ (n = 0 \/ f.n = n) THEN f.len ELSE 0, 0, c2s)
CreditInFlight(n) ==
    FoldLeft(LAMBDA a, f : a + IF f.type = "UPDATE" /\ f.n = n THEN f.inc ELSE 0, 0, s2c)

(* send_request, handle_window_update and handle_settings keep the two     *)
(* sides in step: a send window is what the daemon has granted, less what  *)
(* was sent, less the credit that is still on its way.                     *)
WindowsInStep ==
    conn.ready /\ conn.dead = "no" /\ ~srv.excess =>
      /\ conn.win + CreditInFlight(0) =
             InitWin + srv.granted[0] - srv.recvd[0] - DataInFlight(0)
      /\ \A n \in Sids : strm[n].inUse =>
           strm[n].win + CreditInFlight(n) =
             conn.init + srv.granted[n] - srv.recvd[n] - DataInFlight(n)

(* No DATA frame of send_request exceeds what the daemon allows, whatever  *)
(* SETTINGS and WINDOW_UPDATE frames are in flight when it is sent.        *)
NeverOverruns == ~srv.overrun

(* A request is being sent to a daemon that is up.  The wait for a whole    *)
(* chunk's credit cannot hang as long as the daemon withholds less than a   *)
(* window minus a frame.                                                    *)
Sending == call.phase = "send" /\ srv.up
=============================================================================
