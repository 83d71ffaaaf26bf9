------------------------------ MODULE MCClient ------------------------------
(***************************************************************************)
(* The clients of containerd, layer by layer: the calls of the stage ops on  *)
(* a connection that breaks (CtrdClient), the streams of the HTTP/2 client   *)
(* and of its alternate sibling against a daemon (H2cStreams, CcGrpc), and    *)
(* the send side (H2cSend).  A behaviour picks a part and runs it.  The       *)
(* streams and the send side share the variables v1 .. v12; each case of     *)
(* interest has its own small instance.                                      *)
(***************************************************************************)
EXTENDS CtrdClient, TLC

CONSTANTS Parts,     \* the parts to run
          MaxWire    \* bound: frames in flight towards the daemon

VARIABLES part, v1, v2, v3, v4, v5, v6, v7, v8, v9, v10, v11, v12

\* The op of a stage while the daemon comes and goes, and two stages while it
\* stays up and answers badly.
RE == INSTANCE CtrdClient WITH
    Stages <- {"s1"}, Boot <- BOOLEAN, Faults <- {"timeout", "internal"}, MaxDeaths <- 2
SS == INSTANCE CtrdClient WITH
    Boot <- {TRUE}, Faults <- {"timeout", "toobig"}, MaxDeaths <- 0

\* A subscription; a second unary call after the first; two streams at once;
\* two that take turns in one slot; and a caller that keeps asking.
HS == INSTANCE H2cStreams WITH
    NSlots <- 1, InitWin <- 6, HdrLen <- 2, MaxMsg <- 2, QueueMax <- 4, RespCap <- 2, Bodies <- {0, 2},
    MaxStreams <- 1, MaxMsgs <- 2, MaxFrames <- 3, StreamTypes <- {"SUBSCRIBE"}, PeerConforms <- FALSE,
    PeerDies <- TRUE, Deadlines <- TRUE, conn <- v1, call <- v2, handle <- v3, ret <- v4,
    nextSid <- v5, s2c <- v6, c2s <- v7, srv <- v8, srvConn <- v9, sent <- v10, got <- v11,
    gaveUp <- v12
HU == INSTANCE H2cStreams WITH
    NSlots <- 1, InitWin <- 3, HdrLen <- 1, MaxMsg <- 2, QueueMax <- 4, RespCap <- 1, Bodies <- {1, 2},
    MaxStreams <- 2, MaxMsgs <- 2, MaxFrames <- 1, StreamTypes <- {"UNARY"}, PeerConforms <- FALSE,
    PeerDies <- TRUE, Deadlines <- TRUE, conn <- v1, call <- v2, handle <- v3, ret <- v4,
    nextSid <- v5, s2c <- v6, c2s <- v7, srv <- v8, srvConn <- v9, sent <- v10, got <- v11,
    gaveUp <- v12
HP == INSTANCE H2cStreams WITH
    NSlots <- 2, InitWin <- 3, HdrLen <- 1, MaxMsg <- 2, QueueMax <- 4, RespCap <- 1, Bodies <- {1},
    MaxStreams <- 2, MaxMsgs <- 1, MaxFrames <- 2, StreamTypes <- {"UNARY", "SUBSCRIBE"},
    PeerConforms <- TRUE, PeerDies <- FALSE, Deadlines <- TRUE, conn <- v1, call <- v2, handle <- v3,
    ret <- v4, nextSid <- v5, s2c <- v6, c2s <- v7, srv <- v8, srvConn <- v9, sent <- v10, got <- v11,
    gaveUp <- v12
HR == INSTANCE H2cStreams WITH
    NSlots <- 1, InitWin <- 3, HdrLen <- 1, MaxMsg <- 2, QueueMax <- 4, RespCap <- 1, Bodies <- {1},
    MaxStreams <- 2, MaxMsgs <- 1, MaxFrames <- 2, StreamTypes <- {"UNARY", "SUBSCRIBE"},
    PeerConforms <- TRUE, PeerDies <- FALSE, Deadlines <- TRUE, conn <- v1, call <- v2, handle <- v3,
    ret <- v4, nextSid <- v5, s2c <- v6, c2s <- v7, srv <- v8, srvConn <- v9, sent <- v10, got <- v11,
    gaveUp <- v12
HL == INSTANCE H2cStreams WITH
    NSlots <- 1, InitWin <- 4, HdrLen <- 1, MaxMsg <- 3, QueueMax <- 4, RespCap <- 1, Bodies <- {1, 3},
    MaxStreams <- 1, MaxMsgs <- 2, MaxFrames <- 1, StreamTypes <- {"SUBSCRIBE"}, PeerConforms <- TRUE,
    PeerDies <- TRUE, Deadlines <- TRUE, conn <- v1, call <- v2, handle <- v3, ret <- v4,
    nextSid <- v5, s2c <- v6, c2s <- v7, srv <- v8, srvConn <- v9, sent <- v10, got <- v11,
    gaveUp <- v12
GS == INSTANCE CcGrpc WITH
    NSlots <- 1, InitWin <- 4, HdrLen <- 2, MaxMsg <- 2, QueueMax <- 4, RespCap <- 1, Bodies <- {0, 2},
    MaxStreams <- 1, MaxMsgs <- 2, MaxFrames <- 2, StreamTypes <- {"SUBSCRIBE"}, PeerConforms <- FALSE,
    PeerDies <- FALSE, Deadlines <- TRUE, SrvMaxStreams <- 2, conn <- v1, call <- v2, handle <- v3,
    ret <- v4, nextSid <- v5, s2c <- v6, c2s <- v7, srv <- v8, srvConn <- v9, sent <- v10, got <- v11,
    gaveUp <- v12
GU == INSTANCE CcGrpc WITH
    NSlots <- 1, InitWin <- 4, HdrLen <- 1, MaxMsg <- 3, QueueMax <- 4, RespCap <- 1, Bodies <- {1, 2},
    MaxStreams <- 2, MaxMsgs <- 1, MaxFrames <- 1, StreamTypes <- {"UNARY"}, PeerConforms <- FALSE,
    PeerDies <- TRUE, Deadlines <- TRUE, SrvMaxStreams <- 2, conn <- v1, call <- v2, handle <- v3,
    ret <- v4, nextSid <- v5, s2c <- v6, c2s <- v7, srv <- v8, srvConn <- v9, sent <- v10, got <- v11,
    gaveUp <- v12
GP == INSTANCE CcGrpc WITH
    NSlots <- 2, InitWin <- 3, HdrLen <- 1, MaxMsg <- 2, QueueMax <- 4, RespCap <- 1, Bodies <- {1},
    MaxStreams <- 2, MaxMsgs <- 1, MaxFrames <- 1, StreamTypes <- {"UNARY", "SUBSCRIBE"},
    PeerConforms <- TRUE, PeerDies <- FALSE, Deadlines <- TRUE, SrvMaxStreams <- 2, conn <- v1,
    call <- v2, handle <- v3, ret <- v4, nextSid <- v5, s2c <- v6, c2s <- v7, srv <- v8, srvConn <- v9,
    sent <- v10, got <- v11, gaveUp <- v12
SE == INSTANCE H2cSend WITH
    Calls <- 2, Totals <- {5}, FrameMax <- 2, InitWin <- 3, Inits <- {2, 4}, MaxSettings <- 2,
    Threshold <- 2, MaxWin <- 20, MaxWire <- 2, SrvFaults <- {"die", "early", "overflow"}, conn <- v1,
    strm <- v2, call <- v3, ret <- v4, s2c <- v5, c2s <- v6, srv <- v7
SL == INSTANCE H2cSend WITH
    Calls <- 2, Totals <- {5}, FrameMax <- 2, InitWin <- 3, Inits <- {3}, MaxSettings <- 1,
    Threshold <- 2, MaxWin <- 20, MaxWire <- 2, SrvFaults <- {"ping", "die", "early"}, conn <- v1,
    strm <- v2, call <- v3, ret <- v4, s2c <- v5, c2s <- v6, srv <- v7

t7 == <<v8, v9, v10, v11, v12>>
t0 == <<v1, v2, v3, v4, v5, v6, v7, t7>>
z7 == v8 = 0 /\ v9 = 0 /\ v10 = 0 /\ v11 = 0 /\ v12 = 0
z0 == v1 = 0 /\ v2 = 0 /\ v3 = 0 /\ v4 = 0 /\ v5 = 0 /\ v6 = 0 /\ v7 = 0 /\ z7
allVars == <<part, vars, t0>>

\* CtrdClient at rest, while another part runs.
Rest == Init /\ up

MCInit ==
    /\ part \in Parts
    /\ \/ part = "ctrd" /\ Init /\ z0
       \/ part = "recover" /\ RE!Init /\ z0
       \/ part = "settle" /\ SS!Init /\ z0
       \/ part = "streams" /\ HS!Init /\ Rest
       \/ part = "unary" /\ HU!Init /\ Rest
       \/ part = "pair" /\ HP!Init /\ Rest
       \/ part = "reclaim" /\ HR!Init /\ Rest
       \/ part = "live" /\ HL!Init /\ Rest
       \/ part = "cc streams" /\ GS!CcInit /\ Rest
       \/ part = "cc unary" /\ GU!CcInit /\ Rest
       \/ part = "cc pair" /\ GP!CcInit /\ Rest
       \/ part = "send" /\ SE!Init /\ z7 /\ Rest
       \/ part = "send live" /\ SL!Init /\ z7 /\ Rest

\* A step of one of the parts.
InCtrd(p, A) == part = p /\ A /\ UNCHANGED <<part, t0>>
InH2c(p, A)  == part = p /\ A /\ UNCHANGED <<part, vars>>
InSend(p, A) == part = p /\ A /\ UNCHANGED <<part, vars, t7>>

MCNext ==
    \/ InCtrd("ctrd", Next) \/ InCtrd("recover", RE!Next) \/ InCtrd("settle", SS!Next)
    \/ InH2c("streams", HS!Next) \/ InH2c("unary", HU!Next) \/ InH2c("pair", HP!Next)
    \/ InH2c("reclaim", HR!Next) \/ InH2c("live", HL!Next)
    \/ InH2c("cc streams", GS!CcNext) \/ InH2c("cc unary", GU!CcNext)
    \/ InH2c("cc pair", GP!CcNext)
    \/ InSend("send", SE!Next) \/ InSend("send live", SL!Next)

MCSpec == MCInit /\ [][MCNext]_allVars

\* The frames of a slow daemon's input are bounded.
WireBound == part \in {"streams", "unary", "pair", "reclaim", "cc streams", "cc unary", "cc pair"} =>
                Len(v7) <= MaxWire

\* The stages are interchangeable.
StageSymmetry == Permutations(Stages)

\* Of the streams or of the send side.
Either(P, Q) == \/ part = "live" /\ P
                \/ part = "send live" /\ Q

\* The fairness of every part.  One part runs, so a conjunct may stand for an
\* action of each.
MCFairness ==
    /\ \/ <>[]~Either(HL!PumpReady, SL!PollReady)
       \/ []<><<InH2c("live", HL!Pump) \/ InSend("send live", SL!Poll)>>_allVars
    /\ \/ []<>~Either(HL!CallerReady, SL!SrvReady)
       \/ []<><<\/ InH2c("live", HL!StartNext \/ HL!PopMessage \/ HL!NextEnds)
                \/ InSend("send live", SL!SrvRead)>>_allVars
    /\ WF_allVars(\/ InH2c("live", HL!Deadline) \/ InSend("send live", SL!SendChunk)
                  \/ InCtrd("recover", RE!Controller) \/ InCtrd("settle", SS!Controller))
    /\ WF_allVars(InCtrd("recover", RE!Listener) \/ InCtrd("settle", SS!Listener))
    /\ WF_allVars(\/ InH2c("live", HL!SrvRead)
                  \/ InCtrd("recover", RE!Daemon) \/ InCtrd("settle", SS!Daemon))
    /\ SF_allVars(\/ InH2c("live", HL!SrvData(1))
                  \/ InCtrd("recover", RE!Worker("s1")) \/ InCtrd("settle", SS!Worker("s1")))
    /\ SF_allVars(InCtrd("settle", SS!Worker("s2")))

MCFairSpec == MCSpec /\ MCFairness

\* The sizes of every instance are possible ones.
ASSUME InstanceSizes ==
    /\ HS!SizesAssumption /\ HU!SizesAssumption /\ HP!SizesAssumption
    /\ HR!SizesAssumption /\ HL!SizesAssumption
    /\ SE!SendAssumption /\ SL!SendAssumption

-----------------------------------------------------------------------------
\* The parts of the HTTP/2 client.
H2c(P, Q, R, S) ==
    CASE part = "streams" -> P [] part = "unary" -> Q [] part = "pair" -> R
      [] part = "reclaim" -> S [] OTHER -> TRUE

(* A caller gets the answer to its own question.  A unary call of either      *)
(* client that succeeds returns exactly the message the daemon wrote for it,  *)
(* and leaves no slot taken; h2c_stream_next works on the stream its handle   *)
(* was opened for; the callback of the alternate client sees what the daemon  *)
(* wrote, in order, whole and once, however it was framed.                    *)
AnswersTrue ==
    /\ H2c(HS!NextOnOwnStream,
           HU!UnaryReturnsTheAnswer,
           HP!NextOnOwnStream /\ HP!UnaryReturnsTheAnswer,
           HR!NextOnOwnStream /\ HR!UnaryReturnsTheAnswer)
    /\ part = "cc streams" => GS!EnvelopesInOrder
    /\ part = "cc unary" => GU!UnaryAnswer /\ GU!NoUnaryLeftBehind
    /\ part = "cc pair" => GP!EnvelopesInOrder /\ GP!UnaryAnswer /\ GP!NoUnaryLeftBehind

(* Flow control stays in step with a daemon that keeps to the protocol.  Both *)
(* ends of a receive window agree once what is on the wire is counted, so a   *)
(* stream's queue stays within its window and the H2C_QUEUE_MAX_BYTES abort   *)
(* never stops such a daemon; neither client fails its connection over a      *)
(* frame unless it had dropped a stream that was open; a send window is what  *)
(* the daemon granted less what was sent and less the credit on its way, and  *)
(* no DATA frame exceeds it.                                                  *)
FlowAgrees ==
    /\ H2c(HS!HTypeOK /\ HS!QueueWithinWindow /\ HS!ProtocolErrorExplained,
           HU!HTypeOK /\ HU!QueueWithinWindow /\ HU!ProtocolErrorExplained,
           HP!HTypeOK /\ HP!QueueWithinWindow /\ HP!ProtocolErrorExplained
              /\ HP!WindowsAgree,
           HR!HTypeOK /\ HR!QueueWithinWindow /\ HR!ProtocolErrorExplained
              /\ HR!WindowsAgree)
    /\ part = "cc pair" => GP!AcceptedIsCredited /\ GP!RefusalExplained
    /\ part = "send" => SE!SendTypeOK /\ SE!WindowsInStep /\ SE!NeverOverruns

(* The stream calls implement the ordered message stream of MsgStream.       *)
ImplementsMsgStream ==
    /\ part = "streams" => HS!MS!MInit
    /\ [][part = "streams" => HS!MS!MNext \/ UNCHANGED <<v10, v11>>]_allVars

(* Every call on a connection returns, whatever the daemon does not say; a    *)
(* request is sent to its end without the help of a deadline; and what the    *)
(* daemon writes on an open stream reaches a caller that keeps asking, unless *)
(* the stream or the connection ends first.                                   *)
MessagesArrive ==
    /\ Either(HL!Calling, SL!Sending) ~> ~Either(HL!Calling, SL!Sending)
    /\ []<>(part = "live" => \A k \in 1 .. 2 : HL!Wrote(1, k) => HL!Arrived(1, k))

(* The stage ops recover when the daemon comes up: whatever the connection    *)
(* went through, an op succeeds again, or a report shows that it did.  When   *)
(* the daemon does not go away, every stage ends up running and known to run. *)
OpsRecover ==
    /\ []<>(part = "recover" => RE!Recovered)
    /\ <>[](part = "settle" => SS!AllRun)
=============================================================================
