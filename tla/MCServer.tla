------------------------------ MODULE MCServer ------------------------------
(***************************************************************************)
(* /subscribe from end to end: the C server's slots (WsSlots), the Go        *)
(* server's channels, the alternate server's table, and the Stream Deck      *)
(* plugin that subscribes.  A behaviour picks one of the four.  The last     *)
(* three share the variables v1 .. v18.                                      *)
(***************************************************************************)
EXTENDS WsSlots

CONSTANTS Parts  \* the programs to run

VARIABLES part, v1, v2, v3, v4, v5, v6, v7, v8, v9, v10, v11, v12, v13, v14, v15, v16,
          v17, v18

GS == INSTANCE GoSubscribe WITH
    Buffer <- 2, status <- v1, actions <- v2, listeners <- v3, todo <- v4, snapshot <- v5, step <- v6,
    adding <- v7, chan <- v8, pc <- v9, hold <- v10, seen <- v11
CH == INSTANCE CcHttp WITH
    Conns <- Clients, CC_HTTP_MAX_WS_CLIENTS <- NSlots, MaxVersion <- MaxStatus, Passes <- 2,
    conn <- v1, slot <- v2, listening <- v3, wants <- v4, stalled <- v5, version <- v6, phase <- v7,
    pass <- v8
SD == INSTANCE StreamDeck WITH
    Sockets <- {1, 2}, Status <- {"on", "off"}, MaxBackoff <- 3, MaxHides <- 1, MaxDrops <- 1,
    MaxChanges <- 1, MaxRefused <- 1, ws <- v1, connected <- v2, backoff <- v3, reconnectTimer <- v4,
    stableTimer <- v5, closedByUs <- v6, last <- v7, sock <- v8, gotMessage <- v9, inbox <- v10,
    timers <- v11, visible <- v12, ui <- v13, status <- v14, hides <- v15, drops <- v16, changes <- v17,
    refused <- v18, Keys <- {}, MaxTasks <- 0, MaxAppears <- 0, keys <- v1, linked <- v2, uiState <- v3,
    tasks <- v4, face <- v5, stages <- v6, told <- v7, appears <- v8

\* The variables after the first n, and that they are unused.
t11 == <<v12, v13, v14, v15, v16, v17, v18>>
t8  == <<v9, v10, v11, t11>>
t0  == <<v1, v2, v3, v4, v5, v6, v7, v8, t8>>
z11 == v12 = 0 /\ v13 = 0 /\ v14 = 0 /\ v15 = 0 /\ v16 = 0 /\ v17 = 0 /\ v18 = 0
z8  == v9 = 0 /\ v10 = 0 /\ v11 = 0 /\ z11
z0  == v1 = 0 /\ v2 = 0 /\ v3 = 0 /\ v4 = 0 /\ v5 = 0 /\ v6 = 0 /\ v7 = 0 /\ v8 = 0 /\ z8

goVars  == GS!vars
allVars == <<part, vars, t0>>

\* The sizes of the plugin's instance are possible ones.
ASSUME InstanceSizes == SD!StreamAssumption

MCInit ==
    /\ part \in Parts /\ Init
    /\ \/ part = "ws" /\ z0
       \/ part = "go" /\ GS!Init /\ z11
       \/ part = "cc" /\ CH!Init /\ z8
       \/ part = "deck" /\ SD!StreamInit

\* A step of one of the programs.
InWs(S)   == part = "ws" /\ S /\ UNCHANGED <<part, t0>>
InGo(S)   == part = "go" /\ S /\ UNCHANGED <<part, vars, t11>>
InCc(S)   == part = "cc" /\ S /\ UNCHANGED <<part, vars, t8>>
InDeck(S) == part = "deck" /\ S /\ UNCHANGED <<part, vars>>

MCNext ==
    InWs(Next) \/ InGo(GS!Next) \/ InCc(CH!Next) \/ InDeck(SD!StreamNext)

\* The clients are interchangeable.
A == CHOOSE c \in Clients : TRUE
B == CHOOSE c \in Clients : c # A

\* The fairness of every program.  One program runs, so a conjunct may stand for
\* an action of each.
MCFairness ==
    /\ WF_allVars(\/ InWs(Serve) \/ InGo(GS!Run) \/ InCc(CH!FlushPass \/ CH!Destroy)
                  \/ InDeck(SD!ReconnectFires))
    /\ WF_allVars(\/ InWs(WindDown) \/ InGo(GS!Writer(A)) \/ InCc(CH!Writeable(A))
                  \/ InDeck(SD!Dispatch(1)))
    /\ WF_allVars(\/ InWs(Deadline) \/ InGo(GS!Writer(B)) \/ InCc(CH!Writeable(B))
                  \/ InDeck(SD!Dispatch(2)))
    /\ SF_allVars(InWs(Pump(1)) \/ InGo(GS!SubmitRemove(A)))
    /\ SF_allVars(InWs(Pump(2)) \/ InGo(GS!SubmitRemove(B)))
    /\ SF_allVars(InWs(Recycle))
    /\ SF_allVars(InWs(LeaveLoop))

MCSpec == MCInit /\ [][MCNext]_allVars /\ MCFairness

-----------------------------------------------------------------------------
(* Mapped to the clients' views, the Go server's channels implement           *)
(* LatestValue: what a client is sent only moves forward, though the listener *)
(* and the handler both take from the channel.                                *)
ChannelsImplementLatestValue ==
    /\ part = "go" => GS!LV!LInit
    /\ [][part = "go" => GS!LV!LNext \/ UNCHANGED GS!LV!lvars]_allVars

(* No change is forgotten: a client of the alternate server has got the       *)
(* current status or has it pending and asked for, and a button on the deck   *)
(* always has a connection or a reconnect ahead of it.                        *)
CurrentOrPending ==
    /\ part = "cc" => CH!CurrentOrPending
    /\ part = "deck" => SD!NeverDeaf

\* A connected client is to be sent status v, and it was, or its connection is
\* over.  The C server tells nobody of a path that matches no route, so there
\* only a push counts.
Awaits(v) == \/ part = "ws" /\ Owed(A, v)
             \/ part = "go" /\ GS!Owed(A, v)
             \/ part = "cc" /\ CH!Owed(A, v)
Has(v)    == \/ part = "ws" /\ Sent(A, v)
             \/ part = "go" /\ GS!Sent(A, v)
             \/ part = "cc" /\ CH!Sent(A, v)

(* Whichever server, a status reaches a connected client, or a newer one that *)
(* overtook it does, or the connection is closed (of the alternate server, a  *)
(* client that does not read may stay): never a connection that stays open    *)
(* and stale.  And when the deck and the network come to rest, a button that  *)
(* is shown is connected and shows what the controller reports, whatever      *)
(* drops, refused sockets and quick hides came before.                        *)
NewestReachesClient ==
    /\ \A v \in 1 .. MaxStatus : Awaits(v) ~> Has(v)
    /\ <>[](part = "deck" => SD!CaughtUp)

(* A closed connection of the C server gives its slot back, and after the     *)
(* request to shut down its service loop ends; the Go server forgets a client *)
(* that is gone, whatever the others do; the flush of the alternate server    *)
(* ends whether its clients read or not.                                      *)
SlotsComeBack ==
    /\ \A i \in Slots : slot[i].closed ~> ~slot[i].in_use
    /\ (\/ shutdown_requested
        \/ part = "go" /\ v9[A] = "leaving"
        \/ part = "cc" /\ v7 = "flush")
       ~> (\/ http = "stopped"
           \/ part = "go" /\ GS!Forgotten(A)
           \/ part = "cc" /\ v7 = "down")
=============================================================================
