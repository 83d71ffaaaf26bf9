----------------------------- MODULE StreamDeck -----------------------------
EXTENDS Integers, Sequences, FiniteSets

(***************************************************************************)
(* The Stream Deck plugin's subscription to /subscribe (status-stream.ts):   *)
(* one object that connects when a button appears, reconnects with backoff   *)
(* when its socket drops, and lets go when the last button disappears.  The  *)
(* listeners of a socket outlive its place in #ws: close() only asks for the *)
(* close event, which may come after the next socket was made.               *)
(***************************************************************************)

CONSTANTS
    Sockets,       \* identities of WebSocket objects, reused once closed
    Status,        \* what the controller may report
    MaxBackoff,    \* RECONNECT_MAX_MS in units of RECONNECT_MIN_MS
    MaxHides, MaxDrops, MaxChanges, MaxRefused

StreamAssumption ==
    /\ Sockets \subseteq Nat \ {0} /\ IsFiniteSet(Sockets)
    /\ MaxBackoff \in Nat \ {0}

Null == 0
MinBackoff == 1
NoStatus == "none"

VARIABLES
    ws, connected, backoff, reconnectTimer, stableTimer, closedByUs, last,
    sock,        \* readyState of every socket, "dropped" once its peer is gone
    gotMessage,  \* of every socket, captured by its listeners
    inbox,       \* frames received and not yet dispatched
    timers,      \* sockets whose stable timer is pending, cleared or not
    visible,     \* is the action's button on the deck
    ui,          \* the status the button was last given
    status,      \* of the controller
    hides, drops, changes, refused

stream == <<ws, connected, backoff, reconnectTimer, stableTimer, closedByUs, last>>
net    == <<sock, gotMessage, inbox, timers>>
bounds == <<hides, drops, changes, refused>>
streamVars   == <<stream, net, visible, ui, status, bounds>>

StreamInit ==
    /\ ws = Null /\ connected = FALSE /\ backoff = MinBackoff
    /\ reconnectTimer = FALSE /\ stableTimer = Null
    /\ closedByUs = FALSE /\ last = NoStatus
    /\ sock = [s \in Sockets |-> "none"]
    /\ gotMessage = [s \in Sockets |-> FALSE]
    /\ inbox = [s \in Sockets |-> <<>>]
    /\ timers = {}
    /\ visible = FALSE /\ ui = NoStatus
    /\ status \in Status
    /\ hides = 0 /\ drops = 0 /\ changes = 0 /\ refused = 0

------------------------------------------------------------------------------
\* clearTimeout reaches only the timer the field names.
ClearStableTimer ==
    /\ timers' = timers \ {stableTimer}
    /\ stableTimer' = Null

\* armed: is a reconnect already under way.
ScheduleReconnect(armed) ==
    /\ reconnectTimer' = TRUE
    /\ backoff' = IF armed THEN backoff
                  ELSE IF backoff * 2 < MaxBackoff THEN backoff * 2 ELSE MaxBackoff

Unused == {s \in Sockets : sock[s] = "none" /\ s \notin timers}

\* The constructor may throw.
Connect(armed) ==
    /\ closedByUs' = FALSE
    /\ \/ \E s \in Unused :
             /\ \A r \in Unused : s <= r
             /\ sock' = [sock EXCEPT ![s] = "connecting"]
             /\ gotMessage' = [gotMessage EXCEPT ![s] = FALSE]
             /\ ws' = s
             /\ reconnectTimer' = armed
             /\ UNCHANGED <<backoff, refused>>
       \/ /\ refused < MaxRefused /\ refused' = refused + 1
          /\ ScheduleReconnect(armed)
          /\ UNCHANGED <<sock, gotMessage, ws>>

EnsureConnected ==
    IF ws # Null \/ reconnectTimer
      THEN UNCHANGED <<ws, backoff, reconnectTimer, closedByUs, sock, gotMessage, refused>>
      ELSE Connect(reconnectTimer)

\* onWillAppear: onStatus and onConnectionState, the latest status replayed.
Appear ==
    /\ ~visible
    /\ visible' = TRUE
    /\ ui' = IF last # NoStatus THEN last ELSE ui
    /\ EnsureConnected
    /\ UNCHANGED <<connected, stableTimer, last, inbox, timers, status,
                   hides, drops, changes>>

TearDown ==
    /\ closedByUs' = TRUE
    /\ reconnectTimer' = FALSE
    /\ ClearStableTimer
    /\ sock' = [s \in Sockets |->
                  IF s = ws /\ sock[s] \in {"connecting", "open"} THEN "closing"
                  ELSE sock[s]]
    /\ ws' = Null
    /\ connected' = FALSE
    /\ last' = NoStatus
    /\ backoff' = MinBackoff

\* onWillDisappear: both handlers leave, and releaseIfIdle tears down.
Disappear ==
    /\ visible /\ hides < MaxHides
    /\ visible' = FALSE
    /\ hides' = hides + 1
    /\ TearDown
    /\ UNCHANGED <<gotMessage, inbox, ui, status, drops, changes, refused>>

------------------------------------------------------------------------------
(* The listeners of a socket.                                                *)

\* "open".  The controller sends its status first.
Open(s) ==
    /\ sock[s] = "connecting"
    /\ sock' = [sock EXCEPT ![s] = "open"]
    /\ inbox' = [inbox EXCEPT ![s] = <<status>>]
    /\ connected' = TRUE
    /\ timers' = timers \cup {s}
    /\ stableTimer' = s
    /\ UNCHANGED <<ws, backoff, reconnectTimer, closedByUs, last, gotMessage,
                   visible, ui, status, bounds>>

StableFires(s) ==
    /\ s \in timers
    /\ timers' = timers \ {s}
    /\ stableTimer' = Null
    /\ backoff' = MinBackoff
    /\ UNCHANGED <<ws, connected, reconnectTimer, closedByUs, last, sock,
                   gotMessage, inbox, visible, ui, status, bounds>>

\* "message": the first one proves the connection healthy.
Message(s) ==
    /\ sock[s] = "open" /\ inbox[s] # <<>>
    /\ inbox' = [inbox EXCEPT ![s] = Tail(@)]
    /\ gotMessage' = [gotMessage EXCEPT ![s] = TRUE]
    /\ IF gotMessage[s]
         THEN UNCHANGED <<timers, stableTimer, backoff>>
         ELSE ClearStableTimer /\ backoff' = MinBackoff
    /\ last' = Head(inbox[s])
    /\ ui' = IF visible THEN Head(inbox[s]) ELSE ui
    /\ UNCHANGED <<ws, connected, reconnectTimer, closedByUs, sock, visible,
                   status, bounds>>

\* "close", whichever socket it is of.
CloseEvent(s) ==
    /\ sock[s] \in {"closing", "dropped"}
    /\ sock' = [sock EXCEPT ![s] = "none"]
    /\ inbox' = [inbox EXCEPT ![s] = <<>>]
    /\ ClearStableTimer
    /\ ws' = Null /\ connected' = FALSE
    /\ IF closedByUs THEN UNCHANGED <<reconnectTimer, backoff>>
                     ELSE ScheduleReconnect(reconnectTimer)
    /\ UNCHANGED <<closedByUs, last, gotMessage, visible, ui, status, bounds>>

ReconnectFires ==
    /\ reconnectTimer
    /\ IF visible THEN Connect(FALSE)
       ELSE /\ reconnectTimer' = FALSE
            /\ UNCHANGED <<closedByUs, sock, gotMessage, ws, backoff, refused>>
    /\ UNCHANGED <<connected, stableTimer, last, inbox, timers, visible, ui,
                   status, hides, drops, changes>>

------------------------------------------------------------------------------
(* The controller and the network.                                           *)

\* The connection is refused or lost.
Drop(s) ==
    /\ sock[s] \in {"connecting", "open"}
    /\ drops < MaxDrops /\ drops' = drops + 1
    /\ sock' = [sock EXCEPT ![s] = "dropped"]
    /\ UNCHANGED <<stream, gotMessage, inbox, timers, visible, ui, status,
                   hides, changes, refused>>

Change ==
    /\ changes < MaxChanges /\ changes' = changes + 1
    /\ status' \in Status \ {status}
    /\ inbox' = [s \in Sockets |-> IF sock[s] = "open" THEN Append(inbox[s], status')
                                   ELSE inbox[s]]
    /\ UNCHANGED <<stream, sock, gotMessage, timers, visible, ui, hides, drops,
                   refused>>

StreamNext ==
    \/ Appear \/ Disappear \/ ReconnectFires \/ Change
    \/ \E s \in Sockets : \/ Open(s) \/ StableFires(s) \/ Message(s)
                          \/ CloseEvent(s) \/ Drop(s)

\* The event loop dispatches every event and every timer.
Dispatch(s) == Open(s) \/ Message(s) \/ CloseEvent(s) \/ StableFires(s)

Fairness ==
    /\ WF_streamVars(ReconnectFires)
    /\ \A s \in Sockets : WF_streamVars(Dispatch(s))

StreamSpec == StreamInit /\ [][StreamNext]_streamVars /\ Fairness

------------------------------------------------------------------------------
\* A button on the deck always has a connection or a reconnect ahead of it, and
\* the socket in #ws is one whose close event is still to come: nothing a late
\* listener does can leave the stream waiting for an event nobody will send.
NeverDeaf ==
    /\ visible => ws # Null \/ reconnectTimer
    /\ ws # Null => sock[ws] \in {"connecting", "open", "dropped"}

\* "self-healing", when the deck and the network have come to rest: a button
\* that is shown is connected and shows what the controller reports.
CaughtUp == visible => connected /\ ui = status

-----------------------------------------------------------------------------
(***************************************************************************)
(* The egress button of the Stream Deck plugin (egress-toggle.ts): one       *)
(* action object behind any number of keys.  Every status and every change   *)
(* of the connection starts a render nobody waits for, and a render gives up *)
(* the thread after each call, so several are under way at a time.           *)
(***************************************************************************)

CONSTANTS
    Keys,        \* instances of the action on the deck, numbered in their order
    MaxTasks,    \* renders under way at a time
    MaxAppears

ToggleAssumption == Keys \subseteq Nat \ {0} /\ MaxTasks \in Nat

Egress == {"scale_and_egress", "single_stage_egress"}
Active == "scale_and_egress"
StageState == {"running", "stopped"}
StageStatus == [desired : StageState, actual : StageState]

VARIABLES
    keys,    \* keys shown; #keys is their number
    linked, uiState,
    tasks,      \* continuations of renders, in the order they will run
    face,       \* of every key, as the deck shows it
    stages,     \* what the controller reports
    told,       \* has the button been given that
    appears

toggleVars == <<keys, linked, uiState, tasks, face, stages, told, appears>>

stageUIState(s) ==
    CASE s.desired = "running" /\ s.actual = "running" -> "on"
      [] s.desired = "stopped" /\ s.actual = "stopped" -> "off"
      [] s.desired = "running" /\ s.actual = "stopped" -> "starting"
      [] s.desired = "stopped" /\ s.actual = "running" -> "stopping"
      [] OTHER -> "unknown"

\* The first state of UI_PRIORITY that a stage is in.
mergeEgressState(ss) ==
    LET states == {stageUIState(ss[n]) : n \in Egress}
    IN  CASE "on" \in states       -> "on"
          [] "starting" \in states -> "starting"
          [] "stopping" \in states -> "stopping"
          [] "off" \in states      -> "off"
          [] OTHER                 -> "unknown"

\* What #render makes of a key.
FaceOf(c, u) ==
    CASE ~c             -> [lit |-> FALSE, title |-> "warn"]
      [] u = "on"       -> [lit |-> TRUE, title |-> ""]
      [] u = "off"      -> [lit |-> FALSE, title |-> ""]
      [] u = "starting" -> [lit |-> TRUE, title |-> "dots"]
      [] u = "stopping" -> [lit |-> FALSE, title |-> "dots"]
      [] OTHER          -> [lit |-> FALSE, title |-> "?"]

ToggleInit ==
    /\ keys = {} /\ linked = FALSE /\ uiState = "unknown"
    /\ tasks = <<>>
    /\ face = [k \in Keys |-> [lit |-> FALSE, title |-> ""]]
    /\ stages \in [Egress -> StageStatus]
    /\ told = FALSE /\ appears = 0

------------------------------------------------------------------------------
\* #render goes on after key k: it sets the state of the next key and waits;
\* vis, c and u are the keys and the fields it finds.
RenderFrom(k, vis, c, u, at) ==
    LET rest == {n \in vis : n > k}
        next == CHOOSE n \in rest : \A m \in rest : n <= m
    IN  IF rest = {} THEN at
        ELSE [face  |-> [at.face EXCEPT ![next].lit = FaceOf(c, u).lit],
              tasks |-> Append(at.tasks, [key |-> next, then |-> "title",
                                          title |-> FaceOf(c, u).title])]

Now == [face |-> face, tasks |-> tasks]

Rendered(at) == face' = at.face /\ tasks' = at.tasks

\* A call returns: the title follows the state, the next key the title.
Resume ==
    /\ tasks # <<>>
    /\ LET t == Head(tasks)
       IN  IF t.then = "title"
             THEN /\ face' = [face EXCEPT ![t.key].title = t.title]
                  /\ tasks' = Append(Tail(tasks), [t EXCEPT !.then = "next"])
             ELSE Rendered(RenderFrom(t.key, keys, linked, uiState,
                                      [face |-> face, tasks |-> Tail(tasks)]))
    /\ UNCHANGED <<keys, linked, uiState, stages, told, appears>>

\* onWillAppear: the first key subscribes, and is told that there is no
\* connection yet.
KeyAppears(k) ==
    /\ k \notin keys /\ appears < MaxAppears /\ Len(tasks) < MaxTasks
    /\ keys' = keys \cup {k}
    /\ appears' = appears + 1
    /\ IF keys = {}
         THEN /\ linked' = FALSE /\ told' = FALSE
              /\ Rendered(RenderFrom(0, keys', FALSE, uiState,
                            RenderFrom(0, keys', FALSE, uiState, Now)))
         ELSE /\ UNCHANGED <<linked, told>>
              /\ Rendered(RenderFrom(0, keys', linked, uiState, Now))
    /\ UNCHANGED <<uiState, stages>>

\* onWillDisappear: the last key unsubscribes, so that nothing tells the button
\* of the teardown that follows.
KeyDisappears(k) ==
    /\ k \in keys
    /\ keys' = keys \ {k}
    /\ UNCHANGED <<linked, uiState, tasks, face, stages, told, appears>>

\* Mutant: the change is only noted.
ConnectionUnrendered(c) ==
    /\ keys # {} /\ c # linked
    /\ linked' = c
    /\ told' = FALSE
    /\ UNCHANGED <<keys, uiState, tasks, face, stages, appears>>

\* The handler of onConnectionState.
Connection(c) ==
    /\ keys # {} /\ c # linked /\ Len(tasks) < MaxTasks
    /\ linked' = c
    /\ told' = FALSE
    /\ Rendered(RenderFrom(0, keys, c, uiState, Now))
    /\ UNCHANGED <<keys, uiState, stages, appears>>

\* #applyStatus
ApplyStatus ==
    /\ keys # {} /\ linked /\ ~told /\ Len(tasks) < MaxTasks
    /\ uiState' = mergeEgressState(stages)
    /\ told' = TRUE
    /\ Rendered(RenderFrom(0, keys, linked, uiState', Now))
    /\ UNCHANGED <<keys, linked, stages, appears>>

GoingTo == IF uiState \in {"on", "starting"} THEN "stop" ELSE "start"

\* onKeyDown: the controller takes the command; a refusal or a dead network
\* only raises an alert.
KeyDown ==
    /\ keys # {}
    /\ stages' = [stages EXCEPT ![Active].desired =
                    IF GoingTo = "start" THEN "running" ELSE "stopped"]
    /\ told' = FALSE
    /\ UNCHANGED <<keys, linked, uiState, tasks, face, appears>>

\* A stage starts or stops, or another client asks for it.
StatusChanges ==
    /\ \E n \in Egress, s \in StageStatus : stages' = [stages EXCEPT ![n] = s]
    /\ told' = FALSE
    /\ UNCHANGED <<keys, linked, uiState, tasks, face, appears>>

ToggleNext ==
    \/ Resume \/ ApplyStatus \/ KeyDown \/ StatusChanges
    \/ \E c \in BOOLEAN : Connection(c)
    \/ \E k \in Keys : KeyAppears(k) \/ KeyDisappears(k)

ToggleSpec == ToggleInit /\ [][ToggleNext]_toggleVars

------------------------------------------------------------------------------
\* However renders overlap, once none is under way every key shows the state of
\* the connection and of the stages the button knows (#render, which reads both
\* again for each key).
KeysSettle ==
    tasks = <<>> => \A k \in keys : face[k] = FaceOf(linked, uiState)

\* A key that has settled on the latest status is lit exactly when some egress
\* stage is meant to run, whichever of the two the pipeline uses
\* (mergeEgressState, stageUIState).
LitMeansWanted ==
    tasks = <<>> /\ linked /\ told =>
        \A k \in keys :
            face[k].lit <=> \E n \in Egress : stages[n].desired = "running"

\* A press asks for the opposite of what the key shows: a lit key stops, a dark
\* one starts (onKeyDown), also half way through a start or a stop.
Reverses ==
    KeyDown /\ tasks = <<>> /\ linked =>
        \A k \in keys : face[k].lit <=> stages'[Active].desired = "stopped"
PressReverses == [][Reverses]_toggleVars
=============================================================================
