---------------------------- MODULE WsSlotsProofs ----------------------------
(***************************************************************************)
(* For any number of clients, slots and listeners: the slot records and the  *)
(* connections stay typed, a connection has one slot, frames stay in order,  *)
(* the listener table matches the slots, and they implement LatestValue.     *)
(*                                                                         *)
(* FramesInOrder is not inductive: what waits must also be no newer than the *)
(* status, a client that was never connected must have seen nothing, and two *)
(* slots in use must not share a session, or a flush of one would move the   *)
(* view the other is compared with.                                          *)
(*                                                                         *)
(* That the listener table matches the slots needs what the HTTP thread's    *)
(* pending call carries: a slot about to be added or removed is the one      *)
(* exception, and is not at once in the table and waiting to be added.       *)
(*                                                                         *)
(* The last part shows LatestValue implemented by the Go server's channels:  *)
(* its invariant ties what is queued for the controller to the handlers, so  *)
(* that a client's one add is taken before its handler writes.               *)
(***************************************************************************)
EXTENDS WsSlots, FiniteSetTheorems, TLAPS

Record == [in_use : BOOLEAN, closed : BOOLEAN, closing : BOOLEAN,
           session : Clients \cup {None}, pending : 0 .. MaxStatus,
           inflight : 0 .. MaxStatus, late : BOOLEAN]

\* The state a push and a pump work on.
SlotType ==
    /\ status \in 1 .. MaxStatus
    /\ slot \in [Slots -> Record]
    /\ conn \in [Clients -> {"new", "open", "closed", "done"}]
    /\ seen \in [Clients -> 0 .. MaxStatus]

QueueType == todo \in Seq(Slots) /\ listeners \in Seq(Slots)

\* A slot in use belongs to one connection and follows its life.
OwnerInv ==
    /\ \A i \in Slots : slot[i].in_use =>
          /\ slot[i].session \in Clients
          /\ conn[slot[i].session] = IF slot[i].closed THEN "closed" ELSE "open"
    /\ \A i, j \in Slots : slot[i].in_use /\ slot[j].in_use /\ i # j =>
          slot[i].session # slot[j].session
    /\ \A c \in Clients : conn[c] = "new" => seen[c] = 0

\* What the blocked call of the HTTP thread says about its slot.
CallInv ==
    /\ call \in {<<>>} \cup ({"add", "remove"} \X Slots)
    /\ \A i \in Slots :
          /\ call = <<"add", i>> => slot[i].in_use /\ ~slot[i].closed /\ http = "loop"
          /\ call = <<"remove", i>> => ~slot[i].in_use

\* A frame is never newer than the status, nor older than its predecessors.
Ordered(s, v, bound) ==
    /\ s.pending <= bound /\ s.inflight <= bound /\ v <= bound
    /\ s.pending # 0 /\ s.inflight # 0 => s.pending >= s.inflight
    /\ s.inflight # 0 => s.inflight >= v
    /\ s.pending # 0 => s.pending >= v

OrderInv ==
    /\ \A i \in Slots : slot[i].in_use => Ordered(slot[i], seen[slot[i].session], status)
    /\ \A c \in Clients : seen[c] <= status

CoreInv == SlotType /\ OwnerInv /\ OrderInv
WInv == CoreInv /\ QueueType /\ CallInv

\* A step of LatestValue, or one it does not see.
LStep == [LV!LNext]_(LV!lvars)

------------------------------------------------------------------------------
\* A step on the record of a slot in use: the record keeps its owner, the
\* owner's view moves forward to v, and its connection is open or closed as
\* the record says.  Every pass of a pump and every close is such a step.
LEMMA RecordStep ==
    ASSUME CoreInv, NEW i \in Slots, slot[i].in_use, ~slot[i].closed,
           NEW s \in Record, s.in_use, s.session = slot[i].session,
           slot' = [slot EXCEPT ![i] = s],
           NEW v \in 0 .. MaxStatus, v >= seen[s.session],
           seen' = [seen EXCEPT ![s.session] = v],
           Ordered(s, v, status), UNCHANGED status,
           conn' = [conn EXCEPT ![s.session] = IF s.closed THEN "closed" ELSE "open"]
    PROVE  CoreInv' /\ LStep
<1>0. PICK c \in Clients : c = slot[i].session /\ conn[c] = "open"
  BY Zenon DEF CoreInv, OwnerInv
<1>1. SlotType'
  BY <1>0, Zenon DEF CoreInv, SlotType
<1>2. /\ slot'[i] = s
      /\ \A j \in Slots : j # i => slot'[j] = slot[j]
      /\ seen'[c] = v /\ conn'[c] = IF s.closed THEN "closed" ELSE "open"
      /\ \A d \in Clients : d # c => seen'[d] = seen[d] /\ conn'[d] = conn[d]
  BY <1>0, Zenon DEF CoreInv, SlotType
<1>3. \A j \in Slots : j # i /\ slot[j].in_use =>
          slot[j].session \in Clients /\ slot[j].session # c
  BY <1>0, Zenon DEF CoreInv, OwnerInv
<1>4. OwnerInv'
  BY <1>0, <1>2, <1>3 DEF CoreInv, OwnerInv
<1>5. OrderInv'
  <2>1. \A j \in Slots : slot'[j].in_use =>
            Ordered(slot'[j], seen'[slot'[j].session], status)
    <3>1. Ordered(slot'[i], seen'[slot'[i].session], status)
      BY <1>0, <1>2
    <3>2. \A j \in Slots : j # i /\ slot[j].in_use =>
             Ordered(slot[j], seen[slot[j].session], status)
      BY Zenon DEF CoreInv, OrderInv
    <3>3. QED
      BY <1>2, <1>3, <3>1, <3>2
  <2>2. \A d \in Clients : seen'[d] <= status
    BY <1>0, <1>2 DEF CoreInv, OrderInv, Ordered
  <2>3. QED
    BY <2>1, <2>2, Zenon DEF OrderInv, Ordered
<1>6. LStep
  <2>1. v \in seen[c] .. status
    BY <1>0 DEF CoreInv, SlotType, Ordered
  <2>2. CASE s.closed
    <3>1. {d \in Clients : conn'[d] = "open"} = {d \in Clients : conn[d] = "open"} \ {c}
      BY <1>0, <1>2, <2>2
    <3>2. LV!Leave(c)
      BY <1>0, <2>1, <3>1, Zenon DEF LV!Leave, LV!Forward
    <3>3. QED
      BY <1>0, <3>2, Zenon DEF LStep, LV!LNext
  <2>3. CASE ~s.closed
    <3>1. {d \in Clients : conn'[d] = "open"} = {d \in Clients : conn[d] = "open"}
      BY <1>0, <1>2, <2>3, Zenon
    <3>2. LV!See(c)
      BY <1>0, <2>1, <3>1, Zenon DEF LV!See, LV!Forward
    <3>3. QED
      BY <1>0, <3>2, Zenon DEF LStep, LV!LNext
  <2>4. QED
    BY <2>2, <2>3, Zenon
<1>7. QED
  BY <1>1, <1>4, <1>5, <1>6, Zenon DEF CoreInv

------------------------------------------------------------------------------
\* The passes over a record keep its owner and the order of its frames.
Same(s, t) ==
    /\ t \in Record
    /\ t.in_use = s.in_use /\ t.closed = s.closed /\ t.session = s.session
    /\ \A v, b \in Nat : Ordered(s, v, b) => Ordered(t, v, b)

\* ws_begin_close touches neither frame.
LEMMA BeginCloseSame == ASSUME NEW s \in Record PROVE Same(s, BeginClose(s))
  BY Zenon DEF Record, BeginClose, Same, Ordered

\* The receiving half of ws_pump_client.
LEMMA ReceivedSame == ASSUME NEW s \in Record PROVE Same(s, Received(s))
  BY BeginCloseSame, Zenon DEF Received, Same

\* Giving up on a late frame.
LEMMA TimedOutSame == ASSUME NEW s \in Record PROVE Same(s, TimedOut(s))
  BY BeginCloseSame, Zenon DEF TimedOut, Same

\* ws_drain_slot moves the pending frame behind nothing: the frame in flight is
\* out before the next one leaves the slot.
LEMMA DrainedSame == ASSUME NEW s \in Record PROVE Same(s, Drained(s))
<1>1. CASE s.closing \/ s.inflight # 0
  BY <1>1, Zenon DEF Drained, Same
<1>2. CASE ~s.closing /\ s.inflight = 0 /\ s.pending # 0
  BY <1>2, SlotAssumption, Zenon DEF Drained, Same, Record, Ordered
<1>3. CASE ~s.closing /\ s.inflight = 0 /\ s.pending = 0
  BY <1>3, BeginCloseSame, Zenon DEF Drained, Same
<1>4. QED
  BY <1>1, <1>2, <1>3, Zenon DEF Record

\* A whole pass.
LEMMA PumpedSame ==
    ASSUME SlotType, NEW i \in Slots
    PROVE  Same(slot[i], Pumped(i))
<1>0. slot[i] \in Record
  BY Zenon DEF SlotType
<1>1. Same(slot[i], Received(slot[i]))
  BY <1>0, ReceivedSame, Zenon
<1>2. Same(Received(slot[i]), Drained(Received(slot[i])))
  BY <1>1, DrainedSame, Zenon DEF Same
<1>3. Same(Drained(Received(slot[i])), Pumped(i))
  BY <1>2, TimedOutSame, Zenon DEF Same, Pumped
<1>4. QED
  BY <1>1, <1>2, <1>3, Zenon DEF Same

\* The view a flush leaves: the frame in flight, or the old one.
LEMMA SeesForward ==
    ASSUME CoreInv, NEW s \in Record, s.session \in Clients,
           Ordered(s, seen[s.session], status)
    PROVE  \E v \in 0 .. MaxStatus :
             /\ v >= seen[s.session] /\ v <= status
             /\ Sees(s) = [seen EXCEPT ![s.session] = v]
             /\ s.inflight # 0 => v = s.inflight
             /\ s.pending # 0 => s.pending >= v
<1>1. CASE s.inflight = 0
  <2>1. Sees(s) = [seen EXCEPT ![s.session] = seen[s.session]]
    BY <1>1, Zenon DEF Sees, CoreInv, SlotType
  <2>2. PICK v \in 0 .. MaxStatus : v = seen[s.session]
    BY Zenon DEF CoreInv, SlotType
  <2>3. v >= seen[s.session] /\ v <= status /\ (s.pending # 0 => s.pending >= v)
    BY <2>2, SlotAssumption DEF Ordered
  <2>4. QED
    BY <1>1, <2>1, <2>2, <2>3, Zenon
<1>2. CASE s.inflight # 0
  BY <1>2, SlotAssumption, Zenon DEF CoreInv, SlotType, Record, Ordered, Sees
<1>3. QED
  BY <1>1, <1>2, Zenon

\* The call of the HTTP thread keeps its meaning while records change hands in
\* no slot it is about.
LEMMA CallKept ==
    ASSUME SlotType, CallInv, NEW i \in Slots, NEW s \in Record,
           slot' = [slot EXCEPT ![i] = s], s.in_use = slot[i].in_use,
           s.closed = slot[i].closed \/ http # "loop" \/ call = <<>>,
           UNCHANGED <<call, http>>
    PROVE  CallInv'
<1>1. slot'[i] = s /\ \A j \in Slots : j # i => slot'[j] = slot[j]
  BY Zenon DEF SlotType
<1>2. \A j \in Slots : call = <<"add", j>> => call # <<>>
  OBVIOUS
<1>3. QED
  BY <1>1, <1>2, Zenon DEF CallInv

------------------------------------------------------------------------------
\* ws_close_socket in a step that shows the client nothing more.
LEMMA CloseStep ==
    ASSUME CoreInv, NEW i \in Slots, slot[i].in_use, ~slot[i].closed,
           NEW s, Same(slot[i], s), CloseSocket(i, s), UNCHANGED <<status, seen>>
    PROVE  CoreInv' /\ LStep
<1> DEFINE t == [s EXCEPT !.closed = TRUE]
<1>0. slot[i].session \in Clients /\ seen[slot[i].session] \in 0 .. MaxStatus
  BY Zenon DEF CoreInv, OwnerInv, SlotType
<1>1. /\ t \in Record /\ t.in_use /\ t.closed /\ t.session = slot[i].session
      /\ t.pending = s.pending /\ t.inflight = s.inflight
  BY Zenon DEF Same, Record
<1>2. Ordered(slot[i], seen[slot[i].session], status)
  BY Zenon DEF CoreInv, OrderInv
<1>3. Ordered(s, seen[slot[i].session], status)
  BY <1>0, <1>2, SlotAssumption DEF Same, CoreInv, SlotType
<1>4. Ordered(t, seen[t.session], status)
  BY <1>1, <1>3, Zenon DEF Ordered
<1>5. seen' = [seen EXCEPT ![t.session] = seen[t.session]]
  BY <1>0, <1>1, Zenon DEF CoreInv, SlotType
<1>6. slot' = [slot EXCEPT ![i] = t]
      /\ conn' = [conn EXCEPT ![t.session] = IF t.closed THEN "closed" ELSE "open"]
  BY <1>1, Zenon DEF CloseSocket, Same
<1>7. seen[t.session] \in 0 .. MaxStatus /\ seen[t.session] >= seen[t.session]
  BY <1>0, <1>1
<1> HIDE DEF t
<1>8. QED
  BY <1>1, <1>4, <1>5, <1>6, <1>7, RecordStep, Zenon

\* A step that keeps the socket open and shows the client nothing more.
LEMMA KeepStep ==
    ASSUME CoreInv, NEW i \in Slots, slot[i].in_use, ~slot[i].closed,
           NEW s, Same(slot[i], s), slot' = [slot EXCEPT ![i] = s],
           UNCHANGED <<status, seen, conn>>
    PROVE  CoreInv' /\ LStep
<1>0. slot[i].session \in Clients /\ seen[slot[i].session] \in 0 .. MaxStatus
      /\ conn[slot[i].session] = "open"
  BY Zenon DEF CoreInv, OwnerInv, SlotType
<1>1. s \in Record /\ s.in_use /\ ~s.closed /\ s.session = slot[i].session
  BY Zenon DEF Same
<1>2. Ordered(slot[i], seen[slot[i].session], status)
  BY Zenon DEF CoreInv, OrderInv
<1>3. Ordered(s, seen[s.session], status)
  BY <1>0, <1>1, <1>2, SlotAssumption DEF Same, CoreInv, SlotType
<1>4. seen' = [seen EXCEPT ![s.session] = seen[s.session]]
  BY <1>0, <1>1, Zenon DEF CoreInv, SlotType
<1>5. conn' = [conn EXCEPT ![s.session] = IF s.closed THEN "closed" ELSE "open"]
  BY <1>0, <1>1, Zenon DEF CoreInv, SlotType
<1>6. seen[s.session] \in 0 .. MaxStatus /\ seen[s.session] >= seen[s.session]
  BY <1>0, <1>1
<1>7. QED
  BY <1>1, <1>3, <1>4, <1>5, <1>6, RecordStep, Zenon

\* A step that flushes the frame in flight; t is the record it leaves.
LEMMA FlushStep ==
    ASSUME CoreInv, NEW i \in Slots, slot[i].in_use, ~slot[i].closed,
           NEW s, Same(slot[i], s), seen' = Sees(s), UNCHANGED status,
           NEW t \in Record, t.in_use, t.session = s.session,
           t.pending = s.pending, t.inflight \in {0, s.inflight},
           slot' = [slot EXCEPT ![i] = t],
           conn' = [conn EXCEPT ![t.session] = IF t.closed THEN "closed" ELSE "open"]
    PROVE  CoreInv' /\ LStep
<1>0. slot[i].session \in Clients /\ seen[slot[i].session] \in 0 .. MaxStatus
  BY Zenon DEF CoreInv, OwnerInv, SlotType
<1>1. s \in Record /\ s.session = slot[i].session
  BY Zenon DEF Same
<1>2. Ordered(slot[i], seen[slot[i].session], status)
  BY Zenon DEF CoreInv, OrderInv
<1>3. Ordered(s, seen[s.session], status)
  BY <1>0, <1>1, <1>2, SlotAssumption DEF Same, CoreInv, SlotType
<1>4. PICK v \in 0 .. MaxStatus :
          /\ v >= seen[s.session] /\ v <= status
          /\ Sees(s) = [seen EXCEPT ![s.session] = v]
          /\ s.inflight # 0 => v = s.inflight
          /\ s.pending # 0 => s.pending >= v
  BY <1>0, <1>1, <1>3, SeesForward, Zenon
<1>5. Ordered(t, v, status)
  BY <1>1, <1>3, <1>4, SlotAssumption DEF Ordered, CoreInv, SlotType, Record
<1>6. seen' = [seen EXCEPT ![t.session] = v] /\ v >= seen[t.session]
      /\ t.session = slot[i].session
  BY <1>1, <1>4, Zenon
<1>7. QED
  BY <1>5, <1>6, RecordStep, Zenon

\* ... and closes the socket ...
LEMMA ClosedFlush ==
    ASSUME CoreInv, NEW i \in Slots, slot[i].in_use, ~slot[i].closed,
           NEW s, Same(slot[i], s), CloseSocket(i, s), seen' = Sees(s),
           UNCHANGED status
    PROVE  CoreInv' /\ LStep
<1> DEFINE t == [s EXCEPT !.closed = TRUE]
<1>1. /\ t \in Record /\ t.in_use /\ t.closed /\ t.session = s.session
      /\ t.pending = s.pending /\ t.inflight = s.inflight
  BY Zenon DEF Same, Record
<1>2. slot' = [slot EXCEPT ![i] = t]
      /\ conn' = [conn EXCEPT ![t.session] = IF t.closed THEN "closed" ELSE "open"]
  BY <1>1, Zenon DEF CloseSocket
<1> HIDE DEF t
<1>3. QED
  BY <1>1, <1>2, FlushStep, Zenon

\* The record once its frame is out.
LEMMA Emptied ==
    ASSUME NEW s \in Record
    PROVE  LET t == [s EXCEPT !.inflight = 0]
               u == [s EXCEPT !.inflight = 0, !.late = FALSE]
           IN  /\ t \in Record /\ t.in_use = s.in_use /\ t.closed = s.closed
               /\ t.session = s.session /\ t.pending = s.pending /\ t.inflight = 0
               /\ u \in Record /\ u.in_use = s.in_use /\ u.closed = s.closed
               /\ u.session = s.session /\ u.pending = s.pending /\ u.inflight = 0
<1>1. 0 \in 0 .. MaxStatus
  BY SlotAssumption
<1>2. QED
  BY <1>1, Zenon DEF Record

\* ... or leaves it open.
LEMMA OpenFlush ==
    ASSUME CoreInv, NEW i \in Slots, slot[i].in_use, ~slot[i].closed,
           NEW s, Same(slot[i], s), seen' = Sees(s), UNCHANGED <<status, conn>>,
           NEW t \in Record, t.in_use, ~t.closed, t.session = s.session,
           t.pending = s.pending, t.inflight = 0, slot' = [slot EXCEPT ![i] = t]
    PROVE  CoreInv' /\ LStep
<1>1. conn[t.session] = "open" /\ t.session \in Clients
  BY Zenon DEF Same, CoreInv, OwnerInv
<1>2. conn' = [conn EXCEPT ![t.session] = IF t.closed THEN "closed" ELSE "open"]
  BY <1>1, Zenon DEF CoreInv, SlotType
<1>3. QED
  BY <1>2, FlushStep, Zenon

------------------------------------------------------------------------------
\* The passes of the HTTP thread over one slot, and its deadlines.
LEMMA PassStep ==
    ASSUME WInv, NEW i \in Slots,
           DeadlinePasses(i) \/ SocketFails(i) \/ Pump(i) \/ Flush(i)
    PROVE  WInv' /\ LStep
<1>0. slot[i] \in Record /\ CoreInv /\ SlotType /\ CallInv /\ QueueType
  BY Zenon DEF WInv, CoreInv, SlotType
<1>1. Same(slot[i], slot[i]) /\ Same(slot[i], Pumped(i))
      /\ Same(slot[i], Drained(slot[i])) /\ Same(slot[i], BeginClose(slot[i]))
  BY <1>0, PumpedSame, DrainedSame, BeginCloseSame, Zenon DEF Same
<1>2. Same(slot[i], BeginClose(Drained(slot[i])))
  BY <1>1, BeginCloseSame, Zenon DEF Same
<1>3. slot[i].in_use /\ ~slot[i].closed /\ UNCHANGED <<queue, call, http>>
  BY Zenon DEF DeadlinePasses, SocketFails, Pump, PumpFlushes, PumpBlocks, Flush, FlushPass,
               ForceClose, Flushable
<1>4. QueueType' /\ UNCHANGED <<status, call, http>>
  BY <1>0, <1>3, Zenon DEF QueueType, queue
<1>5. ASSUME CoreInv' /\ LStep,
             NEW s \in Record, slot' = [slot EXCEPT ![i] = s], s.in_use,
             ~s.closed \/ http # "loop" \/ call = <<>>
      PROVE  WInv' /\ LStep
  <2>1. s.in_use = slot[i].in_use /\ (~s.closed => s.closed = slot[i].closed)
    BY <1>0, <1>3, <1>5, Zenon DEF Record
  <2>2. CallInv'
    BY <1>0, <1>3, <1>4, <1>5, <2>1, CallKept, Zenon
  <2>3. QED
    BY <1>4, <1>5, <2>2, Zenon DEF WInv
<1>6. ASSUME NEW s, Same(slot[i], s), CloseSocket(i, s),
             http # "loop" \/ call = <<>>, CoreInv' /\ LStep
      PROVE  WInv' /\ LStep
  <2>1. [s EXCEPT !.closed = TRUE] \in Record /\ [s EXCEPT !.closed = TRUE].in_use
    BY <1>3, <1>6, Zenon DEF Same, Record
  <2>2. slot' = [slot EXCEPT ![i] = [s EXCEPT !.closed = TRUE]]
    BY <1>6, Zenon DEF CloseSocket
  <2>3. QED
    BY <1>5, <1>6, <2>1, <2>2, Zenon
<1>7. CASE DeadlinePasses(i)
  <2>1. Same(slot[i], [slot[i] EXCEPT !.late = TRUE])
    BY <1>0, Zenon DEF Same, Record, Ordered
  <2>2. slot' = [slot EXCEPT ![i] = [slot[i] EXCEPT !.late = TRUE]]
        /\ UNCHANGED <<seen, conn>>
    BY <1>7, Zenon DEF DeadlinePasses
  <2>3. CoreInv' /\ LStep
    BY <1>0, <1>3, <1>4, <2>1, <2>2, KeepStep, Zenon
  <2>4. QED
    BY <1>3, <1>5, <2>1, <2>2, <2>3, Zenon DEF Same
<1>8. CASE SocketFails(i) \/ ForceClose(i)
  <2>1. CloseSocket(i, slot[i]) /\ UNCHANGED seen /\ (http # "loop" \/ call = <<>>)
    BY <1>8, Zenon DEF SocketFails, ForceClose, Flushable, HttpFree
  <2>2. CoreInv' /\ LStep
    BY <1>0, <1>1, <1>3, <1>4, <2>1, CloseStep, Zenon
  <2>3. QED
    BY <1>1, <1>6, <2>1, <2>2, Zenon
<1>9. CASE PumpBlocks(i)
  <2>0. call = <<>> /\ UNCHANGED seen
    BY <1>9, Zenon DEF PumpBlocks, HttpFree
  <2>1. CASE CloseSocket(i, Pumped(i))
    <3>1. CoreInv' /\ LStep
      BY <1>0, <1>1, <1>3, <1>4, <2>0, <2>1, CloseStep, Zenon
    <3>2. QED
      BY <1>1, <1>6, <2>0, <2>1, <3>1, Zenon
  <2>2. CASE slot' = [slot EXCEPT ![i] = Pumped(i)] /\ UNCHANGED conn
    <3>1. CoreInv' /\ LStep
      BY <1>0, <1>1, <1>3, <1>4, <2>0, <2>2, KeepStep, Zenon
    <3>2. QED
      BY <1>1, <1>3, <1>5, <2>2, <3>1, Zenon DEF Same
  <2>3. QED
    BY <1>9, <2>1, <2>2, Zenon DEF PumpBlocks
<1>10. CASE PumpFlushes(i)
  <2>0. call = <<>>
    BY <1>10, Zenon DEF PumpFlushes, HttpFree
  <2>1. CASE CloseSocket(i, Pumped(i)) /\ UNCHANGED seen
    <3>1. CoreInv' /\ LStep
      BY <1>0, <1>1, <1>3, <1>4, <2>1, CloseStep, Zenon
    <3>2. QED
      BY <1>1, <1>6, <2>0, <2>1, <3>1, Zenon
  <2>2. CASE CloseSocket(i, Pumped(i)) /\ seen' = Sees(Pumped(i))
    <3>1. CoreInv' /\ LStep
      BY <1>0, <1>1, <1>3, <1>4, <2>2, ClosedFlush, Zenon
    <3>2. QED
      BY <1>1, <1>6, <2>0, <2>2, <3>1, Zenon
  <2>3. CASE /\ slot' = [slot EXCEPT ![i] = [Pumped(i) EXCEPT !.inflight = 0, !.late = FALSE]]
             /\ seen' = Sees(Pumped(i)) /\ UNCHANGED conn
    <3> DEFINE t == [Pumped(i) EXCEPT !.inflight = 0, !.late = FALSE]
    <3>1. t \in Record /\ t.in_use /\ ~t.closed /\ t.session = Pumped(i).session
          /\ t.pending = Pumped(i).pending /\ t.inflight = 0
      BY <1>1, <1>3, Emptied, Zenon DEF Same
    <3>2. CoreInv' /\ LStep
      BY <1>0, <1>1, <1>3, <1>4, <2>3, <3>1, OpenFlush, Zenon
    <3>3. QED
      BY <1>5, <2>3, <3>1, <3>2, Zenon
  <2>4. QED
    BY <1>10, <2>1, <2>2, <2>3, Zenon DEF PumpFlushes
<1>11. CASE FlushPass(i)
  <2> DEFINE s == Drained(slot[i])
  <2>0. http # "loop"
    BY <1>11, Zenon DEF FlushPass, Flushable
  <2>1. CASE slot' = [slot EXCEPT ![i] = s] /\ UNCHANGED <<seen, conn>>
    <3>1. CoreInv' /\ LStep
      BY <1>0, <1>1, <1>3, <1>4, <2>1, KeepStep, Zenon
    <3>2. QED
      BY <1>1, <1>3, <1>5, <2>1, <3>1, Zenon DEF Same
  <2>2. CASE /\ slot' = [slot EXCEPT ![i] = [BeginClose(s) EXCEPT !.inflight = 0]]
             /\ seen' = Sees(s) /\ UNCHANGED conn
    <3> DEFINE t == [BeginClose(s) EXCEPT !.inflight = 0]
    <3>1. t \in Record /\ t.in_use /\ ~t.closed /\ t.session = s.session
          /\ t.pending = s.pending /\ t.inflight = 0
      <4>1. Same(s, BeginClose(s)) /\ BeginClose(s).pending = s.pending
        BY <1>1, BeginCloseSame, Zenon DEF Same, Record, BeginClose
      <4>2. QED
        BY <1>1, <1>3, <4>1, Emptied, Zenon DEF Same
    <3>2. CoreInv' /\ LStep
      BY <1>0, <1>1, <1>3, <1>4, <2>2, <3>1, OpenFlush, Zenon
    <3>3. QED
      BY <1>5, <2>2, <3>1, <3>2, Zenon
  <2>3. CASE CloseSocket(i, BeginClose(s)) /\ seen' = Sees(s)
    <3>1. s.inflight = BeginClose(s).inflight /\ s.session = BeginClose(s).session
      BY <1>1, Zenon DEF Same, Record, BeginClose
    <3>2. seen' = Sees(BeginClose(s))
      BY <2>3, <3>1, Zenon DEF Sees
    <3>3. CoreInv' /\ LStep
      BY <1>0, <1>2, <1>3, <1>4, <2>3, <3>2, ClosedFlush, Zenon
    <3>4. QED
      BY <1>2, <1>6, <2>0, <2>3, <3>3, Zenon
  <2>4. QED
    BY <1>11, <2>1, <2>2, <2>3, Zenon DEF FlushPass
<1>12. QED
  BY <1>7, <1>8, <1>9, <1>10, <1>11, Zenon DEF Pump, Flush

------------------------------------------------------------------------------
\* LatestValue does not see a step that changes no view, status or connection.
LEMMA Unseen ==
    ASSUME UNCHANGED <<status, seen>>,
           {c \in Clients : conn'[c] = "open"} = {c \in Clients : conn[c] = "open"}
    PROVE  LStep
  BY Zenon DEF LStep, LV!lvars

\* Removing an entry leaves a table of slot numbers.
LEMMA DroppedType ==
    ASSUME QueueType, NEW i, NEW s \in Dropped(i)
    PROVE  s \in Seq(Slots)
<1>1. PICK k \in DOMAIN listeners :
          s = SubSeq(listeners, 1, k - 1) \o SubSeq(listeners, k + 1, Len(listeners))
  BY Zenon DEF Dropped
<1>2. k \in 1 .. Len(listeners)
  BY <1>1 DEF QueueType
<1>3. /\ SubSeq(listeners, 1, k - 1) \in Seq(Slots)
      /\ SubSeq(listeners, k + 1, Len(listeners)) \in Seq(Slots)
  BY <1>2 DEF QueueType
<1>4. QED
  BY <1>1, <1>3

\* strim_http_ws_send: the newest status waits, and nothing else moves.
LEMMA PushStep ==
    ASSUME CoreInv, NEW i \in Slots, slot' \in WsSend(i),
           UNCHANGED <<status, seen, conn>>
    PROVE  /\ CoreInv' /\ LStep
           /\ \A j \in Slots : slot'[j].in_use = slot[j].in_use
                              /\ slot'[j].closed = slot[j].closed
<1>1. CASE slot' = slot
  BY <1>1, Unseen, Zenon DEF CoreInv, SlotType, OwnerInv, OrderInv, Ordered
<1>2. CASE slot[i].in_use /\ slot' = [slot EXCEPT ![i].pending = status]
  <2>0. slot[i] \in Record /\ status \in 0 .. MaxStatus
    BY SlotAssumption DEF CoreInv, SlotType
  <2>1. PICK s \in Record :
           /\ slot' = [slot EXCEPT ![i] = s]
           /\ s.in_use = slot[i].in_use /\ s.closed = slot[i].closed
           /\ s.session = slot[i].session /\ s.inflight = slot[i].inflight
           /\ s.pending = status
    <3>1. [slot[i] EXCEPT !.pending = status] \in Record
      BY <2>0, Zenon DEF Record
    <3>2. QED
      BY <1>2, <2>0, <3>1, Zenon DEF Record
  <2>2. slot'[i] = s /\ \A j \in Slots : j # i => slot'[j] = slot[j]
    BY <2>1, Zenon DEF CoreInv, SlotType
  <2>3. SlotType'
    BY <2>1, Zenon DEF CoreInv, SlotType
  <2>4. OwnerInv'
    BY <2>1, <2>2 DEF CoreInv, OwnerInv
  <2>5. OrderInv'
    <3>1. Ordered(s, seen[s.session], status)
      BY <1>2, <2>0, <2>1 DEF CoreInv, OrderInv, Ordered, SlotType, Record, OwnerInv
    <3>2. \A j \in Slots : slot'[j].in_use =>
             Ordered(slot'[j], seen[slot'[j].session], status)
      BY <2>2, <3>1, Zenon DEF CoreInv, OrderInv
    <3>3. QED
      BY <3>2, Zenon DEF CoreInv, OrderInv, Ordered
  <2>6. LStep
    BY Unseen, Zenon
  <2>7. QED
    BY <2>1, <2>2, <2>3, <2>4, <2>5, <2>6, Zenon DEF CoreInv
<1>3. QED
  BY <1>1, <1>2, Zenon DEF WsSend

\* A connection that was new takes a free slot, open or closed at once.
LEMMA TakeSlot ==
    ASSUME CoreInv, NEW c \in Clients, conn[c] = "new",
           NEW i \in Slots, ~slot[i].in_use,
           NEW s \in Record, s.in_use, s.session = c, s.pending = 0, s.inflight = 0,
           slot' = [slot EXCEPT ![i] = s], UNCHANGED <<status, seen>>,
           conn' = [conn EXCEPT ![c] = IF s.closed THEN "closed" ELSE "open"]
    PROVE  CoreInv' /\ LStep
<1>1. /\ slot'[i] = s /\ \A j \in Slots : j # i => slot'[j] = slot[j]
      /\ conn'[c] = IF s.closed THEN "closed" ELSE "open"
      /\ \A d \in Clients : d # c => conn'[d] = conn[d]
      /\ seen[c] = 0
  BY Zenon DEF CoreInv, SlotType, OwnerInv
<1>2. \A j \in Slots : slot[j].in_use => slot[j].session \in Clients /\ slot[j].session # c
  BY Zenon DEF CoreInv, OwnerInv
<1>3. SlotType'
  BY Zenon DEF CoreInv, SlotType
<1>4. OwnerInv'
  BY <1>1, <1>2 DEF CoreInv, OwnerInv
<1>5. OrderInv'
  <2>1. Ordered(s, seen[c], status)
    BY <1>1, SlotAssumption DEF CoreInv, SlotType, Ordered
  <2>2. \A j \in Slots : slot'[j].in_use =>
           Ordered(slot'[j], seen[slot'[j].session], status)
    BY <1>1, <2>1, Zenon DEF CoreInv, OrderInv
  <2>3. QED
    BY <2>2, Zenon DEF CoreInv, OrderInv, Ordered
<1>6. LStep
  <2>1. CASE s.closed
    <3>1. {d \in Clients : conn'[d] = "open"} = {d \in Clients : conn[d] = "open"}
      BY <1>1, <2>1
    <3>2. QED
      BY <3>1, Unseen, Zenon
  <2>2. CASE ~s.closed
    <3>1. {d \in Clients : conn'[d] = "open"} = {d \in Clients : conn[d] = "open"} \cup {c}
      BY <1>1, <2>2, Zenon
    <3>2. LV!Connect(c)
      BY <1>1, <3>1, Zenon DEF LV!Connect
    <3>3. QED
      BY <3>2, Zenon DEF LStep, LV!LNext
  <2>3. QED
    BY <2>1, <2>2, Zenon
<1>7. QED
  BY <1>3, <1>4, <1>5, <1>6, Zenon DEF CoreInv

\* ws_upgrade_handler.
LEMMA UpgradeStep ==
    ASSUME WInv, NEW c \in Clients, Upgrade(c) \/ UpgradeFails(c) \/ UpgradeRefused(c)
    PROVE  WInv' /\ LStep
<1>0. CoreInv /\ SlotType /\ CallInv /\ QueueType /\ conn[c] = "new"
      /\ call = <<>> /\ http = "loop"
      /\ UNCHANGED <<status, seen, todo, listeners, http>>
  BY Zenon DEF WInv, CoreInv, Upgrade, UpgradeFails, UpgradeRefused, queue, HttpFree
<1>1. CASE UpgradeRefused(c)
  <2>1. conn' = [conn EXCEPT ![c] = "done"] /\ UNCHANGED <<slot, call>>
    BY <1>1, Zenon DEF UpgradeRefused
  <2>2. conn'[c] = "done" /\ \A d \in Clients : d # c => conn'[d] = conn[d]
    BY <1>0, <2>1, Zenon DEF SlotType
  <2>3. \A j \in Slots : slot[j].in_use => slot[j].session # c
    BY <1>0, Zenon DEF CoreInv, OwnerInv
  <2>4. SlotType'
    BY <1>0, <2>1, Zenon DEF SlotType
  <2>5. OwnerInv'
    BY <1>0, <2>1, <2>2, <2>3 DEF CoreInv, OwnerInv
  <2>6. OrderInv'
    BY <1>0, <2>1, Zenon DEF CoreInv, OrderInv, Ordered
  <2>7. LStep
    <3>1. {d \in Clients : conn'[d] = "open"} = {d \in Clients : conn[d] = "open"}
      BY <1>0, <2>2, Zenon
    <3>2. QED
      BY <1>0, <3>1, Unseen, Zenon
  <2>8. CallInv' /\ QueueType'
    BY <1>0, <2>1, Zenon DEF CallInv, QueueType
  <2>9. QED
    BY <2>4, <2>5, <2>6, <2>7, <2>8, Zenon DEF WInv, CoreInv
<1>2. CASE Upgrade(c) \/ UpgradeFails(c)
  <2>1. PICK s \in Record :
           /\ s = Upgraded(c)
           /\ s.in_use /\ ~s.closed /\ s.session = c /\ s.pending = 0 /\ s.inflight = 0
    <3>1. 0 \in 0 .. MaxStatus
      BY SlotAssumption
    <3>2. Upgraded(c) \in Record
      BY <3>1, Zenon DEF FreeSlot, Record, Upgraded
    <3>3. QED
      BY <3>2, Zenon DEF FreeSlot, Upgraded
  <2>2. QueueType'
    BY <1>0, Zenon DEF QueueType
  <2>3. CASE Upgrade(c)
    <3>1. PICK i \in Slots : /\ ~slot[i].in_use /\ slot' = [slot EXCEPT ![i] = s]
                             /\ call' = <<"add", i>> /\ conn' = [conn EXCEPT ![c] = "open"]
      BY <2>1, <2>3, Zenon DEF Upgrade, LowestFree
    <3>2. CoreInv' /\ LStep
      BY <1>0, <2>1, <3>1, TakeSlot, Zenon
    <3>3. slot'[i] = s
      BY <1>0, <3>1, Zenon DEF SlotType
    <3>4. CallInv'
      BY <1>0, <2>1, <3>1, <3>3, Zenon DEF CallInv
    <3>5. QED
      BY <2>2, <3>2, <3>4, Zenon DEF WInv
  <2>4. CASE UpgradeFails(c)
    <3>1. PICK t \in Record :
             /\ t = [s EXCEPT !.closed = TRUE]
             /\ t.in_use /\ t.closed /\ t.session = c /\ t.pending = 0 /\ t.inflight = 0
      <4>1. [s EXCEPT !.closed = TRUE] \in Record
        BY Zenon DEF Record
      <4>2. QED
        BY <2>1, <4>1, Zenon DEF Record
    <3>2. PICK i \in Slots : ~slot[i].in_use /\ slot' = [slot EXCEPT ![i] = t]
      BY <2>1, <2>4, <3>1, Zenon DEF UpgradeFails, LowestFree
    <3>3. conn' = [conn EXCEPT ![c] = "closed"] /\ UNCHANGED call
      BY <2>4, Zenon DEF UpgradeFails
    <3>4. CoreInv' /\ LStep
      BY <1>0, <3>1, <3>2, <3>3, TakeSlot, Zenon
    <3>5. CallInv'
      BY <1>0, <3>3, Zenon DEF CallInv
    <3>6. QED
      BY <2>2, <3>4, <3>5, Zenon DEF WInv
  <2>5. QED
    BY <1>2, <2>3, <2>4, Zenon
<1>3. QED
  BY <1>1, <1>2, Zenon

\* ws_cleanup_slot: the closed connection gives its slot back.
LEMMA CleanupStep ==
    ASSUME WInv, NEW i \in Slots, Cleanup(i)
    PROVE  WInv' /\ LStep
<1>0. CoreInv /\ SlotType /\ OwnerInv /\ OrderInv /\ CallInv /\ QueueType
      /\ slot[i].in_use /\ slot[i].closed /\ call' = <<"remove", i>>
      /\ UNCHANGED <<status, seen, todo, listeners, http>>
  BY Zenon DEF WInv, CoreInv, Cleanup, queue
<1>1. PICK c \in Clients : c = slot[i].session /\ conn[c] = "closed"
  BY <1>0, Zenon DEF OwnerInv
<1>2. PICK s \in Record : slot' = [slot EXCEPT ![i] = s] /\ ~s.in_use
  <2>1. slot[i] \in Record /\ 0 \in 0 .. MaxStatus
    BY <1>0, SlotAssumption DEF SlotType
  <2>2. [slot[i] EXCEPT !.in_use = FALSE, !.pending = 0] \in Record
        /\ ~[slot[i] EXCEPT !.in_use = FALSE, !.pending = 0].in_use
    BY <2>1, Zenon DEF Record
  <2>3. slot' = [slot EXCEPT ![i] = [slot[i] EXCEPT !.in_use = FALSE, !.pending = 0]]
    BY <1>0, Zenon DEF Cleanup, SlotType
  <2>4. QED
    BY <2>2, <2>3, Zenon
<1>3. conn' = [conn EXCEPT ![c] = "done"]
  BY <1>1, Zenon DEF Cleanup
<1>4. /\ slot'[i] = s /\ \A j \in Slots : j # i => slot'[j] = slot[j]
      /\ conn'[c] = "done" /\ \A d \in Clients : d # c => conn'[d] = conn[d]
  BY <1>0, <1>2, <1>3, Zenon DEF SlotType
<1>5. \A j \in Slots : j # i /\ slot[j].in_use => slot[j].session # c
  BY <1>0, <1>1, Zenon DEF OwnerInv
<1>6. SlotType'
  BY <1>0, <1>2, <1>3, Zenon DEF SlotType
<1>7. OwnerInv'
  BY <1>0, <1>2, <1>4, <1>5 DEF OwnerInv
<1>8. OrderInv'
  BY <1>0, <1>2, <1>4 DEF OrderInv, Ordered
<1>9. CallInv'
  BY <1>0, <1>2, <1>4 DEF CallInv
<1>10. LStep
  <2>1. {d \in Clients : conn'[d] = "open"} = {d \in Clients : conn[d] = "open"}
    BY <1>1, <1>4, Zenon
  <2>2. QED
    BY <1>0, <2>1, Unseen, Zenon
<1>11. QED
  BY <1>0, <1>6, <1>7, <1>8, <1>9, <1>10, Zenon DEF WInv, CoreInv, QueueType

\* A step that leaves records, views and connections alone.
LEMMA Idle ==
    ASSUME WInv, UNCHANGED <<status, slot, conn, seen, todo, listeners, call>>,
           http' = http \/ call = <<>>
    PROVE  WInv' /\ LStep
<1>1. CoreInv' /\ QueueType'
  BY Zenon DEF WInv, CoreInv, SlotType, OwnerInv, OrderInv, Ordered, QueueType
<1>2. CallInv'
  BY DEF WInv, CallInv
<1>3. QED
  BY <1>1, <1>2, Unseen, Zenon DEF WInv

\* The queue thread.
LEMMA QueueStep ==
    ASSUME WInv, QueueThread
    PROVE  WInv' /\ LStep
<1>0. CoreInv /\ SlotType /\ OwnerInv /\ OrderInv /\ CallInv /\ QueueType
  BY Zenon DEF WInv, CoreInv
<1>1. CASE StatusChange \/ PathChange
  <2>1. status' = status + 1 /\ status < MaxStatus /\ todo' \in {todo, listeners}
        /\ UNCHANGED <<slot, conn, seen, listeners, call, http>>
    BY <1>1, Zenon DEF StatusChange, PathChange
  <2>2. SlotType'
    BY <1>0, <2>1, SlotAssumption DEF SlotType
  <2>3. OwnerInv' /\ CallInv' /\ QueueType'
    BY <1>0, <2>1, Zenon DEF OwnerInv, CallInv, QueueType
  <2>4. OrderInv'
    <3>1. \A j \in Slots : slot[j].in_use =>
             /\ slot[j].pending \in Nat /\ slot[j].inflight \in Nat
             /\ seen[slot[j].session] \in Nat
      BY <1>0, SlotAssumption DEF SlotType, Record, OwnerInv
    <3>2. \A c \in Clients : seen[c] \in Nat
      BY <1>0, SlotAssumption DEF SlotType
    <3>3. status \in Nat
      BY <1>0 DEF SlotType
    <3>4. QED
      BY <1>0, <2>1, <3>1, <3>2, <3>3 DEF OrderInv, Ordered
  <2>5. LV!Change
    BY <2>1, Zenon DEF LV!Change
  <2>6. QED
    BY <2>2, <2>3, <2>4, <2>5, Zenon DEF WInv, CoreInv, LStep, LV!LNext
<1>2. CASE NotifyNext
  <2>1. PICK i \in Slots : i = Head(todo) /\ slot' \in WsSend(i)
    BY <1>0, <1>2 DEF NotifyNext, QueueType
  <2>2. UNCHANGED <<status, listeners, conn, seen, http, call>> /\ QueueType'
    BY <1>0, <1>2 DEF NotifyNext, QueueType
  <2>3. /\ CoreInv' /\ LStep
        /\ \A j \in Slots : slot'[j].in_use = slot[j].in_use
                           /\ slot'[j].closed = slot[j].closed
    BY <1>0, <2>1, <2>2, PushStep, Zenon
  <2>4. CallInv'
    BY <1>0, <2>2, <2>3, Zenon DEF CallInv
  <2>5. QED
    BY <2>2, <2>3, <2>4, Zenon DEF WInv
<1>3. CASE AddListener \/ AddListenerRefused \/ RemoveListener
  <2>1. PICK i \in Slots : call[2] = i
    BY <1>0, <1>3, Zenon DEF AddListener, AddListenerRefused, RemoveListener, CallInv
  <2>2. call' = <<>> /\ UNCHANGED <<status, seen, todo, http>>
    BY <1>3, Zenon DEF AddListener, AddListenerRefused, RemoveListener, queue
  <2>3. CallInv'
    BY <2>2, Zenon DEF CallInv
  <2>4. CASE AddListener
    <3>1. slot' \in WsSend(i) /\ UNCHANGED conn /\ listeners' = Append(listeners, i)
      BY <2>1, <2>4, Zenon DEF AddListener
    <3>2. CoreInv' /\ LStep
      BY <1>0, <2>2, <3>1, PushStep, Zenon
    <3>3. QED
      BY <1>0, <2>2, <2>3, <3>1, <3>2 DEF WInv, QueueType
  <2>5. CASE AddListenerRefused
    <3>0. call = <<"add", i>>
      BY <1>0, <2>1, <2>5 DEF AddListenerRefused, CallInv
    <3>1. slot[i].in_use /\ ~slot[i].closed /\ slot[i] \in Record
      BY <1>0, <3>0, Zenon DEF CallInv, SlotType
    <3>2. slot' = [slot EXCEPT ![i] = [slot[i] EXCEPT !.closing = TRUE, !.closed = TRUE]]
          /\ conn' = [conn EXCEPT ![slot[i].session] = "closed"]
          /\ UNCHANGED listeners
      BY <1>0, <2>1, <2>5, Zenon DEF AddListenerRefused, SlotType, queue
    <3>3. Same(slot[i], [slot[i] EXCEPT !.closing = TRUE])
      BY <3>1, Zenon DEF Same, Record, Ordered
    <3>4. CloseSocket(i, [slot[i] EXCEPT !.closing = TRUE])
      BY <3>1, <3>2, Zenon DEF CloseSocket, Record
    <3>5. CoreInv' /\ LStep
      BY <1>0, <2>2, <3>1, <3>3, <3>4, CloseStep, Zenon
    <3>6. QED
      BY <1>0, <2>2, <2>3, <3>2, <3>5, Zenon DEF WInv, QueueType
  <2>6. CASE RemoveListener
    <3>0. call = <<"remove", i>>
      BY <1>0, <2>1, <2>6 DEF RemoveListener, CallInv
    <3>1. ~slot[i].in_use /\ slot[i] \in Record /\ 0 \in 0 .. MaxStatus
      BY <1>0, <3>0, SlotAssumption DEF CallInv, SlotType
    <3>2. UNCHANGED conn /\ listeners' \in Dropped(i) \cup {listeners}
          /\ slot' = [slot EXCEPT ![i] = [slot[i] EXCEPT !.session = None, !.pending = 0,
                                                  !.inflight = 0, !.late = FALSE]]
      BY <1>0, <2>1, <2>6, Zenon DEF RemoveListener, SlotType
    <3>3. QueueType'
      BY <1>0, <2>2, <3>2, DroppedType, Zenon DEF QueueType
    <3>4. PICK s \in Record : slot' = [slot EXCEPT ![i] = s] /\ ~s.in_use
      <4>1. [slot[i] EXCEPT !.session = None, !.pending = 0,
                            !.inflight = 0, !.late = FALSE] \in Record
        BY <3>1, Zenon DEF Record
      <4>2. ~[slot[i] EXCEPT !.session = None, !.pending = 0,
                             !.inflight = 0, !.late = FALSE].in_use
        BY <3>1, Zenon DEF Record
      <4>3. QED
        BY <3>2, <4>1, <4>2, Zenon
    <3>5. slot'[i] = s /\ \A j \in Slots : j # i => slot'[j] = slot[j]
      BY <1>0, <3>4, Zenon DEF SlotType
    <3>6. SlotType'
      BY <1>0, <2>2, <3>2, <3>4, Zenon DEF SlotType
    <3>7. OwnerInv'
      <4>1. \A j \in Slots : slot'[j].in_use => slot'[j] = slot[j] /\ slot[j].in_use
        BY <3>4, <3>5, Zenon
      <4>2. UNCHANGED <<conn, seen>>
        BY <2>2, <3>2, Zenon
      <4>3. QED
        BY <1>0, <4>1, <4>2 DEF OwnerInv
    <3>8. OrderInv'
      BY <1>0, <2>2, <3>4, <3>5, Zenon DEF OrderInv, Ordered
    <3>9. QED
      BY <2>2, <2>3, <3>2, <3>3, <3>6, <3>7, <3>8, Unseen, Zenon DEF WInv, CoreInv
  <2>7. QED
    BY <1>3, <2>4, <2>5, <2>6, Zenon
<1>4. QED
  BY <1>1, <1>2, <1>3, Zenon DEF QueueThread

------------------------------------------------------------------------------
\* The invariant is inductive, and every step is one of LatestValue.
LEMMA Step == ASSUME WInv, [Next]_vars PROVE WInv' /\ LStep
<1>1. CASE QueueThread
  BY <1>1, QueueStep, Zenon
<1>2. CASE \E c \in Clients : Upgrade(c) \/ UpgradeFails(c) \/ UpgradeRefused(c)
  BY <1>2, UpgradeStep, Zenon
<1>3. CASE \E i \in Slots : DeadlinePasses(i) \/ Pump(i) \/ Flush(i) \/ SocketFails(i)
  BY <1>3, PassStep, Zenon
<1>4. CASE \E i \in Slots : Cleanup(i)
  BY <1>4, CleanupStep, Zenon
<1>5. CASE UNCHANGED vars \/ RequestShutdown \/ \E c \in Clients : PeerCloses(c)
  <2>1. UNCHANGED <<status, slot, conn, seen, todo, listeners, call, http>>
    BY <1>5, Zenon DEF vars, RequestShutdown, PeerCloses, queue
  <2>2. QED
    BY <2>1, Idle, Zenon
<1>6. CASE LeaveLoop \/ Stop
  <2>1. UNCHANGED <<status, slot, conn, seen, todo, listeners, call>> /\ call = <<>>
    BY <1>6, Zenon DEF LeaveLoop, Stop, queue, HttpFree
  <2>2. QED
    BY <2>1, Idle, Zenon
<1>7. QED
  BY <1>1, <1>2, <1>3, <1>4, <1>5, <1>6, Zenon DEF Next

\* The program starts in the invariant.
LEMMA Start == Init => WInv /\ LV!LInit
<1> SUFFICES ASSUME Init PROVE WInv /\ LV!LInit
  OBVIOUS
<1>1. \A i \in Slots : slot[i] = FreeSlot
  BY Zenon DEF Init
<1>2. ~FreeSlot.in_use
  BY Zenon DEF FreeSlot
<1>3. FreeSlot \in Record
  BY SlotAssumption DEF FreeSlot, Record
<1>4. SlotType
  BY <1>3, SlotAssumption DEF Init, SlotType
<1>5. OwnerInv
  BY <1>1, <1>2, Zenon DEF Init, OwnerInv
<1>6. OrderInv
  BY <1>1, <1>2 DEF Init, OrderInv
<1>7. CallInv /\ QueueType
  BY DEF Init, CallInv, QueueType
<1>8. LV!LInit
  BY Zenon DEF Init, LV!LInit
<1>9. QED
  BY <1>4, <1>5, <1>6, <1>7, <1>8, Zenon DEF WInv, CoreInv

\* The invariant holds throughout.
THEOREM SlotsInvariant == Spec => []WInv
  BY Start, Step, PTL DEF Spec

\* Frames stay in order, whatever the number of clients and slots: a client is
\* never sent an older status after a newer one.
THEOREM FramesStayInOrder == Spec => []FramesInOrder
<1>1. WInv => FramesInOrder
  BY Zenon DEF WInv, CoreInv, OrderInv, Ordered, FramesInOrder
<1>2. QED
  BY <1>1, SlotsInvariant, PTL

\* The slots implement the register: while it is connected, the view of a
\* client moves forward only, and only to statuses the controller had.
THEOREM SlotsImplementLatestValue == Spec => ImplementsLatestValue
<1>1. Init => LV!LInit
  BY Start, Zenon
<1>2. WInv /\ [Next]_vars => [LV!LNext]_(LV!lvars)
  BY Step, Zenon DEF LStep
<1>3. QED
  BY <1>1, <1>2, SlotsInvariant, PTL DEF Spec, ImplementsLatestValue, LV!LSpec

------------------------------------------------------------------------------
(* The listener table and the slots.  ListenersMatchSlots is not inductive     *)
(* either: while the HTTP thread waits for its listener to be added, the slot  *)
(* must not be in the table yet, and a connection that is not over must have   *)
(* a slot, or a recycled slot could leave an entry or a client behind.         *)
Live == {"open", "closed"}

RegInv ==
    /\ IsInjective(listeners)
    /\ \A i \in Slots : i \in Range(listeners) => slot[i].in_use \/ call = <<"remove", i>>
    /\ \A i \in Slots : slot[i].in_use /\ ~slot[i].closed =>
          i \in Range(listeners) \/ call = <<"add", i>>
    /\ \A i \in Slots : call = <<"add", i>> => i \notin Range(listeners)
    /\ \A c \in Clients : conn[c] \in Live =>
          \E i \in Slots : slot[i].in_use /\ slot[i].session = c

\* The slots keep their occupants, and no connection comes up.
Carried ==
    /\ UNCHANGED <<listeners, call>>
    /\ \A i \in Slots : /\ slot'[i].in_use <=> slot[i].in_use
                        /\ slot[i].in_use => slot'[i].session = slot[i].session
                        /\ slot[i].closed => slot'[i].closed
    /\ \A c \in Clients : conn'[c] \in Live => conn[c] \in Live

\* Such a step changes nothing about who is registered.
LEMMA CarriedKeeps == ASSUME RegInv, Carried PROVE RegInv'
<1>1. Range(listeners)' = Range(listeners) /\ IsInjective(listeners)'
  BY DEF RegInv, Carried, Range, IsInjective
<1>2. \A c \in Clients : conn'[c] \in Live =>
          \E i \in Slots : slot'[i].in_use /\ slot'[i].session = c
  BY Zenon DEF RegInv, Carried
<1>3. QED
  BY <1>1, <1>2, Zenon DEF RegInv, Carried

\* A step on the record of a slot in use, whose connection it may close.
LEMMA RecordCarried ==
    ASSUME SlotType, NEW i \in Slots, slot[i].in_use, ~slot[i].closed,
           NEW t, t.in_use, t.session = slot[i].session,
           slot' = [slot EXCEPT ![i] = t], UNCHANGED <<listeners, call>>,
           \/ UNCHANGED conn
           \/ /\ conn' = [conn EXCEPT ![t.session] = "closed"]
              /\ t.session \in Clients /\ conn[t.session] = "open"
    PROVE  Carried
<1>1. slot'[i] = t /\ \A j \in Slots : j # i => slot'[j] = slot[j]
  BY Zenon DEF SlotType
<1>2. \A c \in Clients : conn'[c] \in Live => conn[c] \in Live
  BY Zenon DEF SlotType, Live
<1>3. QED
  BY <1>1, <1>2, Zenon DEF Carried

\* A pass over one slot, and its deadlines.
LEMMA PassCarried ==
    ASSUME WInv, NEW i \in Slots,
           DeadlinePasses(i) \/ SocketFails(i) \/ Pump(i) \/ Flush(i)
    PROVE  Carried
<1>0. slot[i] \in Record /\ CoreInv /\ SlotType
  BY Zenon DEF WInv, CoreInv, SlotType
<1>1. Same(slot[i], slot[i]) /\ Same(slot[i], Pumped(i))
      /\ Same(slot[i], Drained(slot[i]))
  BY <1>0, PumpedSame, DrainedSame, Zenon DEF Same
<1>2. Same(slot[i], BeginClose(Drained(slot[i])))
  BY <1>1, BeginCloseSame, Zenon DEF Same
<1>3. slot[i].in_use /\ ~slot[i].closed /\ UNCHANGED <<listeners, call>>
  BY Zenon DEF DeadlinePasses, SocketFails, Pump, PumpFlushes, PumpBlocks, Flush, FlushPass,
               ForceClose, Flushable, queue
<1>4. slot[i].session \in Clients /\ conn[slot[i].session] = "open"
  BY <1>0, <1>3, Zenon DEF CoreInv, OwnerInv
<1>5. ASSUME NEW s, Same(slot[i], s), CloseSocket(i, s)
      PROVE  Carried
  <2>1. [s EXCEPT !.closed = TRUE].in_use
        /\ [s EXCEPT !.closed = TRUE].session = slot[i].session
    BY <1>3, <1>5, Zenon DEF Same, Record
  <2>2. /\ slot' = [slot EXCEPT ![i] = [s EXCEPT !.closed = TRUE]]
        /\ conn' = [conn EXCEPT ![[s EXCEPT !.closed = TRUE].session] = "closed"]
    BY <1>5, <2>1, Zenon DEF CloseSocket, Same
  <2>3. QED
    BY <1>0, <1>3, <1>4, <2>1, <2>2, RecordCarried, Zenon
<1>6. ASSUME NEW s, Same(slot[i], s), NEW t, t.in_use = s.in_use, t.session = s.session,
             slot' = [slot EXCEPT ![i] = t], UNCHANGED conn
      PROVE  Carried
  BY <1>0, <1>3, <1>6, RecordCarried, Zenon DEF Same
<1>7. CASE DeadlinePasses(i)
  <2>1. slot' = [slot EXCEPT ![i] = [slot[i] EXCEPT !.late = TRUE]] /\ UNCHANGED conn
    BY <1>7, Zenon DEF DeadlinePasses
  <2>2. [slot[i] EXCEPT !.late = TRUE].in_use = slot[i].in_use
        /\ [slot[i] EXCEPT !.late = TRUE].session = slot[i].session
    BY <1>0, Zenon DEF Record
  <2>3. QED
    BY <1>1, <1>6, <2>1, <2>2, Zenon
<1>8. CASE SocketFails(i) \/ ForceClose(i)
  BY <1>1, <1>5, <1>8, Zenon DEF SocketFails, ForceClose
<1>9. CASE PumpBlocks(i)
  BY <1>1, <1>5, <1>6, <1>9, Zenon DEF PumpBlocks
<1>10. CASE PumpFlushes(i)
  <2>1. [Pumped(i) EXCEPT !.inflight = 0, !.late = FALSE].in_use = Pumped(i).in_use
        /\ [Pumped(i) EXCEPT !.inflight = 0, !.late = FALSE].session = Pumped(i).session
    BY <1>1, Zenon DEF Same, Record
  <2>2. \/ CloseSocket(i, Pumped(i))
        \/ /\ slot' = [slot EXCEPT ![i] = [Pumped(i) EXCEPT !.inflight = 0, !.late = FALSE]]
           /\ UNCHANGED conn
    BY <1>10, Zenon DEF PumpFlushes
  <2>3. QED
    BY <1>1, <1>5, <1>6, <2>1, <2>2, Zenon
<1>11. CASE FlushPass(i)
  <2>1. PICK s : s = Drained(slot[i])
    OBVIOUS
  <2>2. [BeginClose(s) EXCEPT !.inflight = 0].in_use = BeginClose(s).in_use
        /\ [BeginClose(s) EXCEPT !.inflight = 0].session = BeginClose(s).session
    BY <1>2, <2>1, Zenon DEF Same, Record
  <2>3. \/ slot' = [slot EXCEPT ![i] = s] /\ UNCHANGED conn
        \/ slot' = [slot EXCEPT ![i] = [BeginClose(s) EXCEPT !.inflight = 0]] /\ UNCHANGED conn
        \/ CloseSocket(i, BeginClose(s))
    BY <1>11, <2>1, Zenon DEF FlushPass
  <2>4. QED
    BY <1>1, <1>2, <1>5, <1>6, <2>1, <2>2, <2>3, Zenon
<1>12. QED
  BY <1>7, <1>8, <1>9, <1>10, <1>11, Zenon DEF Pump, Flush

\* Registering a slot that is not in the table adds it and nothing else.
LEMMA AppendTable ==
    ASSUME NEW s \in Seq(Slots), IsInjective(s), NEW i \in Slots, i \notin Range(s)
    PROVE  IsInjective(Append(s, i)) /\ Range(Append(s, i)) = Range(s) \cup {i}
<1>1. /\ DOMAIN Append(s, i) = 1 .. Len(s) + 1 /\ Len(s) \in Nat /\ DOMAIN s = 1 .. Len(s)
      /\ Append(s, i)[Len(s) + 1] = i
      /\ \A k \in 1 .. Len(s) : Append(s, i)[k] = s[k]
  OBVIOUS
<1>2. Range(Append(s, i)) = Range(s) \cup {i}
  BY <1>1 DEF Range
<1>3. IsInjective(Append(s, i))
  BY <1>1 DEF IsInjective, Range
<1>4. QED
  BY <1>2, <1>3, Zenon

\* s is the table of listeners without its entry at k, which held i.
Without(s, k, i) ==
    /\ listeners[k] = i /\ DOMAIN s = 1 .. Len(listeners) - 1
    /\ \A m \in 1 .. k - 1 : s[m] = listeners[m]
    /\ \A m \in k .. Len(listeners) - 1 : s[m] = listeners[m + 1]

\* The entries behind the dropped one move up.
LEMMA DroppedEntries ==
    ASSUME QueueType, NEW i, NEW s \in Dropped(i)
    PROVE  \E k \in 1 .. Len(listeners) : Without(s, k, i)
<1>1. PICK k \in DOMAIN listeners :
          /\ s = SubSeq(listeners, 1, k - 1) \o SubSeq(listeners, k + 1, Len(listeners))
          /\ listeners[k] = i
  BY Zenon DEF Dropped
<1>2. Len(listeners) \in Nat /\ k \in 1 .. Len(listeners) /\ listeners \in Seq(Slots)
  BY <1>1 DEF QueueType
<1>0. /\ SubSeq(listeners, 1, k - 1) \in Seq(Slots)
      /\ SubSeq(listeners, k + 1, Len(listeners)) \in Seq(Slots)
  BY <1>2
<1>3. PICK a \in Seq(Slots) : a = SubSeq(listeners, 1, k - 1)
  BY <1>0, Zenon
<1>4. PICK b \in Seq(Slots) : b = SubSeq(listeners, k + 1, Len(listeners))
  BY <1>0, Zenon
<1>5. Len(a) = k - 1 /\ \A m \in 1 .. k - 1 : a[m] = listeners[m]
  BY <1>2, <1>3
<1>6. /\ Len(b) = Len(listeners) - k
      /\ \A m \in 1 .. Len(listeners) - k : b[m] = listeners[m + k]
  BY <1>2, <1>4, SMTT(30)
<1>7. /\ DOMAIN (a \o b) = 1 .. Len(a) + Len(b)
      /\ \A m \in 1 .. Len(a) : (a \o b)[m] = a[m]
      /\ \A m \in Len(a) + 1 .. Len(a) + Len(b) : (a \o b)[m] = b[m - Len(a)]
  OBVIOUS
<1>8. s = a \o b
  BY <1>1, <1>3, <1>4, Zenon
<1>9. DOMAIN s = 1 .. Len(listeners) - 1
  <2>1. Len(a) + Len(b) = Len(listeners) - 1
    BY <1>2, <1>5, <1>6
  <2>2. QED
    BY <1>7, <1>8, <2>1, Zenon
<1>10. \A m \in 1 .. k - 1 : s[m] = listeners[m]
  BY <1>2, <1>5, <1>7, <1>8, Zenon
<1>11. ASSUME NEW m \in k .. Len(listeners) - 1 PROVE s[m] = listeners[m + 1]
  <2>0. PICK n \in Nat : n = Len(listeners) /\ k \in 1 .. n /\ m \in k .. n - 1
    BY <1>2, Zenon
  <2>1. m \in Len(a) + 1 .. Len(a) + Len(b) /\ m - Len(a) = m + 1 - k
    <3>1. m \in (k - 1) + 1 .. (k - 1) + (n - k) /\ m - (k - 1) = m + 1 - k
      BY <2>0
    <3>2. QED
      BY <1>5, <1>6, <2>0, <3>1, Zenon
  <2>2. m + 1 - k \in 1 .. Len(listeners) - k /\ m + 1 - k + k = m + 1
    BY <1>2
  <2>3. s[m] = b[m + 1 - k]
    BY <1>7, <1>8, <2>1, Zenon
  <2>4. QED
    BY <1>6, <2>2, <2>3, Zenon
<1>12. QED
  BY <1>1, <1>2, <1>9, <1>10, <1>11, Zenon DEF Without

\* Unregistering removes the slot's one entry and no other.
LEMMA DroppedTable ==
    ASSUME QueueType, IsInjective(listeners), NEW i, NEW s \in Dropped(i)
    PROVE  IsInjective(s) /\ Range(s) = Range(listeners) \ {i}
<1>0. PICK k \in 1 .. Len(listeners) : Without(s, k, i)
  BY DroppedEntries, Zenon
<1>1. /\ k \in 1 .. Len(listeners)
      /\ listeners[k] = i /\ DOMAIN s = 1 .. Len(listeners) - 1
      /\ \A m \in 1 .. k - 1 : s[m] = listeners[m]
      /\ \A m \in k .. Len(listeners) - 1 : s[m] = listeners[m + 1]
  BY <1>0, Zenon DEF Without
<1>2. Len(listeners) \in Nat /\ DOMAIN listeners = 1 .. Len(listeners)
  BY DEF QueueType
<1>3. \A m \in DOMAIN s : \E n \in DOMAIN listeners :
         n # k /\ s[m] = listeners[n] /\ n = IF m < k THEN m ELSE m + 1
  BY <1>1, <1>2
<1>4. \A n \in DOMAIN listeners : n # k => \E m \in DOMAIN s : s[m] = listeners[n]
  <2> SUFFICES ASSUME NEW n \in DOMAIN listeners, n # k
               PROVE  \E m \in DOMAIN s : s[m] = listeners[n]
    OBVIOUS
  <2>1. CASE n < k
    BY <1>1, <1>2, <2>1
  <2>2. CASE n > k
    <3>1. n - 1 \in k .. Len(listeners) - 1 /\ n - 1 + 1 = n
      BY <1>1, <1>2, <2>2
    <3>2. n - 1 \in DOMAIN s /\ s[n - 1] = listeners[n]
      BY <1>1, <3>1
    <3>3. QED
      BY <3>2, Zenon
  <2>3. QED
    BY <1>1, <1>2, <2>1, <2>2
<1>5. IsInjective(s)
  <2> SUFFICES ASSUME NEW m \in DOMAIN s, NEW n \in DOMAIN s, s[m] = s[n]
               PROVE  m = n
    BY Zenon DEF IsInjective
  <2>1. PICK x \in DOMAIN listeners : s[m] = listeners[x] /\ x = IF m < k THEN m ELSE m + 1
    BY <1>3, Zenon
  <2>2. PICK y \in DOMAIN listeners : s[n] = listeners[y] /\ y = IF n < k THEN n ELSE n + 1
    BY <1>3, Zenon
  <2>3. x = y
    BY <2>1, <2>2, Zenon DEF IsInjective
  <2>4. QED
    BY <1>1, <1>2, <2>1, <2>2, <2>3
<1>6. Range(s) = Range(listeners) \ {i}
  <2>1. \A n \in DOMAIN listeners : n # k => listeners[n] # i
    BY <1>1, <1>2, Zenon DEF IsInjective
  <2>2. Range(s) \subseteq Range(listeners) \ {i}
    BY <1>3, <2>1 DEF Range
  <2>3. Range(listeners) \ {i} \subseteq Range(s)
    BY <1>1, <1>4 DEF Range
  <2>4. QED
    BY <2>2, <2>3, Zenon
<1>7. QED
  BY <1>5, <1>6, Zenon

\* A push leaves the occupants alone.
LEMMA PushOccupants ==
    ASSUME SlotType, NEW i \in Slots, slot' \in WsSend(i)
    PROVE  \A j \in Slots : /\ slot'[j].in_use = slot[j].in_use
                            /\ slot'[j].closed = slot[j].closed
                            /\ slot'[j].session = slot[j].session
<1>1. CASE slot' = slot
  BY <1>1, Zenon
<1>2. CASE slot' = [slot EXCEPT ![i].pending = status]
  <2>1. slot'[i] = [slot[i] EXCEPT !.pending = status]
        /\ \A j \in Slots : j # i => slot'[j] = slot[j]
    BY <1>2, Zenon DEF SlotType
  <2>2. slot[i] \in Record
    BY Zenon DEF SlotType
  <2>3. QED
    BY <2>1, <2>2 DEF Record
<1>3. QED
  BY <1>1, <1>2, Zenon DEF WsSend

\* handle_add_listener, and its refusal.
LEMMA AddKeeps ==
    ASSUME WInv, RegInv, AddListener \/ AddListenerRefused
    PROVE  RegInv'
<1>0. SlotType /\ OwnerInv /\ CallInv /\ QueueType
  BY Zenon DEF WInv, CoreInv
<1>1. PICK i \in Slots : call = <<"add", i>>
  BY <1>0 DEF AddListener, AddListenerRefused, CallInv
<1>2. i \notin Range(listeners) /\ slot[i].in_use /\ ~slot[i].closed
  BY <1>0, <1>1, Zenon DEF RegInv, CallInv
<1>3. call[2] = i /\ \A j \in Slots : call # <<"remove", j>> /\ (call = <<"add", j>> => j = i)
  BY <1>1, Zenon
<1>4. call' = <<>> /\ \A j \in Slots : call' # <<"remove", j>> /\ call' # <<"add", j>>
  <2>1. call' = <<>>
    BY Zenon DEF AddListener, AddListenerRefused
  <2>2. QED
    BY <2>1
<1>5. CASE AddListener
  <2>1. listeners' = Append(listeners, i) /\ slot' \in WsSend(i) /\ UNCHANGED conn
    BY <1>2, <1>3, <1>4, <1>5, Zenon DEF AddListener
  <2>2. IsInjective(listeners') /\ Range(listeners') = Range(listeners) \cup {i}
    BY <1>0, <1>2, <1>3, <1>4, <2>1, AppendTable, Zenon DEF RegInv, QueueType
  <2>3. \A j \in Slots : /\ slot'[j].in_use = slot[j].in_use
                         /\ slot'[j].closed = slot[j].closed
                         /\ slot'[j].session = slot[j].session
    BY <1>0, <2>1, PushOccupants, Zenon
  <2>4. \A c \in Clients : conn'[c] \in Live =>
            \E j \in Slots : slot'[j].in_use /\ slot'[j].session = c
    BY <2>1, <2>3 DEF RegInv
  <2>5. QED
    BY <1>2, <1>3, <1>4, <2>2, <2>3, <2>4, SMTT(30) DEF RegInv
<1>6. CASE AddListenerRefused
  <2>1. /\ slot' = [slot EXCEPT ![i] = [slot[i] EXCEPT !.closing = TRUE, !.closed = TRUE]]
        /\ conn' = [conn EXCEPT ![slot[i].session] = "closed"] /\ UNCHANGED listeners
    BY <1>0, <1>2, <1>3, <1>4, <1>6, Zenon DEF AddListenerRefused, SlotType, queue
  <2>2. slot[i].session \in Clients /\ conn[slot[i].session] = "open"
    BY <1>0, <1>2, <1>3, <1>4, Zenon DEF OwnerInv
  <2>3. slot[i] \in Record
    BY <1>0, Zenon DEF SlotType
  <2>4. /\ slot'[i].in_use /\ slot'[i].closed /\ slot'[i].session = slot[i].session
        /\ \A j \in Slots : j # i => slot'[j] = slot[j]
    BY <1>0, <1>2, <1>3, <1>4, <2>1, <2>3, Zenon DEF SlotType, Record
  <2>5. \A c \in Clients : conn'[c] \in Live => conn[c] \in Live
    BY <1>0, <2>1, <2>2, Zenon DEF SlotType, Live
  <2>6. Range(listeners)' = Range(listeners) /\ IsInjective(listeners)'
    BY <2>1 DEF RegInv, Range, IsInjective
  <2>7. \A c \in Clients : conn'[c] \in Live =>
            \E j \in Slots : slot'[j].in_use /\ slot'[j].session = c
    BY <1>2, <1>3, <1>4, <2>4, <2>5 DEF RegInv
  <2>8. QED
    BY <1>2, <1>3, <1>4, <2>4, <2>6, <2>7, Zenon DEF RegInv
<1>7. QED
  BY <1>5, <1>6, Zenon

\* handle_remove_listener, and the rest of ws_cleanup_slot.
LEMMA RemoveKeeps ==
    ASSUME WInv, RegInv, RemoveListener
    PROVE  RegInv'
<1>0. SlotType /\ CallInv /\ QueueType
  BY Zenon DEF WInv, CoreInv
<1>1. PICK i \in Slots : call = <<"remove", i>>
  BY <1>0 DEF RemoveListener, CallInv
<1>2. /\ call[2] = i /\ call' = <<>> /\ ~slot[i].in_use /\ UNCHANGED conn
      /\ \A j \in Slots : call # <<"add", j>> /\ (call = <<"remove", j>> => j = i)
      /\ \A j \in Slots : call' # <<"remove", j>> /\ call' # <<"add", j>>
  BY <1>0, <1>1, Zenon DEF CallInv, RemoveListener
<1>3. IsInjective(listeners') /\ Range(listeners') = Range(listeners) \ {i}
  <2>1. CASE i \in Range(listeners)
    <3>1. listeners' \in Dropped(i)
      BY <1>2, <2>1, Zenon DEF RemoveListener
    <3>2. PICK s \in Dropped(i) : s = listeners'
      BY <3>1, Zenon
    <3>3. IsInjective(s) /\ Range(s) = Range(listeners) \ {i}
      BY <1>0, DroppedTable, Zenon DEF RegInv
    <3>4. QED
      BY <3>2, <3>3, Zenon
  <2>2. CASE i \notin Range(listeners)
    <3>1. listeners' = listeners
      BY <1>2, <2>2, Zenon DEF RemoveListener
    <3>2. QED
      BY <2>2, <3>1, Zenon DEF RegInv
  <2>3. QED
    BY <2>1, <2>2, Zenon
<1>4. ~slot'[i].in_use /\ \A j \in Slots : j # i => slot'[j] = slot[j]
  <2>1. slot[i] \in Record
    BY <1>0, Zenon DEF SlotType
  <2>2. slot' = [slot EXCEPT ![i] = [slot[i] EXCEPT !.session = None, !.pending = 0,
                                            !.inflight = 0, !.late = FALSE]]
    BY <1>0, <1>2, Zenon DEF RemoveListener, SlotType
  <2>3. QED
    BY <1>0, <1>2, <2>1, <2>2, Zenon DEF SlotType, Record
<1>5. \A c \in Clients : conn'[c] \in Live =>
          \E j \in Slots : slot'[j].in_use /\ slot'[j].session = c
  BY <1>2, <1>4 DEF RegInv
<1>6. QED
  BY <1>2, <1>3, <1>4, <1>5, Zenon DEF RegInv

\* ws_upgrade_handler takes a slot nobody is registered for.
LEMMA UpgradeKeeps ==
    ASSUME WInv, RegInv, NEW c \in Clients, Upgrade(c) \/ UpgradeFails(c)
    PROVE  RegInv'
<1>0. SlotType /\ call = <<>> /\ UNCHANGED listeners
  BY Zenon DEF WInv, CoreInv, Upgrade, UpgradeFails, HttpFree, queue
<1>1. \A j \in Slots : call # <<"remove", j>> /\ call # <<"add", j>>
  BY <1>0, Zenon
<1>a. PICK i \in Slots : \E t : /\ ~slot[i].in_use /\ t.in_use /\ t.session = c
                                /\ slot' = [slot EXCEPT ![i] = t]
                                /\ t.closed \/ call' = <<"add", i>>
                                /\ call' \in {call, <<"add", i>>}
  <2>1. Upgraded(c).in_use /\ Upgraded(c).session = c
    BY Zenon DEF Upgraded, FreeSlot
  <2>2. LET t == [Upgraded(c) EXCEPT !.closed = TRUE]
        IN  t.in_use /\ t.session = c /\ t.closed
    BY Zenon DEF Upgraded, FreeSlot
  <2>3. CASE Upgrade(c)
    BY <2>1, <2>3, Zenon DEF Upgrade, LowestFree
  <2>4. CASE UpgradeFails(c)
    BY <2>2, <2>4, Zenon DEF UpgradeFails, LowestFree
  <2>5. QED
    BY <2>3, <2>4, Zenon
<1>2. PICK t : /\ ~slot[i].in_use /\ t.in_use /\ t.session = c
               /\ slot' = [slot EXCEPT ![i] = t]
               /\ t.closed \/ call' = <<"add", i>>
               /\ call' \in {call, <<"add", i>>}
  BY <1>a, Zenon
<1>3. slot'[i] = t /\ \A j \in Slots : j # i => slot'[j] = slot[j]
  BY <1>0, <1>2, Zenon DEF SlotType
<1>4. \A d \in Clients : d # c => conn'[d] = conn[d]
  BY <1>0, Zenon DEF SlotType, Upgrade, UpgradeFails
<1>5. Range(listeners)' = Range(listeners) /\ IsInjective(listeners)'
  BY <1>0 DEF RegInv, Range, IsInjective
<1>6. i \notin Range(listeners)
  BY <1>1, <1>2, Zenon DEF RegInv
<1>7. \A j \in Slots : call' = <<"add", j>> => j = i
  BY <1>1, <1>2
<1>8. \A d \in Clients : conn'[d] \in Live =>
          \E j \in Slots : slot'[j].in_use /\ slot'[j].session = d
  BY <1>2, <1>3, <1>4 DEF RegInv
<1>9. \A j \in Slots : j \in Range(listeners) => slot'[j].in_use
  BY <1>1, <1>3, <1>6, Zenon DEF RegInv
<1>10. \A j \in Slots : slot'[j].in_use /\ ~slot'[j].closed =>
          j \in Range(listeners) \/ call' = <<"add", j>>
  BY <1>1, <1>2, <1>3 DEF RegInv
<1>11. QED
  BY <1>5, <1>6, <1>7, <1>8, <1>9, <1>10, Zenon DEF RegInv

\* ws_cleanup_slot gives the slot back and asks for its entry to be removed.
LEMMA CleanupKeeps ==
    ASSUME WInv, RegInv, NEW i \in Slots, Cleanup(i)
    PROVE  RegInv'
<1>0. SlotType /\ OwnerInv /\ call = <<>> /\ call' = <<"remove", i>>
      /\ slot[i].in_use /\ UNCHANGED listeners
  BY Zenon DEF WInv, CoreInv, Cleanup, HttpFree, queue
<1>1. \A j \in Slots : call # <<"remove", j>> /\ call # <<"add", j>> /\ call' # <<"add", j>>
  BY <1>0, Zenon
<1>2. PICK c \in Clients : c = slot[i].session
  BY <1>0, Zenon DEF OwnerInv
<1>3. ~slot'[i].in_use /\ \A j \in Slots : j # i => slot'[j] = slot[j]
  <2>1. slot[i] \in Record
    BY <1>0, Zenon DEF SlotType
  <2>2. slot' = [slot EXCEPT ![i] = [slot[i] EXCEPT !.in_use = FALSE, !.pending = 0]]
    BY <1>0, Zenon DEF Cleanup, SlotType
  <2>3. QED
    BY <1>0, <2>1, <2>2, Zenon DEF SlotType, Record
<1>4. conn'[c] = "done" /\ \A d \in Clients : d # c => conn'[d] = conn[d]
  BY <1>0, <1>2, Zenon DEF SlotType, Cleanup
<1>5. Range(listeners)' = Range(listeners) /\ IsInjective(listeners)'
  BY <1>0 DEF RegInv, Range, IsInjective
<1>6. \A d \in Clients : conn'[d] \in Live =>
          \E j \in Slots : slot'[j].in_use /\ slot'[j].session = d
  <2> SUFFICES ASSUME NEW d \in Clients, conn'[d] \in Live
               PROVE  \E j \in Slots : slot'[j].in_use /\ slot'[j].session = d
    OBVIOUS
  <2>1. d # c /\ conn[d] \in Live
    BY <1>4, Zenon DEF Live
  <2>2. PICK j \in Slots : slot[j].in_use /\ slot[j].session = d
    BY <2>1, Zenon DEF RegInv
  <2>3. QED
    BY <1>2, <1>3, <2>1, <2>2, Zenon
<1>7. \A j \in Slots : j \in Range(listeners) => slot'[j].in_use \/ call' = <<"remove", j>>
  BY <1>0, <1>1, <1>3, Zenon DEF RegInv
<1>8. \A j \in Slots : slot'[j].in_use /\ ~slot'[j].closed => j \in Range(listeners)
  BY <1>1, <1>3, Zenon DEF RegInv
<1>9. QED
  BY <1>1, <1>5, <1>6, <1>7, <1>8, Zenon DEF RegInv

\* Every step keeps the table and the slots in agreement.
LEMMA RegStep == ASSUME WInv, RegInv, [Next]_vars PROVE RegInv'
<1>0. SlotType /\ QueueType
  BY Zenon DEF WInv, CoreInv
<1>1. CASE StatusChange \/ PathChange \/ RequestShutdown \/ LeaveLoop \/ Stop
           \/ UNCHANGED vars \/ \E c \in Clients : PeerCloses(c)
  <2>1. UNCHANGED <<slot, conn, listeners, call>>
    BY <1>1, Zenon DEF StatusChange, PathChange, RequestShutdown, LeaveLoop, Stop, vars,
                       PeerCloses, queue
  <2>2. QED
    BY <2>1, CarriedKeeps, Zenon DEF Carried
<1>2. CASE NotifyNext
  <2>1. PICK i \in Slots : slot' \in WsSend(i)
    BY <1>0, <1>2 DEF NotifyNext, QueueType
  <2>2. UNCHANGED <<conn, listeners, call>>
    BY <1>2, Zenon DEF NotifyNext
  <2>3. Carried
    BY <1>0, <2>1, <2>2, PushOccupants, Zenon DEF Carried
  <2>4. QED
    BY <2>3, CarriedKeeps, Zenon
<1>3. CASE AddListener \/ AddListenerRefused
  BY <1>3, AddKeeps, Zenon
<1>4. CASE RemoveListener
  BY <1>4, RemoveKeeps, Zenon
<1>5. CASE \E c \in Clients : Upgrade(c) \/ UpgradeFails(c)
  BY <1>5, UpgradeKeeps, Zenon
<1>6. CASE \E c \in Clients : UpgradeRefused(c)
  <2>1. PICK c \in Clients : UpgradeRefused(c)
    BY <1>6, Zenon
  <2>2. conn' = [conn EXCEPT ![c] = "done"] /\ UNCHANGED <<slot, listeners, call>>
    BY <2>1, Zenon DEF UpgradeRefused, queue
  <2>3. \A d \in Clients : conn'[d] \in Live => conn[d] \in Live
    BY <1>0, <2>2, Zenon DEF SlotType, Live
  <2>4. Carried
    BY <2>2, <2>3, Zenon DEF Carried
  <2>5. QED
    BY <2>4, CarriedKeeps, Zenon
<1>7. CASE \E i \in Slots : DeadlinePasses(i) \/ Pump(i) \/ Flush(i) \/ SocketFails(i)
  BY <1>7, PassCarried, CarriedKeeps, Zenon
<1>8. CASE \E i \in Slots : Cleanup(i)
  BY <1>8, CleanupKeeps, Zenon
<1>9. QED
  BY <1>1, <1>2, <1>3, <1>4, <1>5, <1>6, <1>7, <1>8, Zenon DEF Next, QueueThread

\* Nobody is registered at the start.
LEMMA RegStart == Init => RegInv
<1> SUFFICES ASSUME Init PROVE RegInv
  OBVIOUS
<1>1. listeners = <<>> /\ Range(listeners) = {} /\ IsInjective(listeners)
  BY DEF Init, Range, IsInjective
<1>2. \A i \in Slots : ~slot[i].in_use
  BY Zenon DEF Init, FreeSlot
<1>3. \A c \in Clients : conn[c] \notin Live
  BY Zenon DEF Init, Live
<1>4. QED
  BY <1>1, <1>2, <1>3, Zenon DEF RegInv, Init

\* The slot of a connection is one slot, and a connection that is over, or was
\* never made, has none.
LEMMA OneSlot == ASSUME WInv, RegInv PROVE OneSlotPerClient
<1> SUFFICES ASSUME NEW c \in Clients
             PROVE  Cardinality({i \in Slots : slot[i].in_use /\ slot[i].session = c})
                      = IF conn[c] \in {"open", "closed"} THEN 1 ELSE 0
  BY Zenon DEF OneSlotPerClient
<1>0. OwnerInv
  BY Zenon DEF WInv, CoreInv
<1>1. PICK S : S = {i \in Slots : slot[i].in_use /\ slot[i].session = c}
  BY Zenon
<1>2. CASE conn[c] \in {"open", "closed"}
  <2>1. PICK i \in Slots : slot[i].in_use /\ slot[i].session = c
    BY <1>2, Zenon DEF RegInv, Live
  <2>2. S = {i}
    BY <1>0, <1>1, <2>1, Zenon DEF OwnerInv
  <2>3. Cardinality(S) = 1
    BY <2>2, FS_Singleton, Zenon
  <2>4. QED
    BY <1>1, <1>2, <2>3, Zenon
<1>3. CASE conn[c] \notin {"open", "closed"}
  <2>1. S = {}
    BY <1>0, <1>1, <1>3, Zenon DEF OwnerInv
  <2>2. Cardinality(S) = 0
    BY <2>1, FS_EmptySet, Zenon
  <2>3. QED
    BY <1>1, <1>3, <2>2, Zenon
<1>4. QED
  BY <1>2, <1>3, Zenon

\* Who is served and who is told agree, for any number of clients, slots and
\* listeners: the table has no entry twice and none of a slot given back, every
\* open connection is registered or about to be, and every connection has one
\* slot.
THEOREM SlotsStayConsistent == Spec => []SlotsConsistent
<1>1. WInv /\ RegInv => SlotsConsistent
  <2> SUFFICES ASSUME WInv, RegInv PROVE SlotsConsistent
    OBVIOUS
  <2>1. Range(listeners) \subseteq Slots
    BY DEF WInv, QueueType, Range
  <2>2. ListenersMatchSlots
    BY <2>1, Zenon DEF RegInv, ListenersMatchSlots
  <2>3. QED
    BY <2>2, OneSlot, Zenon DEF SlotsConsistent
<1>2. WInv /\ RegInv /\ [Next]_vars => RegInv'
  BY RegStep, Zenon
<1>3. QED
  BY <1>1, <1>2, RegStart, SlotsInvariant, PTL DEF Spec

\* Only clients leave.
Leavers == leaving \subseteq Clients

\* The records, the table, the views and the blocked call keep their types.
THEOREM SlotsTyped == Spec => []WTypeOK
<1>1. Init => Leavers
  BY Zenon DEF Init, Leavers
<1>2. Leavers /\ [Next]_vars => Leavers'
  <2> SUFFICES ASSUME Leavers, [Next]_vars
               PROVE  leaving' = leaving \/ \E c \in Clients : leaving' = leaving \cup {c}
    BY Zenon DEF Leavers
  <2>1. CASE QueueThread \/ RequestShutdown \/ LeaveLoop \/ Stop \/ UNCHANGED vars
    BY <2>1, Zenon DEF QueueThread, StatusChange, PathChange, NotifyNext, AddListener,
                       AddListenerRefused, RemoveListener, RequestShutdown, LeaveLoop, Stop, vars
  <2>2. CASE \E c \in Clients : Upgrade(c) \/ UpgradeFails(c) \/ UpgradeRefused(c) \/ PeerCloses(c)
    BY <2>2, Zenon DEF Upgrade, UpgradeFails, UpgradeRefused, PeerCloses
  <2>3. CASE \E i \in Slots : DeadlinePasses(i) \/ Pump(i) \/ Flush(i) \/ Cleanup(i)
             \/ SocketFails(i)
    BY <2>3, Zenon DEF DeadlinePasses, Pump, PumpFlushes, PumpBlocks, Flush, FlushPass,
                       ForceClose, Cleanup, SocketFails
  <2>4. QED
    BY <2>1, <2>2, <2>3, Zenon DEF Next
<1>3. WInv /\ Leavers => WTypeOK
  <2> SUFFICES ASSUME WInv, Leavers PROVE WTypeOK
    OBVIOUS
  <2>1. SlotType /\ QueueType /\ OwnerInv
    BY Zenon DEF WInv, CoreInv
  <2>2. call \in {<<>>} \cup ({"add", "remove"} \X Slots)
    BY Zenon DEF WInv, CallInv
  <2>3. \A i \in Slots : slot[i].in_use => slot[i].session \in Clients
    BY <2>1, Zenon DEF OwnerInv
  <2>4. QED
    BY <2>1, <2>2, <2>3, Zenon DEF SlotType, Record, QueueType, Leavers, WTypeOK
<1>4. QED
  BY <1>1, <1>2, <1>3, SlotsInvariant, PTL DEF Spec

------------------------------------------------------------------------------
(* The Go server, whose channel of one status per client takes the place of    *)
(* the slot, emptied by the listener and by the handler.  Its variables of     *)
(* the same names stand for themselves.                                        *)
CONSTANT Buffer
VARIABLES actions, snapshot, step, adding, chan, pc, hold

GS == INSTANCE GoSubscribe

Acts     == [kind : {"change"}] \cup [kind : {"add", "remove"}, client : Clients]
Parted   == {"removing", "gone"}
Handlers == {"away", "adding", "writing", "write", "leaving", "removing", "gone"}
Heard    == {c \in Clients : pc[c] \in {"adding", "writing", "write"}}

\* What is queued for a client: it waits for its one add until the reply, and
\* has left before its remove.
MailInv ==
    /\ actions \in Seq(Acts) /\ adding \subseteq Clients
    /\ \A c \in adding : pc[c] = "adding"
    /\ \A k \in DOMAIN actions : actions[k].kind = "add" =>
          /\ actions[k].client \in Clients /\ actions[k].client \notin adding
          /\ pc[actions[k].client] = "adding"
    /\ \A k \in DOMAIN actions : actions[k].kind = "remove" =>
          actions[k].client \in Clients /\ pc[actions[k].client] \in Parted
    /\ \A j, k \in DOMAIN actions :
          actions[j].kind = "add" /\ actions[k].kind = "add" /\ actions[j].client = actions[k].client => j = k

\* What waits for a client is no newer than the status and no older than what
\* the client has, and what the listeners are called with is the status.
Fresh(c) ==
    /\ seen[c] <= status /\ chan[c] <= status /\ (chan[c] # 0 => seen[c] <= chan[c])
    /\ pc[c] = "write" => /\ seen[c] <= hold[c] /\ hold[c] <= status
                          /\ chan[c] # 0 => hold[c] <= chan[c]
    /\ pc[c] = "away" => seen[c] = 0

ViewInv ==
    /\ status \in Nat /\ pc \in [Clients -> Handlers]
    /\ chan \in [Clients -> Nat] /\ hold \in [Clients -> Nat] /\ seen \in [Clients -> Nat]
    /\ todo # <<>> => snapshot = status
    /\ step # "try" => todo # <<>>
    /\ \A c \in Clients : Fresh(c)

\* Where the elements of the queue are after an append and after a pop.
LEMMA Queued ==
    ASSUME NEW S, NEW sq \in Seq(S), NEW e \in S
    PROVE  \E n \in Nat : /\ DOMAIN sq = 1 .. n /\ DOMAIN Append(sq, e) = 1 .. n + 1
                          /\ Append(sq, e) \in Seq(S) /\ Append(sq, e)[n + 1] = e
                          /\ \A k \in 1 .. n : Append(sq, e)[k] = sq[k]
<1>1. Len(sq) \in Nat
  OBVIOUS
<1>2. QED
  BY <1>1

LEMMA Unqueued ==
    ASSUME NEW S, NEW sq \in Seq(S), sq # <<>>
    PROVE  /\ Tail(sq) \in Seq(S) /\ Head(sq) = sq[1] /\ 1 \in DOMAIN sq
           /\ \A k \in DOMAIN Tail(sq) : k \in Nat /\ k + 1 \in DOMAIN sq /\ k + 1 # 1 /\ Tail(sq)[k] = sq[k + 1]
OBVIOUS

\* A message to the controller.
LEMMA Letter ==
    ASSUME NEW kind \in {"add", "remove"}, NEW c \in Clients
    PROVE  \E a \in Acts : a = [kind |-> kind, client |-> c] /\ a.kind = kind /\ a.client = c
<1>1. [kind |-> kind, client |-> c] \in Acts
  BY Zenon DEF Acts
<1>2. [kind |-> kind, client |-> c].kind = kind /\ [kind |-> kind, client |-> c].client = c
  OBVIOUS
<1>3. QED
  BY <1>1, <1>2, Zenon

\* A change, an add of a client that was away or the remove of one that left.
LEMMA MailGrows ==
    ASSUME MailInv, NEW a \in Acts, actions' = Append(actions, a), adding' = adding,
           \A c \in Clients : pc[c] \in {"adding", "removing", "gone"} => pc'[c] = pc[c],
           a.kind = "add" => a.client \in Clients /\ pc[a.client] = "away" /\ pc'[a.client] = "adding",
           a.kind = "remove" => a.client \in Clients /\ pc'[a.client] = "removing"
    PROVE  MailInv'
<1>1. PICK n \in Nat : /\ DOMAIN actions = 1 .. n /\ DOMAIN actions' = 1 .. n + 1
                       /\ actions' \in Seq(Acts) /\ actions'[n + 1] = a
                       /\ \A k \in 1 .. n : actions'[k] = actions[k]
  <2>1. actions \in Seq(Acts)
    BY Zenon DEF MailInv
  <2>2. QED
    BY <2>1, Queued
<1>2. \A k \in DOMAIN actions' : (k = n + 1 /\ actions'[k] = a) \/ (k \in DOMAIN actions /\ actions'[k] = actions[k])
  BY <1>1
<1>3. "away" # "adding" /\ "adding" \in {"adding", "removing", "gone"} /\ "removing" \in Parted
      /\ \A x \in Parted : x \in {"adding", "removing", "gone"}
  BY DEF Parted
<1>4. \A c \in adding' : pc'[c] = "adding"
  BY <1>3, Zenon DEF MailInv
<1>5. ASSUME NEW k \in DOMAIN actions', actions'[k].kind = "add"
      PROVE  /\ actions'[k].client \in Clients /\ actions'[k].client \notin adding'
             /\ pc'[actions'[k].client] = "adding"
  <2>1. CASE actions'[k] = a
    BY <1>3, <1>5, <2>1, Zenon DEF MailInv
  <2>2. CASE k \in DOMAIN actions /\ actions'[k] = actions[k]
    BY <1>3, <1>5, <2>2, Zenon DEF MailInv
  <2>3. QED
    BY <1>2, <2>1, <2>2, Zenon
<1>6. ASSUME NEW k \in DOMAIN actions', actions'[k].kind = "remove"
      PROVE  actions'[k].client \in Clients /\ pc'[actions'[k].client] \in Parted
  <2>1. CASE actions'[k] = a
    BY <1>3, <1>6, <2>1, Zenon
  <2>2. CASE k \in DOMAIN actions /\ actions'[k] = actions[k]
    BY <1>3, <1>6, <2>2, Zenon DEF MailInv
  <2>3. QED
    BY <1>2, <2>1, <2>2, Zenon
<1>7. \A k \in DOMAIN actions : actions[k].kind = "add" /\ a.kind = "add" => actions[k].client # a.client
  BY <1>3, Zenon DEF MailInv
<1>8. ASSUME NEW j \in DOMAIN actions', NEW k \in DOMAIN actions',
             actions'[j].kind = "add", actions'[k].kind = "add", actions'[j].client = actions'[k].client
      PROVE  j = k
  <2>1. CASE j = n + 1 /\ actions'[j] = a
    BY <1>2, <1>7, <1>8, <2>1, Zenon
  <2>2. CASE k = n + 1 /\ actions'[k] = a
    BY <1>2, <1>7, <1>8, <2>2, Zenon
  <2>3. CASE j \in DOMAIN actions /\ actions'[j] = actions[j] /\ k \in DOMAIN actions /\ actions'[k] = actions[k]
    BY <1>8, <2>3, Zenon DEF MailInv
  <2>4. QED
    BY <1>2, <2>1, <2>2, <2>3, Zenon
<1>9. QED
  BY <1>1, <1>4, <1>5, <1>6, <1>8, Zenon DEF MailInv

\* The controller takes the next message; its add is the one under way.
LEMMA MailShrinks ==
    ASSUME MailInv, actions # <<>>, actions' = Tail(actions), adding' \subseteq Clients,
           \A c \in adding' : pc'[c] = "adding" /\ Head(actions).kind = "add" /\ c = Head(actions).client,
           \A c \in Clients : pc[c] = "adding" => pc'[c] = "adding",
           \A c \in Clients : pc[c] \in Parted => pc'[c] \in Parted
    PROVE  MailInv'
<1>1. /\ actions' \in Seq(Acts) /\ Head(actions) = actions[1] /\ 1 \in DOMAIN actions
      /\ \A k \in DOMAIN actions' :
            k \in Nat /\ k + 1 \in DOMAIN actions /\ k + 1 # 1 /\ actions'[k] = actions[k + 1]
  <2>1. actions \in Seq(Acts)
    BY Zenon DEF MailInv
  <2>2. QED
    BY <2>1, Unqueued, ZenonT(40)
<1>2. ASSUME NEW k \in DOMAIN actions', actions'[k].kind = "add"
      PROVE  /\ actions'[k].client \in Clients /\ actions'[k].client \notin adding'
             /\ pc'[actions'[k].client] = "adding"
  <2>1. PICK i \in DOMAIN actions : i # 1 /\ actions'[k] = actions[i]
    BY <1>1, Zenon
  <2>2. actions[i].client \in Clients /\ pc'[actions[i].client] = "adding"
    BY <1>2, <2>1, Zenon DEF MailInv
  <2>3. Head(actions).kind = "add" => actions[i].client # Head(actions).client
    BY <1>1, <1>2, <2>1, Zenon DEF MailInv
  <2>4. QED
    BY <2>1, <2>2, <2>3, Zenon
<1>3. ASSUME NEW k \in DOMAIN actions', actions'[k].kind = "remove"
      PROVE  actions'[k].client \in Clients /\ pc'[actions'[k].client] \in Parted
  <2>1. PICK i \in DOMAIN actions : actions'[k] = actions[i]
    BY <1>1, Zenon
  <2>2. QED
    BY <1>3, <2>1, Zenon DEF MailInv
<1>4. ASSUME NEW j \in DOMAIN actions', NEW k \in DOMAIN actions',
             actions'[j].kind = "add", actions'[k].kind = "add", actions'[j].client = actions'[k].client
      PROVE  j = k
  <2>1. /\ j \in Nat /\ k \in Nat /\ j + 1 \in DOMAIN actions /\ k + 1 \in DOMAIN actions
        /\ actions'[j] = actions[j + 1] /\ actions'[k] = actions[k + 1]
    BY <1>1, Zenon
  <2>2. j + 1 = k + 1
    BY <1>4, <2>1, Zenon DEF MailInv
  <2>3. QED
    BY <2>1, <2>2
<1>5. QED
  BY <1>1, <1>2, <1>3, <1>4, Zenon DEF MailInv

\* Everybody else leaves the queue as it is.
LEMMA MailKept ==
    ASSUME MailInv, actions' = actions, adding' = adding \/ adding' = {},
           \A c \in Clients : pc[c] = "adding" /\ pc'[c] # pc[c] => c \in adding /\ adding' = {},
           \A c \in Clients : pc[c] \in Parted => pc'[c] = pc[c]
    PROVE  MailInv'
<1>1. adding' \subseteq adding /\ \A c \in adding' : pc'[c] = "adding"
  BY Zenon DEF MailInv
<1>2. \A k \in DOMAIN actions' : actions'[k].kind = "add" =>
         /\ actions'[k].client \in Clients /\ actions'[k].client \notin adding'
         /\ pc'[actions'[k].client] = "adding"
  BY <1>1, Zenon DEF MailInv
<1>3. \A k \in DOMAIN actions' : actions'[k].kind = "remove" =>
         actions'[k].client \in Clients /\ pc'[actions'[k].client] \in Parted
  BY Zenon DEF MailInv
<1>4. QED
  BY <1>1, <1>2, <1>3, Zenon DEF MailInv

\* A step that sends no client anything, and lets at most one in or out.
LEMMA ViewsKept ==
    ASSUME ViewInv, pc' \in [Clients -> Handlers],
           status' = status, snapshot' = snapshot, todo' = todo, step' = step,
           chan' = chan, hold' = hold, seen' = seen,
           \A c \in Clients : pc'[c] # "write" \/ pc[c] = "write",
           \A c \in Clients : pc'[c] # "away" \/ pc[c] = "away"
    PROVE  ViewInv'
<1>1. \A c \in Clients : Fresh(c) => Fresh(c)'
  BY Zenon DEF Fresh
<1>2. QED
  BY <1>1, Zenon DEF ViewInv

\* Nobody's view changes.
LEMMA NobodySees ==
    ASSUME status' = status, seen' = seen, Heard' = Heard
    PROVE  UNCHANGED GS!LV!lvars
BY DEF GS!LV!lvars, Heard

\* The status changes, and no client is being called.
LEMMA ChangeStep ==
    ASSUME MailInv, ViewInv, GS!TakeChange
    PROVE  MailInv' /\ ViewInv' /\ [GS!LV!LNext]_(GS!LV!lvars)
<1>1. /\ todo = <<>> /\ adding = {} /\ actions # <<>> /\ actions' = Tail(actions)
      /\ status' = status + 1 /\ snapshot' = status' /\ step' = step /\ adding' = adding
      /\ chan' = chan /\ pc' = pc /\ hold' = hold /\ seen' = seen
  BY DEF GS!TakeChange, GS!Takes
<1>2. MailInv'
  <2>1. adding' \subseteq Clients /\ \A c \in adding' : FALSE
    BY <1>1
  <2>2. QED
    BY <1>1, <2>1, MailShrinks, Zenon
<1>3. status \in Nat /\ status + 1 \in Nat /\ \A x \in Nat : x <= status => x <= status + 1
  BY DEF ViewInv
<1>4. \A c \in Clients : Fresh(c)'
  BY <1>1, <1>3, Zenon DEF ViewInv, Fresh
<1>5. step = "try"
  BY <1>1, Zenon DEF ViewInv
<1>6. ViewInv'
  BY <1>1, <1>3, <1>4, <1>5, Zenon DEF ViewInv
<1>7. GS!LV!Change
  BY <1>1 DEF GS!LV!Change
<1>8. QED
  BY <1>2, <1>6, <1>7, Zenon DEF GS!LV!LNext

\* The controller adds a client or removes one.
LEMMA ListedStep ==
    ASSUME MailInv, ViewInv, GS!TakeAdd \/ GS!TakeRemove \/ GS!AddReply
    PROVE  MailInv' /\ ViewInv' /\ UNCHANGED GS!LV!lvars
<1>0. pc \in [Clients -> Handlers] /\ status \in Nat
  BY Zenon DEF ViewInv
<1>1. ASSUME GS!TakeAdd PROVE MailInv' /\ ViewInv' /\ UNCHANGED GS!LV!lvars
  <2>1. /\ todo = <<>> /\ actions # <<>> /\ actions' = Tail(actions) /\ Head(actions).kind = "add"
        /\ adding' = {Head(actions).client} /\ snapshot' = status /\ status' = status /\ step' = step
        /\ chan' = chan /\ pc' = pc /\ hold' = hold /\ seen' = seen
    BY <1>1 DEF GS!TakeAdd, GS!Takes
  <2>2. Head(actions).client \in Clients /\ pc[Head(actions).client] = "adding"
    <3>1. Head(actions) = actions[1] /\ 1 \in DOMAIN actions
      BY <2>1, Unqueued, Zenon DEF MailInv
    <3>2. QED
      BY <2>1, <3>1, Zenon DEF MailInv
  <2>3. MailInv'
    <3>1. /\ adding' \subseteq Clients
          /\ \A c \in adding' : pc'[c] = "adding" /\ Head(actions).kind = "add" /\ c = Head(actions).client
      BY <2>1, <2>2, Zenon
    <3>2. QED
      BY <2>1, <3>1, MailShrinks, Zenon
  <2>4. ViewInv'
    <3>1. step = "try"
      BY <2>1, Zenon DEF ViewInv
    <3>2. \A c \in Clients : Fresh(c)'
      BY <2>1, Zenon DEF ViewInv, Fresh
    <3>3. QED
      BY <2>1, <3>1, <3>2, Zenon DEF ViewInv
  <2>5. Heard' = Heard
    BY <2>1, Zenon DEF Heard
  <2>6. QED
    BY <2>1, <2>3, <2>4, <2>5, NobodySees, Zenon
<1>2. ASSUME GS!TakeRemove PROVE MailInv' /\ ViewInv' /\ UNCHANGED GS!LV!lvars
  <2>1. /\ todo = <<>> /\ adding = {} /\ actions # <<>> /\ actions' = Tail(actions) /\ Head(actions).kind = "remove"
        /\ pc' = [pc EXCEPT ![Head(actions).client] = "gone"]
        /\ status' = status /\ todo' = todo /\ snapshot' = snapshot /\ step' = step /\ adding' = adding
        /\ chan' = chan /\ hold' = hold /\ seen' = seen
    BY <1>2 DEF GS!TakeRemove, GS!Takes
  <2>2. PICK x \in Clients : x = Head(actions).client /\ pc[x] \in Parted
    <3>1. Head(actions) = actions[1] /\ 1 \in DOMAIN actions
      BY <2>1, Unqueued, Zenon DEF MailInv
    <3>2. QED
      BY <2>1, <3>1, Zenon DEF MailInv
  <2>3. /\ pc' \in [Clients -> Handlers] /\ pc'[x] = "gone"
        /\ \A c \in Clients : c # x => pc'[c] = pc[c]
    <3>1. "gone" \in Handlers /\ pc' = [pc EXCEPT ![x] = "gone"]
      BY <2>1, <2>2 DEF Handlers
    <3>2. QED
      BY <1>0, <3>1, Zenon
  <2>4. /\ "gone" \in Parted /\ "adding" \notin Parted /\ "gone" # "write" /\ "gone" # "away"
        /\ "gone" \notin {"adding", "writing", "write"} /\ pc[x] \notin {"adding", "writing", "write"}
    BY <2>2 DEF Parted
  <2>5. MailInv'
    <3>1. adding' \subseteq Clients /\ \A c \in adding' : FALSE
      BY <2>1
    <3>2. /\ \A c \in Clients : pc[c] = "adding" => pc'[c] = "adding"
          /\ \A c \in Clients : pc[c] \in Parted => pc'[c] \in Parted
      BY <2>2, <2>3, <2>4, Zenon
    <3>3. QED
      BY <2>1, <3>1, <3>2, MailShrinks, Zenon
  <2>6. ViewInv'
    <3>1. /\ \A c \in Clients : pc'[c] # "write" \/ pc[c] = "write"
          /\ \A c \in Clients : pc'[c] # "away" \/ pc[c] = "away"
      BY <2>3, <2>4, Zenon
    <3>2. QED
      BY <2>1, <2>3, <3>1, ViewsKept, Zenon
  <2>7. Heard' = Heard
    BY <2>3, <2>4, Zenon DEF Heard
  <2>8. QED
    BY <2>1, <2>5, <2>6, <2>7, NobodySees, Zenon
<1>3. ASSUME GS!AddReply PROVE MailInv' /\ ViewInv' /\ UNCHANGED GS!LV!lvars
  <2>1. /\ pc' = [c \in Clients |-> IF c \in adding THEN "writing" ELSE pc[c]] /\ adding' = {} /\ actions' = actions
        /\ status' = status /\ todo' = todo /\ snapshot' = snapshot /\ step' = step
        /\ chan' = chan /\ hold' = hold /\ seen' = seen
    BY <1>3 DEF GS!AddReply
  <2>2. /\ \A c \in Clients : c \in adding => pc[c] = "adding" /\ pc'[c] = "writing"
        /\ \A c \in Clients : c \notin adding => pc'[c] = pc[c]
    BY <2>1, Zenon DEF MailInv
  <2>3. pc' \in [Clients -> Handlers]
    <3>1. "writing" \in Handlers
      BY DEF Handlers
    <3>2. \A c \in Clients : pc[c] \in Handlers
      BY <1>0, Zenon
    <3>3. QED
      BY <2>1, <3>1, <3>2, Zenon
  <2>4. "writing" # "write" /\ "writing" # "away" /\ "adding" \notin Parted
        /\ "adding" \in {"adding", "writing", "write"} /\ "writing" \in {"adding", "writing", "write"}
    BY DEF Parted
  <2>5. MailInv'
    <3>1. /\ \A c \in Clients : pc[c] = "adding" /\ pc'[c] # pc[c] => c \in adding /\ adding' = {}
          /\ \A c \in Clients : pc[c] \in Parted => pc'[c] = pc[c]
      BY <2>1, <2>2, <2>4, Zenon
    <3>2. QED
      BY <2>1, <3>1, MailKept, Zenon
  <2>6. ViewInv'
    <3>1. /\ \A c \in Clients : pc'[c] # "write" \/ pc[c] = "write"
          /\ \A c \in Clients : pc'[c] # "away" \/ pc[c] = "away"
      BY <2>2, <2>4, Zenon
    <3>2. QED
      BY <2>1, <2>3, <3>1, ViewsKept, Zenon
  <2>7. Heard' = Heard
    <3>1. \A c \in Clients : pc'[c] \in {"adding", "writing", "write"} <=> pc[c] \in {"adding", "writing", "write"}
      BY <2>2, <2>4, Zenon
    <3>2. QED
      BY <3>1, Zenon DEF Heard
  <2>8. QED
    BY <2>1, <2>5, <2>6, <2>7, NobodySees, Zenon
<1>4. QED
  BY <1>1, <1>2, <1>3, Zenon

\* The listener sends the status, or makes room for it.
LEMMA ListenerStep ==
    ASSUME MailInv, ViewInv, GS!TrySend \/ GS!Drain \/ GS!Send
    PROVE  MailInv' /\ ViewInv' /\ UNCHANGED GS!LV!lvars
<1>1. /\ todo # <<>> /\ actions' = actions /\ adding' = adding /\ snapshot' = snapshot /\ status' = status
      /\ pc' = pc /\ hold' = hold /\ seen' = seen
  <2>1. todo # <<>>
    <3>1. "drain" # "try" /\ "send" # "try"
      OBVIOUS
    <3>2. QED
      BY <3>1, Zenon DEF ViewInv, GS!TrySend, GS!Drain, GS!Send
  <2>2. QED
    BY <2>1 DEF GS!TrySend, GS!Drain, GS!Send
<1>2. snapshot = status /\ status \in Nat
  BY <1>1, Zenon DEF ViewInv
<1>3. chan \in [Clients -> Nat] /\ 0 \in Nat
  BY DEF ViewInv
<1>4. PICK x : x = Head(todo)
  OBVIOUS
<1>5. \/ chan' = chan
      \/ chan' = [chan EXCEPT ![x] = 0]
      \/ chan' = [chan EXCEPT ![x] = status]
  <2>1. CASE GS!TrySend
    BY <1>2, <1>4, <2>1, Zenon DEF GS!TrySend
  <2>2. CASE GS!Drain
    BY <1>4, <2>2, Zenon DEF GS!Drain
  <2>3. CASE GS!Send
    <3>1. chan' = [chan EXCEPT ![x] = IF @ = 0 THEN snapshot ELSE @]
      BY <1>4, <2>3, Zenon DEF GS!Send
    <3>2. CASE chan[x] = 0
      BY <1>2, <3>1, <3>2, SMTT(30)
    <3>3. CASE chan[x] # 0
      BY <1>3, <3>1, <3>3, SMTT(30)
    <3>4. QED
      BY <3>2, <3>3, Zenon
  <2>4. QED
    BY <2>1, <2>2, <2>3, Zenon
<1>6. chan' \in [Clients -> Nat] /\ \A c \in Clients : chan'[c] \in {chan[c], 0, status}
  BY <1>2, <1>3, <1>5
<1>7. \A c \in Clients : Fresh(c)'
  <2>1. SUFFICES ASSUME NEW c \in Clients PROVE Fresh(c)'
    BY Zenon
  <2>2. Fresh(c) /\ seen[c] \in Nat /\ hold[c] \in Nat /\ chan[c] \in Nat
    BY Zenon DEF ViewInv
  <2>3. CASE chan'[c] = chan[c]
    BY <1>1, <2>2, <2>3, Zenon DEF Fresh
  <2>4. CASE chan'[c] = 0
    <3>1. 0 <= status
      BY <1>2
    <3>2. QED
      BY <1>1, <2>2, <2>4, <3>1, Zenon DEF Fresh
  <2>5. CASE chan'[c] = status
    <3>1. status <= status
      BY <1>2
    <3>2. QED
      BY <1>1, <2>2, <2>5, <3>1, Zenon DEF Fresh
  <2>6. QED
    BY <1>6, <2>3, <2>4, <2>5, Zenon
<1>8. step' # "try" => todo' # <<>>
  BY <1>1 DEF GS!TrySend, GS!Drain, GS!Send
<1>9. ViewInv'
  BY <1>1, <1>2, <1>6, <1>7, <1>8, Zenon DEF ViewInv
<1>10. MailInv'
  BY <1>1, MailKept, Zenon
<1>11. Heard' = Heard
  BY <1>1, Zenon DEF Heard
<1>12. QED
  BY <1>1, <1>9, <1>10, <1>11, NobodySees, Zenon

\* One handler moves on.
LEMMA HandlerMoves ==
    ASSUME ViewInv, NEW c \in Clients, NEW p \in Handlers, pc' = [pc EXCEPT ![c] = p]
    PROVE  /\ pc' \in [Clients -> Handlers] /\ pc'[c] = p
           /\ \A d \in Clients : d # c => pc'[d] = pc[d]
<1>1. pc \in [Clients -> Handlers]
  BY Zenon DEF ViewInv
<1>2. QED
  BY <1>1, Zenon

\* An event, the add of a client that connects, the remove of one that left.
LEMMA SubmitStep ==
    ASSUME MailInv, ViewInv, GS!Event \/ \E c \in Clients : GS!Accept(c) \/ GS!SubmitRemove(c)
    PROVE  MailInv' /\ ViewInv' /\ [GS!LV!LNext]_(GS!LV!lvars)
<1>1. ASSUME GS!Event PROVE MailInv' /\ ViewInv' /\ UNCHANGED GS!LV!lvars
  <2>1. /\ actions' = Append(actions, [kind |-> "change"]) /\ adding' = adding /\ pc' = pc
        /\ status' = status /\ todo' = todo /\ snapshot' = snapshot /\ step' = step
        /\ chan' = chan /\ hold' = hold /\ seen' = seen
    BY <1>1 DEF GS!Event, GS!Submits
  <2>2. PICK a \in Acts : a = [kind |-> "change"] /\ a.kind # "add" /\ a.kind # "remove"
    <3>1. [kind |-> "change"] \in Acts
      BY Zenon DEF Acts
    <3>2. [kind |-> "change"].kind # "add" /\ [kind |-> "change"].kind # "remove"
      OBVIOUS
    <3>3. QED
      BY <3>1, <3>2, Zenon
  <2>3. MailInv'
    BY <2>1, <2>2, MailGrows, Zenon
  <2>4. ViewInv'
    <3>1. pc' \in [Clients -> Handlers]
      BY <2>1, Zenon DEF ViewInv
    <3>2. QED
      BY <2>1, <3>1, ViewsKept, Zenon
  <2>5. Heard' = Heard
    BY <2>1, Zenon DEF Heard
  <2>6. QED
    BY <2>1, <2>3, <2>4, <2>5, NobodySees, Zenon
<1>2. ASSUME NEW c \in Clients, GS!Accept(c) PROVE MailInv' /\ ViewInv' /\ GS!LV!LNext
  <2>1. /\ pc[c] = "away" /\ actions' = Append(actions, [kind |-> "add", client |-> c]) /\ adding' = adding
        /\ pc' = [pc EXCEPT ![c] = "adding"]
        /\ status' = status /\ todo' = todo /\ snapshot' = snapshot /\ step' = step
        /\ chan' = chan /\ hold' = hold /\ seen' = seen
    BY <1>2 DEF GS!Accept, GS!Submits
  <2>2. /\ pc' \in [Clients -> Handlers] /\ pc'[c] = "adding"
        /\ \A d \in Clients : d # c => pc'[d] = pc[d]
    <3>1. PICK p \in Handlers : p = "adding"
      BY DEF Handlers
    <3>2. QED
      BY <2>1, <3>1, HandlerMoves, Zenon
  <2>3. PICK a \in Acts : a = [kind |-> "add", client |-> c] /\ a.kind = "add" /\ a.client = c
    BY Letter
  <2>4. "away" \notin {"adding", "removing", "gone"} /\ "add" # "remove" /\ "adding" # "write" /\ "adding" # "away"
        /\ "away" \notin {"adding", "writing", "write"} /\ "adding" \in {"adding", "writing", "write"}
    OBVIOUS
  <2>5. MailInv'
    <3>1. \A d \in Clients : pc[d] \in {"adding", "removing", "gone"} => pc'[d] = pc[d]
      BY <2>1, <2>2, <2>4, Zenon
    <3>2. QED
      BY <2>1, <2>2, <2>3, <2>4, <3>1, MailGrows, Zenon
  <2>6. ViewInv'
    <3>1. /\ \A d \in Clients : pc'[d] # "write" \/ pc[d] = "write"
          /\ \A d \in Clients : pc'[d] # "away" \/ pc[d] = "away"
      BY <2>2, <2>4, Zenon
    <3>2. QED
      BY <2>1, <2>2, <3>1, ViewsKept, Zenon
  <2>7. c \notin Heard /\ Heard' = Heard \cup {c}
    BY <2>1, <2>2, <2>4, Zenon DEF Heard
  <2>8. seen[c] = 0
    BY <2>1, Zenon DEF ViewInv, Fresh
  <2>9. GS!LV!Connect(c)
    BY <2>1, <2>7, <2>8, Zenon DEF GS!LV!Connect, Heard
  <2>10. QED
    BY <2>5, <2>6, <2>9, Zenon DEF GS!LV!LNext
<1>3. ASSUME NEW c \in Clients, GS!SubmitRemove(c) PROVE MailInv' /\ ViewInv' /\ UNCHANGED GS!LV!lvars
  <2>1. /\ pc[c] = "leaving" /\ actions' = Append(actions, [kind |-> "remove", client |-> c]) /\ adding' = adding
        /\ pc' = [pc EXCEPT ![c] = "removing"]
        /\ status' = status /\ todo' = todo /\ snapshot' = snapshot /\ step' = step
        /\ chan' = chan /\ hold' = hold /\ seen' = seen
    BY <1>3 DEF GS!SubmitRemove, GS!Submits
  <2>2. /\ pc' \in [Clients -> Handlers] /\ pc'[c] = "removing"
        /\ \A d \in Clients : d # c => pc'[d] = pc[d]
    <3>1. PICK p \in Handlers : p = "removing"
      BY DEF Handlers
    <3>2. QED
      BY <2>1, <3>1, HandlerMoves, Zenon
  <2>3. PICK a \in Acts : a = [kind |-> "remove", client |-> c] /\ a.kind = "remove" /\ a.client = c
    BY Letter
  <2>4. "leaving" \notin {"adding", "removing", "gone"} /\ "remove" # "add"
        /\ "removing" # "write" /\ "removing" # "away"
        /\ "leaving" \notin {"adding", "writing", "write"} /\ "removing" \notin {"adding", "writing", "write"}
    OBVIOUS
  <2>5. MailInv'
    <3>1. \A d \in Clients : pc[d] \in {"adding", "removing", "gone"} => pc'[d] = pc[d]
      BY <2>1, <2>2, <2>4, Zenon
    <3>2. QED
      BY <2>1, <2>2, <2>3, <2>4, <3>1, MailGrows, Zenon
  <2>6. ViewInv'
    <3>1. /\ \A d \in Clients : pc'[d] # "write" \/ pc[d] = "write"
          /\ \A d \in Clients : pc'[d] # "away" \/ pc[d] = "away"
      BY <2>2, <2>4, Zenon
    <3>2. QED
      BY <2>1, <2>2, <3>1, ViewsKept, Zenon
  <2>7. Heard' = Heard
    BY <2>1, <2>2, <2>4, Zenon DEF Heard
  <2>8. QED
    BY <2>1, <2>5, <2>6, <2>7, NobodySees, Zenon
<1>4. QED
  BY <1>1, <1>2, <1>3, Zenon

\* A handler's own step leaves the queue, and those that wait for it, alone.
LEMMA HandlerKeepsMail ==
    ASSUME MailInv, NEW c \in Clients, pc[c] \in {"writing", "write"},
           \A d \in Clients : d # c => pc'[d] = pc[d], actions' = actions, adding' = adding
    PROVE  MailInv'
<1>1. pc[c] # "adding" /\ pc[c] \notin Parted
  BY DEF Parted
<1>2. /\ \A d \in Clients : pc[d] = "adding" /\ pc'[d] # pc[d] => d \in adding /\ adding' = {}
      /\ \A d \in Clients : pc[d] \in Parted => pc'[d] = pc[d]
  BY <1>1, Zenon
<1>3. QED
  BY <1>2, MailKept, Zenon

\* The handler takes what waits; the client has not seen it yet.
LEMMA ReceiveStep ==
    ASSUME MailInv, ViewInv, NEW c \in Clients, GS!Receive(c)
    PROVE  MailInv' /\ ViewInv' /\ UNCHANGED GS!LV!lvars
<1>1. /\ pc[c] = "writing" /\ chan[c] # 0 /\ hold' = [hold EXCEPT ![c] = chan[c]]
      /\ chan' = [chan EXCEPT ![c] = 0] /\ pc' = [pc EXCEPT ![c] = "write"]
      /\ actions' = actions /\ adding' = adding /\ status' = status /\ todo' = todo
      /\ snapshot' = snapshot /\ step' = step /\ seen' = seen
  BY DEF GS!Receive, GS!control
<1>2. /\ pc' \in [Clients -> Handlers] /\ pc'[c] = "write"
      /\ \A d \in Clients : d # c => pc'[d] = pc[d]
  <2>1. PICK p \in Handlers : p = "write"
    BY DEF Handlers
  <2>2. QED
    BY <1>1, <2>1, HandlerMoves, Zenon
<1>3. MailInv'
  BY <1>1, <1>2, HandlerKeepsMail, Zenon
<1>4. /\ chan \in [Clients -> Nat] /\ hold \in [Clients -> Nat] /\ status \in Nat
  BY Zenon DEF ViewInv
<1>5. /\ chan' \in [Clients -> Nat] /\ hold' \in [Clients -> Nat] /\ chan'[c] = 0 /\ hold'[c] = chan[c]
      /\ \A d \in Clients : d # c => chan'[d] = chan[d] /\ hold'[d] = hold[d]
  BY <1>1, <1>4
<1>6. \A d \in Clients : Fresh(d)'
  <2>1. SUFFICES ASSUME NEW d \in Clients PROVE Fresh(d)'
    BY Zenon
  <2>2. Fresh(d)
    BY Zenon DEF ViewInv
  <2>3. CASE d # c
    BY <1>1, <1>2, <1>5, <2>2, <2>3, Zenon DEF Fresh
  <2>4. CASE d = c
    <3>1. 0 <= status /\ "write" # "away"
      BY <1>4
    <3>2. QED
      BY <1>1, <1>2, <1>5, <2>2, <2>4, <3>1, Zenon DEF Fresh
  <2>5. QED
    BY <2>3, <2>4, Zenon
<1>7. ViewInv'
  BY <1>1, <1>2, <1>5, <1>6, Zenon DEF ViewInv
<1>8. Heard' = Heard
  <2>1. "writing" \in {"adding", "writing", "write"} /\ "write" \in {"adding", "writing", "write"}
    OBVIOUS
  <2>2. QED
    BY <1>1, <1>2, <2>1, Zenon DEF Heard
<1>9. QED
  BY <1>1, <1>3, <1>7, <1>8, NobodySees, Zenon

\* The write moves the client's view forward, to a status there was.
LEMMA WrittenStep ==
    ASSUME MailInv, ViewInv, NEW c \in Clients, GS!Written(c)
    PROVE  MailInv' /\ ViewInv' /\ GS!LV!LNext
<1>1. /\ pc[c] = "write" /\ seen' = [seen EXCEPT ![c] = hold[c]] /\ pc' = [pc EXCEPT ![c] = "writing"]
      /\ actions' = actions /\ adding' = adding /\ status' = status /\ todo' = todo
      /\ snapshot' = snapshot /\ step' = step /\ chan' = chan /\ hold' = hold
  BY DEF GS!Written, GS!control
<1>2. /\ pc' \in [Clients -> Handlers] /\ pc'[c] = "writing"
      /\ \A d \in Clients : d # c => pc'[d] = pc[d]
  <2>1. PICK p \in Handlers : p = "writing"
    BY DEF Handlers
  <2>2. QED
    BY <1>1, <2>1, HandlerMoves, Zenon
<1>3. MailInv'
  BY <1>1, <1>2, HandlerKeepsMail, Zenon
<1>4. /\ seen \in [Clients -> Nat] /\ hold \in [Clients -> Nat] /\ status \in Nat
  BY Zenon DEF ViewInv
<1>5. /\ seen' \in [Clients -> Nat] /\ seen'[c] = hold[c]
      /\ \A d \in Clients : d # c => seen'[d] = seen[d]
  BY <1>1, <1>4, SMTT(30)
<1>6. \A d \in Clients : Fresh(d)'
  <2>1. SUFFICES ASSUME NEW d \in Clients PROVE Fresh(d)'
    BY Zenon
  <2>2. Fresh(d)
    BY Zenon DEF ViewInv
  <2>3. CASE d # c
    BY <1>1, <1>2, <1>5, <2>2, <2>3, Zenon DEF Fresh
  <2>4. CASE d = c
    <3>1. "writing" # "away" /\ "writing" # "write"
      OBVIOUS
    <3>2. QED
      BY <1>1, <1>2, <1>5, <2>2, <2>4, <3>1, Zenon DEF Fresh
  <2>5. QED
    BY <2>3, <2>4, Zenon
<1>7. ViewInv'
  BY <1>1, <1>2, <1>5, <1>6, Zenon DEF ViewInv
<1>8. c \in Heard /\ Heard' = Heard
  <2>1. "writing" \in {"adding", "writing", "write"} /\ "write" \in {"adding", "writing", "write"}
    OBVIOUS
  <2>2. QED
    BY <1>1, <1>2, <2>1, Zenon DEF Heard
<1>9. PICK v \in seen[c] .. status : v = hold[c]
  <2>1. seen[c] <= hold[c] /\ hold[c] <= status
    BY <1>1, Zenon DEF ViewInv, Fresh
  <2>2. QED
    BY <1>4, <2>1
<1>10. GS!LV!Forward(c)
  BY <1>1, <1>9, Zenon DEF GS!LV!Forward
<1>11. GS!LV!See(c)
  BY <1>1, <1>8, <1>10, SMTT(30) DEF GS!LV!See, Heard
<1>12. QED
  BY <1>3, <1>7, <1>11, Zenon DEF GS!LV!LNext

\* A handler that gives up keeps its client's view and is heard no more.
LEMMA LeaveStep ==
    ASSUME MailInv, ViewInv, NEW c \in Clients, GS!WriteFails(c) \/ GS!Done(c)
    PROVE  MailInv' /\ ViewInv' /\ GS!LV!LNext
<1>1. /\ pc[c] \in {"writing", "write"} /\ pc' = [pc EXCEPT ![c] = "leaving"]
      /\ actions' = actions /\ adding' = adding /\ status' = status /\ todo' = todo
      /\ snapshot' = snapshot /\ step' = step /\ chan' = chan /\ hold' = hold /\ seen' = seen
  BY DEF GS!WriteFails, GS!Done, GS!control
<1>2. /\ pc' \in [Clients -> Handlers] /\ pc'[c] = "leaving"
      /\ \A d \in Clients : d # c => pc'[d] = pc[d]
  <2>1. PICK p \in Handlers : p = "leaving"
    BY DEF Handlers
  <2>2. QED
    BY <1>1, <2>1, HandlerMoves, Zenon
<1>3. MailInv'
  BY <1>1, <1>2, HandlerKeepsMail, Zenon
<1>4. "leaving" # "write" /\ "leaving" # "away" /\ "leaving" \notin {"adding", "writing", "write"}
      /\ pc[c] \in {"adding", "writing", "write"}
  BY <1>1
<1>5. ViewInv'
  <2>1. /\ \A d \in Clients : pc'[d] # "write" \/ pc[d] = "write"
        /\ \A d \in Clients : pc'[d] # "away" \/ pc[d] = "away"
    BY <1>2, <1>4, Zenon
  <2>2. QED
    BY <1>1, <1>2, <2>1, ViewsKept, Zenon
<1>6. c \in Heard /\ Heard' = Heard \ {c}
  BY <1>2, <1>4, Zenon DEF Heard
<1>7. PICK v \in seen[c] .. status : v = seen[c]
  <2>1. status \in Nat /\ seen[c] \in Nat /\ seen[c] <= status
    BY Zenon DEF ViewInv, Fresh
  <2>2. QED
    BY <2>1
<1>8. seen' = [seen EXCEPT ![c] = v]
  <2>1. seen \in [Clients -> Nat]
    BY Zenon DEF ViewInv
  <2>2. QED
    BY <1>1, <1>7, <2>1, SMTT(30)
<1>9. GS!LV!Forward(c)
  BY <1>7, <1>8, Zenon DEF GS!LV!Forward
<1>10. GS!LV!Leave(c)
  BY <1>1, <1>6, <1>9, Zenon DEF GS!LV!Leave, Heard
<1>11. QED
  BY <1>3, <1>5, <1>10, Zenon DEF GS!LV!LNext

\* Initially nobody is connected.
LEMMA ChannelStart == GS!Init => MailInv /\ ViewInv /\ GS!LV!LInit
<1>1. SUFFICES ASSUME GS!Init PROVE MailInv /\ ViewInv /\ GS!LV!LInit
  OBVIOUS
<1>2. /\ status = 1 /\ actions = <<>> /\ todo = <<>> /\ step = "try" /\ adding = {}
      /\ chan = [c \in Clients |-> 0] /\ pc = [c \in Clients |-> "away"]
      /\ hold = [c \in Clients |-> 0] /\ seen = [c \in Clients |-> 0]
  BY <1>1 DEF GS!Init
<1>3. MailInv
  <2>1. actions \in Seq(Acts) /\ DOMAIN actions = {} /\ adding \subseteq Clients /\ \A c \in adding : FALSE
    BY <1>2
  <2>2. QED
    BY <2>1, Zenon DEF MailInv
<1>4. ViewInv
  <2>1. status \in Nat /\ "away" \in Handlers /\ 0 <= status /\ 0 \in Nat /\ "away" # "write"
    BY <1>2 DEF Handlers
  <2>2. \A c \in Clients : Fresh(c)
    BY <1>2, <2>1, Zenon DEF Fresh
  <2>3. QED
    BY <1>2, <2>1, <2>2, Zenon DEF ViewInv
<1>5. Heard = {}
  BY <1>2 DEF Heard
<1>6. GS!LV!LInit
  BY <1>2, <1>5 DEF GS!LV!LInit, Heard
<1>7. QED
  BY <1>3, <1>4, <1>6, SMTT(30)

ChannelInv == MailInv /\ ViewInv

\* Every step of the Go server keeps the invariant and is a step of LatestValue.
LEMMA ChannelStep ==
    ASSUME ChannelInv, [GS!Next]_(GS!vars)
    PROVE  ChannelInv' /\ [GS!LV!LNext]_(GS!LV!lvars)
<1>0. MailInv /\ ViewInv
  BY DEF ChannelInv
<1>1. CASE UNCHANGED GS!vars
  <2>1. /\ pc' = pc /\ actions' = actions /\ adding' = adding /\ status' = status /\ todo' = todo
        /\ snapshot' = snapshot /\ step' = step /\ chan' = chan /\ hold' = hold /\ seen' = seen
    BY <1>1 DEF GS!vars, GS!control
  <2>2. MailInv'
    BY <1>0, <2>1, MailKept, Zenon
  <2>3. ViewInv'
    <3>1. pc' \in [Clients -> Handlers]
      BY <1>0, <2>1, Zenon DEF ViewInv
    <3>2. QED
      BY <1>0, <2>1, <3>1, ViewsKept, Zenon
  <2>4. Heard' = Heard
    BY <2>1, Zenon DEF Heard
  <2>5. QED
    BY <2>1, <2>2, <2>3, <2>4, NobodySees, Zenon DEF ChannelInv
<1>2. CASE GS!Event \/ \E c \in Clients : GS!Accept(c) \/ GS!SubmitRemove(c)
  BY <1>0, <1>2, SubmitStep, Zenon DEF ChannelInv
<1>3. CASE GS!Run
  BY <1>0, <1>3, ChangeStep, ListedStep, ListenerStep, Zenon DEF ChannelInv, GS!Run
<1>4. CASE \E c \in Clients : GS!Writer(c) \/ GS!Done(c)
  BY <1>0, <1>4, ReceiveStep, WrittenStep, LeaveStep, Zenon DEF ChannelInv, GS!Writer
<1>5. QED
  BY <1>1, <1>2, <1>3, <1>4, Zenon DEF GS!Next

\* The Go server's channels implement LatestValue: however listener and handler
\* interleave on a channel, what a client is sent only moves forward, and only
\* to statuses the controller had.
THEOREM ChannelsImplementLatestValue == GS!Spec => GS!ImplementsLatestValue
<1>1. GS!Init => ChannelInv /\ GS!LV!LInit
  BY ChannelStart, Zenon DEF ChannelInv
<1>2. ChannelInv /\ [GS!Next]_(GS!vars) => ChannelInv'
  BY ChannelStep, Zenon
<1>3. ChannelInv /\ [GS!Next]_(GS!vars) => [GS!LV!LNext]_(GS!LV!lvars)
  BY ChannelStep, Zenon
<1>4. QED
  BY <1>1, <1>2, <1>3, PTL DEF GS!Spec, GS!ImplementsLatestValue, GS!LV!LSpec
=============================================================================
