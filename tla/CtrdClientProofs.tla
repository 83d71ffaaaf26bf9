-------------------------- MODULE CtrdClientProofs --------------------------
(***************************************************************************)
(* Proofs about the containerd client under the stage ops (CtrdClient), for *)
(* any finite set of stages and any number of bad answers and deaths of the *)
(* daemon: the client lock is held by exactly the stage inside a call, no   *)
(* task is left without its container, and a lost connection costs a        *)
(* bounded number of calls.                                                 *)
(***************************************************************************)
EXTENDS CtrdClient, FiniteSetTheorems, TLAPS

Calls == {"load_container", "load_task", "task_kill", "task_wait", "task_delete",
          "force_delete", "delete_container", "new_container", "new_task", "task_start"}

---------------------------------------------------------------------------
(* The table of calls.                                                       *)

\* The calls and the RPCs of each, in order.
LEMMA CallTable ==
    /\ DOMAIN Rpcs = Calls
    /\ \A c \in Calls \ {"force_delete", "delete_container", "new_container", "new_task"} :
          Len(Rpcs[c]) = 1
    /\ Rpcs["load_container"][1] = Rpc("shared", "ContainersGet", {})
    /\ Rpcs["load_task"][1] = Rpc("shared", "TasksGet", {})
    /\ Rpcs["task_kill"][1] = Rpc("shared", "TasksKill", {NOT_FOUND})
    /\ Rpcs["task_wait"][1] = Rpc("own", "TasksWait", {})
    /\ Rpcs["task_delete"][1] = Rpc("shared", "TasksDelete", {NOT_FOUND})
    /\ Rpcs["task_start"][1] = Rpc("shared", "TasksStart", {})
    /\ Len(Rpcs["force_delete"]) = 3
    /\ Rpcs["force_delete"][1] = Rpc("shared", "TasksKill", {NOT_FOUND})
    /\ Rpcs["force_delete"][2] = Rpc("own", "TasksWait", {CTRD_NOTFOUND, CTRD_TIMEOUT})
    /\ Rpcs["force_delete"][3] = Rpc("shared", "TasksDelete", {NOT_FOUND})
    /\ Len(Rpcs["delete_container"]) = 2
    /\ Rpcs["delete_container"][1] = Rpc("direct", "SnapshotsRemove", {NOT_FOUND})
    /\ Rpcs["delete_container"][2] = Rpc("shared", "ContainersDelete", {})
    /\ Len(Rpcs["new_container"]) = 5
    /\ Rpcs["new_container"][1] = Rpc("shared", "ImagesGet", {})
    /\ Rpcs["new_container"][2] = Rpc("direct", "ContentRead", {})
    /\ Rpcs["new_container"][3] = Rpc("direct", "ContentRead", {})
    /\ Rpcs["new_container"][4] = Rpc("direct", "SnapshotsPrepare", {ALREADY_EXISTS})
    /\ Rpcs["new_container"][5] = Rpc("shared", "ContainersCreate", {})
    /\ Len(Rpcs["new_task"]) = 2
    /\ Rpcs["new_task"][1] = Rpc("direct", "SnapshotsMounts", {})
    /\ Rpcs["new_task"][2] = Rpc("shared", "TasksCreate", {})
<1>1. DOMAIN Rpcs = Calls
  BY Zenon DEF Rpcs, Calls
<1>2. /\ Rpcs["load_container"] = <<load_container>> /\ Rpcs["load_task"] = <<load_task>>
      /\ Rpcs["task_kill"] = <<task_kill>> /\ Rpcs["task_wait"] = <<task_wait>>
      /\ Rpcs["task_delete"] = <<task_delete>> /\ Rpcs["task_start"] = <<task_start>>
      /\ Rpcs["force_delete"] = force_delete /\ Rpcs["delete_container"] = delete_container
      /\ Rpcs["new_container"] = new_container /\ Rpcs["new_task"] = new_task
  BY Zenon DEF Rpcs
<1>3. /\ Len(<<load_container>>) = 1 /\ Len(<<load_task>>) = 1 /\ Len(<<task_kill>>) = 1
      /\ Len(<<task_wait>>) = 1 /\ Len(<<task_delete>>) = 1 /\ Len(<<task_start>>) = 1
      /\ Len(force_delete) = 3 /\ Len(delete_container) = 2
      /\ Len(new_container) = 5 /\ Len(new_task) = 2
  BY Zenon DEF force_delete, delete_container, new_container, new_task
<1>4. QED
  BY <1>1, <1>2, <1>3 DEF Calls, force_delete, delete_container, new_container, new_task,
                          load_container, load_task, task_kill, task_wait, task_delete,
                          task_start, get_image, content_read, snapshots_prepare,
                          snapshots_mounts, snapshots_remove

---------------------------------------------------------------------------
(* The inductive invariant.                                                  *)

Worlds == [container : BOOLEAN, snapshot : BOOLEAN, task : TaskState]

\* Every variable has its type, and a call is at one of its RPCs.
Typed ==
    /\ up \in BOOLEAN
    /\ world \in [Stages -> Worlds]
    /\ conn \in Conn
    /\ lock \in Stages \cup {NoOne}
    /\ call \in [Stages -> Calls \cup {"none"}]
    /\ step \in [Stages -> Nat]
    /\ \A s \in Stages : step[s] > 0 => call[s] # "none" /\ step[s] <= Len(Rpcs[call[s]])
    /\ listener \in {"subscribing", "reading", "cut", "gone"}
    /\ strikes \in Nat

\* The lock is held by exactly the stage inside a call, task_wait apart.
LockInv == \A s \in Stages : (lock = s) <=> (step[s] > 0 /\ call[s] # "task_wait")

\* What the place an op has reached says of its stage in the daemon: from
\* delete_container to new_task there is no task, and new_task finds both the
\* container and the snapshot.
Stands(w, c, n) ==
    /\ w.task # "none" => w.container /\ w.snapshot
    /\ c \in {"delete_container", "new_container", "new_task"} => w.task = "none"
    /\ c = "new_container" /\ n = 5 => w.snapshot
    /\ c = "new_task" => w.container /\ w.snapshot

NestInv == \A s \in Stages : Stands(world[s], call[s], step[s])

\* The stages whose next RPC dials: their ops ended, or have just begun.
Back == {s \in Stages : call[s] \in {"none", "load_container"}}

\* A lost connection costs one call that leaves it dead, one that discards it,
\* and then each call that fails sends its stage back to where it dials.
StrikeInv ==
    /\ conn = "stale" => strikes = 0
    /\ conn = "dead" => strikes <= 1
    /\ conn = "none" => strikes <= 1 + Cardinality(Back)
    /\ StrikesBounded

IInv == Typed /\ LockInv /\ NestInv /\ StrikeInv

---------------------------------------------------------------------------
(* One RPC of a call.                                                        *)

\* A stage inside a call.
Inside(s) == s \in Stages /\ call[s] # "none" /\ step[s] > 0

At(s, c, n, r) == call[s] = c /\ step[s] = n /\ TheRpc(s) = r

\* The places a call can be at.
LEMMA Places ==
    ASSUME Typed, NEW s, Inside(s)
    PROVE  \/ At(s, "load_container", 1, Rpc("shared", "ContainersGet", {}))
           \/ At(s, "load_task", 1, Rpc("shared", "TasksGet", {}))
           \/ At(s, "task_kill", 1, Rpc("shared", "TasksKill", {NOT_FOUND}))
           \/ At(s, "task_wait", 1, Rpc("own", "TasksWait", {}))
           \/ At(s, "task_delete", 1, Rpc("shared", "TasksDelete", {NOT_FOUND}))
           \/ At(s, "task_start", 1, Rpc("shared", "TasksStart", {}))
           \/ At(s, "force_delete", 1, Rpc("shared", "TasksKill", {NOT_FOUND}))
           \/ At(s, "force_delete", 2, Rpc("own", "TasksWait", {CTRD_NOTFOUND, CTRD_TIMEOUT}))
           \/ At(s, "force_delete", 3, Rpc("shared", "TasksDelete", {NOT_FOUND}))
           \/ At(s, "delete_container", 1, Rpc("direct", "SnapshotsRemove", {NOT_FOUND}))
           \/ At(s, "delete_container", 2, Rpc("shared", "ContainersDelete", {}))
           \/ At(s, "new_container", 1, Rpc("shared", "ImagesGet", {}))
           \/ At(s, "new_container", 2, Rpc("direct", "ContentRead", {}))
           \/ At(s, "new_container", 3, Rpc("direct", "ContentRead", {}))
           \/ At(s, "new_container", 4, Rpc("direct", "SnapshotsPrepare", {ALREADY_EXISTS}))
           \/ At(s, "new_container", 5, Rpc("shared", "ContainersCreate", {}))
           \/ At(s, "new_task", 1, Rpc("direct", "SnapshotsMounts", {}))
           \/ At(s, "new_task", 2, Rpc("shared", "TasksCreate", {}))
<1>1. call[s] \in Calls /\ step[s] \in 1 .. Len(Rpcs[call[s]])
  BY CallTable DEF Typed, Inside
<1>2. CASE call[s] \in Calls \ {"force_delete", "delete_container", "new_container", "new_task"}
  <2>1. Len(Rpcs[call[s]]) = 1
    BY <1>2, CallTable, Zenon
  <2>2. step[s] = 1
    BY <1>1, <2>1
  <2>3. QED
    BY <1>2, <2>2, CallTable, Zenon DEF At, TheRpc, Calls
<1>3. CASE call[s] = "force_delete"
  <2>1. \/ step[s] = 1
        \/ step[s] = 2
        \/ step[s] = 3
    BY <1>1, <1>3, CallTable
  <2>2. QED
    BY <1>3, <2>1, CallTable, Zenon DEF At, TheRpc
<1>4. CASE call[s] = "delete_container"
  <2>1. \/ step[s] = 1
        \/ step[s] = 2
    BY <1>1, <1>4, CallTable
  <2>2. QED
    BY <1>4, <2>1, CallTable, Zenon DEF At, TheRpc
<1>5. CASE call[s] = "new_container"
  <2>1. \/ step[s] = 1
        \/ step[s] = 2
        \/ step[s] = 3
        \/ step[s] = 4
        \/ step[s] = 5
    BY <1>1, <1>5, CallTable
  <2>2. QED
    BY <1>5, <2>1, CallTable, Zenon DEF At, TheRpc
<1>6. CASE call[s] = "new_task"
  <2>1. \/ step[s] = 1
        \/ step[s] = 2
    BY <1>1, <1>6, CallTable
  <2>2. QED
    BY <1>6, <2>1, CallTable, Zenon DEF At, TheRpc
<1>7. QED
  BY <1>1, <1>2, <1>3, <1>4, <1>5, <1>6, Zenon

\* The record of an RPC.
LEMMA RpcFields ==
    ASSUME NEW v, NEW n, NEW t
    PROVE  Rpc(v, n, t).via = v /\ Rpc(v, n, t).name = n /\ Rpc(v, n, t).tolerated = t
BY Zenon DEF Rpc

\* What an RPC takes for success, by the connection it uses.
LEMMA Tolerates ==
    ASSUME Typed, NEW s, Inside(s)
    PROVE  /\ TheRpc(s).via \in {"shared", "direct", "own"}
           /\ TheRpc(s).via # "own" => /\ TheRpc(s).tolerated \subseteq {NOT_FOUND, ALREADY_EXISTS}
                                       /\ call[s] # "task_wait"
           /\ TheRpc(s).via = "own" => \/ call[s] = "task_wait" /\ TheRpc(s).tolerated = {}
                                       \/ /\ call[s] = "force_delete" /\ step[s] = 2
                                          /\ TheRpc(s).tolerated = {CTRD_NOTFOUND, CTRD_TIMEOUT}
           /\ TheRpc(s).via = "direct" => call[s] # "load_container"
           /\ call[s] \in Calls /\ step[s] \in 1 .. Len(Rpcs[call[s]])
<1>1. call[s] \in Calls /\ step[s] \in 1 .. Len(Rpcs[call[s]])
  BY CallTable DEF Typed, Inside
<1>2. QED
  BY <1>1, Places, RpcFields DEF At

\* The codes of a call that did not work.
Failures == {H2C_ERR_TIMEOUT, H2C_ERR_IO, H2C_ERR_TOOBIG, H2C_ERR_BADARG, INTERNAL, UNAVAILABLE}

\* An op whose call failed is over.
LEMMA OpOver ==
    ASSUME NEW c \in Calls \ {"task_wait"}, NEW rc \in Failures
    PROVE  /\ AfterCall(c, map_grpc_err(rc)) = "none"
           /\ AfterCall(c, map_rpc_err(rc)) = "none"
           /\ AfterCall(c, CTRD_CONNECT) = "none"
<1> USE DEF CTRD_CONNECT, CTRD_NOTFOUND, CTRD_TIMEOUT, CTRD_IO, CTRD_PROTO, CTRD_CLOSED, CTRD_RPC
<1>1. map_grpc_err(rc) \in {CTRD_TIMEOUT, CTRD_IO, CTRD_PROTO, CTRD_RPC}
  BY DEF Failures, map_grpc_err, H2C_ERR_TIMEOUT, H2C_ERR_IO, H2C_ERR_PROTO, H2C_ERR_TOOBIG,
         H2C_ERR_BADARG, OK, NOT_FOUND, ALREADY_EXISTS, INTERNAL, UNAVAILABLE
<1>2. map_rpc_err(rc) \in {CTRD_CONNECT, CTRD_TIMEOUT, CTRD_IO, CTRD_PROTO, CTRD_RPC}
  BY <1>1, Zenon DEF map_rpc_err
<1>3. ASSUME NEW code \in {CTRD_CONNECT, CTRD_TIMEOUT, CTRD_IO, CTRD_PROTO, CTRD_RPC}
      PROVE  AfterCall(c, code) = "none"
  BY <1>3 DEF AfterCall, Calls
<1>4. QED
  BY <1>1, <1>2, <1>3, Zenon

\* The op goes on to another call, or is over; it is inside none now.
Ended(s, c) ==
    /\ call' = [call EXCEPT ![s] = c]
    /\ step' = [step EXCEPT ![s] = 0]
    /\ lock' = IF lock = s THEN NoOne ELSE lock

\* It goes on to the next RPC of its call.
Advanced(s) ==
    /\ step' = [step EXCEPT ![s] = step[s] + 1]
    /\ step[s] < Len(Rpcs[call[s]])
    /\ UNCHANGED <<call, lock>>

\* A failed RPC ends the op.
LEMMA FailureEnds ==
    ASSUME Typed, NEW s, Inside(s), TheRpc(s).via # "own", NEW rc \in Failures, Continue(s, rc)
    PROVE  Ended(s, "none")
<1>1. /\ TheRpc(s).via \in {"shared", "direct"}
      /\ TheRpc(s).tolerated \subseteq {NOT_FOUND, ALREADY_EXISTS}
      /\ call[s] \in Calls \ {"task_wait"}
  BY Tolerates, Zenon
<1>2. rc # OK /\ rc \notin {NOT_FOUND, ALREADY_EXISTS}
  BY DEF Failures, H2C_ERR_TIMEOUT, H2C_ERR_IO, H2C_ERR_TOOBIG, H2C_ERR_BADARG, OK, NOT_FOUND,
         ALREADY_EXISTS, INTERNAL, UNAVAILABLE
<1>3. ~(rc = OK \/ rc \in TheRpc(s).tolerated)
  BY <1>1, <1>2, Zenon
<1>4. CASE TheRpc(s).via = "shared"
  BY <1>1, <1>3, <1>4, OpOver, Zenon DEF Continue, Ends, Ended, Typed, Inside
<1>5. CASE TheRpc(s).via = "direct"
  BY <1>1, <1>3, <1>5, OpOver, Zenon DEF Continue, Ends, Ended, Typed, Inside
<1>6. QED
  BY <1>1, <1>4, <1>5, Zenon

\* An RPC of the shared connection that worked moves its call on, or ends it
\* well.
LEMMA SuccessMoves ==
    ASSUME Typed, NEW s, Inside(s), NEW rc, Continue(s, rc),
           rc = OK \/ rc \in TheRpc(s).tolerated
    PROVE  \/ step[s] < Len(Rpcs[call[s]]) /\ Advanced(s)
           \/ step[s] = Len(Rpcs[call[s]]) /\ Ended(s, AfterCall(call[s], 0))
<1>1. step[s] \in 1 .. Len(Rpcs[call[s]]) /\ call[s] \in Calls
  BY Tolerates, Zenon
<1>2. Len(Rpcs[call[s]]) \in Nat
  BY <1>1, CallTable DEF Calls
<1>3. CASE step[s] < Len(Rpcs[call[s]])
  BY <1>1, <1>2, <1>3, Zenon DEF Continue, Advanced, Typed, Inside
<1>4. CASE step[s] = Len(Rpcs[call[s]])
  <2>1. ~(step[s] < Len(Rpcs[call[s]]))
    BY <1>2, <1>4
  <2>2. Ends(s, 0)
    BY <2>1, Zenon DEF Continue
  <2>3. QED
    BY <1>4, <2>2, Zenon DEF Ends, Ended, Typed, Inside
<1>5. QED
  BY <1>1, <1>2, <1>3, <1>4

\* Any result moves the call on or ends it.
LEMMA ContinueMoves ==
    ASSUME Typed, NEW s, Inside(s), NEW rc, Continue(s, rc)
    PROVE  Advanced(s) \/ \E c \in Calls \cup {"none"} : Ended(s, c)
<1>1. step[s] \in 1 .. Len(Rpcs[call[s]]) /\ call[s] \in Calls
  BY Tolerates, Zenon
<1>2. \A code : AfterCall(call[s], code) \in Calls \cup {"none"}
  BY Zenon DEF AfterCall, Calls
<1>3. CASE (rc = OK \/ rc \in TheRpc(s).tolerated) /\ step[s] < Len(Rpcs[call[s]])
  BY <1>3, Zenon DEF Continue, Advanced, Typed, Inside
<1>4. CASE ~((rc = OK \/ rc \in TheRpc(s).tolerated) /\ step[s] < Len(Rpcs[call[s]]))
  <2>1. PICK code : Ends(s, code)
    BY <1>4, Zenon DEF Continue
  <2>2. QED
    BY <1>2, <2>1, Zenon DEF Ends, Ended, Typed, Inside
<1>5. QED
  BY <1>3, <1>4, Zenon

\* What a step inside a call does to the types and the lock.
LEMMA MovesTyped ==
    ASSUME Typed, LockInv, NEW s, Inside(s),
           \/ UNCHANGED <<call, step, lock>>
           \/ Advanced(s)
           \/ \E c \in Calls \cup {"none"} : Ended(s, c)
    PROVE  /\ lock' \in Stages \cup {NoOne}
           /\ call' \in [Stages -> Calls \cup {"none"}]
           /\ step' \in [Stages -> Nat]
           /\ \A t \in Stages : step'[t] > 0 => call'[t] # "none" /\ step'[t] <= Len(Rpcs[call'[t]])
           /\ LockInv'
<1> USE DEF Typed, LockInv, Inside
<1>1. CASE UNCHANGED <<call, step, lock>>
  BY <1>1, Zenon
<1>2. CASE Advanced(s)
  <2>1. step[s] \in 1 .. Len(Rpcs[call[s]]) /\ call[s] \in Calls
    BY Tolerates, Zenon
  <2>2. Len(Rpcs[call[s]]) \in Nat
    BY <2>1, CallTable DEF Calls
  <2>3. step' = [step EXCEPT ![s] = step[s] + 1] /\ step[s] + 1 <= Len(Rpcs[call[s]])
    BY <1>2, <2>1, <2>2 DEF Advanced
  <2>4. UNCHANGED <<call, lock>>
    BY <1>2, Zenon DEF Advanced
  <2>5. step' \in [Stages -> Nat]
    BY <2>3
  <2>6. \A t \in Stages : step'[t] = IF t = s THEN step[s] + 1 ELSE step[t]
    BY <2>3, Zenon
  <2>7. QED
    BY <2>3, <2>4, <2>5, <2>6
<1>3. ASSUME NEW c \in Calls \cup {"none"}, Ended(s, c)
      PROVE  /\ lock' \in Stages \cup {NoOne}
             /\ call' \in [Stages -> Calls \cup {"none"}]
             /\ step' \in [Stages -> Nat]
             /\ \A t \in Stages :
                    step'[t] > 0 => call'[t] # "none" /\ step'[t] <= Len(Rpcs[call'[t]])
             /\ LockInv'
  <2>1. \A t \in Stages : /\ step'[t] = IF t = s THEN 0 ELSE step[t]
                          /\ call'[t] = IF t = s THEN c ELSE call[t]
    BY <1>3, Zenon DEF Ended
  <2>2. LockInv'
    BY <1>3, <2>1, CtrdAssumption DEF Ended
  <2>3. QED
    BY <1>3, <2>1, <2>2 DEF Ended
<1>4. QED
  BY <1>1, <1>2, <1>3, Zenon

\* The daemon's side of an RPC keeps the world typed.
LEMMA EffectTyped ==
    ASSUME NEW w \in Worlds, NEW n
    PROVE  Effect(w, n) \in Worlds
BY Zenon DEF Effect, Worlds, TaskState

\* The outcomes of a step inside a call.
LEMMA CallStepMoves ==
    ASSUME Typed, NEW s, Inside(s), CallStep(s)
    PROVE  /\ \/ UNCHANGED <<call, step, lock>>
              \/ Advanced(s)
              \/ \E c \in Calls \cup {"none"} : Ended(s, c)
           /\ up' \in BOOLEAN /\ conn' \in Conn /\ strikes' \in Nat
           /\ listener' \in {"subscribing", "reading", "cut", "gone"}
           /\ world' = world \/ world' = [world EXCEPT ![s] = Effect(world[s], TheRpc(s).name)]
<1> USE DEF Typed, Conn
<1>1. CASE TheRpc(s).via = "own" /\ RpcWait(s)
  BY <1>1, ContinueMoves, Zenon DEF RpcWait
<1>2. CASE RpcAnswered(s)
  <2>1. PICK rc : Returned(s, rc, "open")
    BY <1>2, Zenon DEF RpcAnswered
  <2>2. Advanced(s) \/ \E c \in Calls \cup {"none"} : Ended(s, c)
    BY <2>1, ContinueMoves, Zenon DEF Returned
  <2>3. conn' \in Conn
    BY <2>1, Zenon DEF Returned
  <2>4. world' = world \/ world' = [world EXCEPT ![s] = Effect(world[s], TheRpc(s).name)]
    BY <1>2, Zenon DEF RpcAnswered, Inside
  <2>5. QED
    BY <1>2, <2>2, <2>3, <2>4, Zenon DEF RpcAnswered
<1>3. CASE RpcCut(s)
  <2>1. Advanced(s) \/ \E c \in Calls \cup {"none"} : Ended(s, c)
    BY <1>3, ContinueMoves, Zenon DEF RpcCut
  <2>2. world' = world \/ world' = [world EXCEPT ![s] = Effect(world[s], TheRpc(s).name)]
    BY <1>3, Zenon DEF RpcCut, Inside
  <2>3. QED
    BY <1>3, <2>1, <2>2, Zenon DEF RpcCut, Dies
<1>4. CASE RpcLost(s)
  <2>1. PICK c \in {"dead", "none"} : \E rc : Returned(s, rc, c)
    BY <1>4, Zenon DEF RpcLost
  <2>2. Advanced(s) \/ \E d \in Calls \cup {"none"} : Ended(s, d)
    BY <2>1, ContinueMoves, Zenon DEF Returned
  <2>3. conn' \in Conn
    BY <2>1, Zenon DEF Returned
  <2>4. strikes' \in Nat
    BY <1>4 DEF RpcLost
  <2>5. QED
    BY <1>4, <2>2, <2>3, <2>4, Zenon DEF RpcLost
<1>5. CASE RpcDial(s)
  <2>1. UNCHANGED <<call, step, lock>> \/ \E c \in Calls \cup {"none"} : Ended(s, c)
    <3>1. CASE Ends(s, CTRD_CONNECT)
      <4>1. AfterCall(call[s], CTRD_CONNECT) \in Calls \cup {"none"}
        BY Zenon DEF AfterCall, Calls
      <4>2. QED
        BY <3>1, <4>1, Zenon DEF Ends, Ended, Inside
    <3>2. QED
      BY <1>5, <3>1, Zenon DEF RpcDial
  <2>2. QED
    BY <1>5, <2>1, Zenon DEF RpcDial
<1>6. QED
  BY <1>1, <1>2, <1>3, <1>4, <1>5, Zenon DEF CallStep

---------------------------------------------------------------------------
(* No task without its container.                                            *)

\* An RPC the daemon refused ends the op, but that nothing is found sends it
\* on where something was looked for.
AfterRefusal(c, rc) ==
    CASE c = "load_container" /\ rc = NOT_FOUND -> "new_container"
      [] c = "load_task" /\ rc = NOT_FOUND      -> "delete_container"
      [] OTHER                                  -> "none"

LEMMA RefusalEnds ==
    ASSUME Typed, NEW s, Inside(s), TheRpc(s).via # "own",
           NEW rc \in {NOT_FOUND, ALREADY_EXISTS, FAILED_PRECONDITION}, Continue(s, rc),
           rc \notin TheRpc(s).tolerated
    PROVE  Ended(s, AfterRefusal(call[s], rc))
<1>1. TheRpc(s).via \in {"shared", "direct"} /\ call[s] \in Calls \ {"task_wait"}
  BY Tolerates, Zenon
<1>2. map_rpc_err(rc) = map_grpc_err(rc) /\ rc # OK
  BY DEF map_rpc_err, CTRD_CONNECT, NOT_FOUND, ALREADY_EXISTS, FAILED_PRECONDITION, OK
<1>3. Ends(s, map_grpc_err(rc))
  BY <1>1, <1>2, Zenon DEF Continue
<1>4. map_grpc_err(rc) = CASE rc = NOT_FOUND -> CTRD_NOTFOUND
                           [] rc = ALREADY_EXISTS -> CTRD_IO
                           [] rc = FAILED_PRECONDITION -> CTRD_RPC
  BY DEF map_grpc_err, OK, NOT_FOUND, ALREADY_EXISTS, FAILED_PRECONDITION, UNAVAILABLE,
         H2C_ERR_TIMEOUT, H2C_ERR_TOOBIG, H2C_ERR_PROTO, CTRD_NOTFOUND, CTRD_IO, CTRD_RPC
<1>5. AfterCall(call[s], map_grpc_err(rc)) = AfterRefusal(call[s], rc)
  BY <1>1, <1>4 DEF AfterCall, AfterRefusal, NOT_FOUND, ALREADY_EXISTS, FAILED_PRECONDITION,
                    CTRD_NOTFOUND, CTRD_IO, CTRD_RPC, CTRD_TIMEOUT, Calls
<1>6. QED
  BY <1>3, <1>5, Zenon DEF Ends, Ended, Typed, Inside

\* The places at which an RPC goes over the shared connection: the call, the
\* number of the RPC, its name, the statuses it tolerates and the call's length.
Place(c, n, name, t, len) ==
    \/ c = "load_container" /\ n = 1 /\ name = "ContainersGet" /\ t = {} /\ len = 1
    \/ c = "load_task" /\ n = 1 /\ name = "TasksGet" /\ t = {} /\ len = 1
    \/ c = "task_kill" /\ n = 1 /\ name = "TasksKill" /\ t = {NOT_FOUND} /\ len = 1
    \/ c = "task_delete" /\ n = 1 /\ name = "TasksDelete" /\ t = {NOT_FOUND} /\ len = 1
    \/ c = "task_start" /\ n = 1 /\ name = "TasksStart" /\ t = {} /\ len = 1
    \/ c = "force_delete" /\ n = 1 /\ name = "TasksKill" /\ t = {NOT_FOUND} /\ len = 3
    \/ c = "force_delete" /\ n = 3 /\ name = "TasksDelete" /\ t = {NOT_FOUND} /\ len = 3
    \/ c = "delete_container" /\ n = 1 /\ name = "SnapshotsRemove" /\ t = {NOT_FOUND} /\ len = 2
    \/ c = "delete_container" /\ n = 2 /\ name = "ContainersDelete" /\ t = {} /\ len = 2
    \/ c = "new_container" /\ n = 1 /\ name = "ImagesGet" /\ t = {} /\ len = 5
    \/ c = "new_container" /\ n = 2 /\ name = "ContentRead" /\ t = {} /\ len = 5
    \/ c = "new_container" /\ n = 3 /\ name = "ContentRead" /\ t = {} /\ len = 5
    \/ c = "new_container" /\ n = 4 /\ name = "SnapshotsPrepare" /\ t = {ALREADY_EXISTS} /\ len = 5
    \/ c = "new_container" /\ n = 5 /\ name = "ContainersCreate" /\ t = {} /\ len = 5
    \/ c = "new_task" /\ n = 1 /\ name = "SnapshotsMounts" /\ t = {} /\ len = 2
    \/ c = "new_task" /\ n = 2 /\ name = "TasksCreate" /\ t = {} /\ len = 2

\* What the daemon answers and does keeps the place's promise for the next
\* place, or for the call that follows.
Promised(w, c, n, name, t, len) ==
    LET rc == Answer(w, name) IN
    IF rc = OK \/ rc \in t
      THEN Stands(Effect(w, name), IF n < len THEN c ELSE AfterCall(c, 0),
                  IF n < len THEN n + 1 ELSE 0)
      ELSE /\ rc \in {NOT_FOUND, ALREADY_EXISTS, FAILED_PRECONDITION}
           /\ Stands(Effect(w, name), AfterRefusal(c, rc), 0)

LEMMA AnswerStands ==
    ASSUME NEW w \in Worlds, NEW c, NEW n, NEW name, NEW t, NEW len,
           Stands(w, c, n), Place(c, n, name, t, len)
    PROVE  /\ Promised(w, c, n, name, t, len)
           /\ Effect(w, name).task # "none" => Effect(w, name).container /\ Effect(w, name).snapshot
<1> USE DEF Stands, Promised, Answer, Effect, AfterCall, AfterRefusal, Worlds, TaskState,
            OK, NOT_FOUND, ALREADY_EXISTS, FAILED_PRECONDITION, CTRD_NOTFOUND, CTRD_TIMEOUT
<1>1. CASE c = "load_container" /\ n = 1 /\ name = "ContainersGet" /\ t = {} /\ len = 1
  BY <1>1
<1>2. CASE c = "load_task" /\ n = 1 /\ name = "TasksGet" /\ t = {} /\ len = 1
  BY <1>2
<1>3. CASE c = "task_kill" /\ n = 1 /\ name = "TasksKill" /\ t = {NOT_FOUND} /\ len = 1
  BY <1>3
<1>4. CASE c = "task_delete" /\ n = 1 /\ name = "TasksDelete" /\ t = {NOT_FOUND} /\ len = 1
  BY <1>4
<1>5. CASE c = "task_start" /\ n = 1 /\ name = "TasksStart" /\ t = {} /\ len = 1
  BY <1>5
<1>6. CASE c = "force_delete" /\ n = 1 /\ name = "TasksKill" /\ t = {NOT_FOUND} /\ len = 3
  BY <1>6
<1>7. CASE c = "force_delete" /\ n = 3 /\ name = "TasksDelete" /\ t = {NOT_FOUND} /\ len = 3
  BY <1>7
<1>8. CASE c = "delete_container" /\ n = 1 /\ name = "SnapshotsRemove" /\ t = {NOT_FOUND} /\ len = 2
  BY <1>8
<1>9. CASE c = "delete_container" /\ n = 2 /\ name = "ContainersDelete" /\ t = {} /\ len = 2
  BY <1>9
<1>10. CASE c = "new_container" /\ n = 1 /\ name = "ImagesGet" /\ t = {} /\ len = 5
  BY <1>10
<1>11. CASE c = "new_container" /\ n = 2 /\ name = "ContentRead" /\ t = {} /\ len = 5
  BY <1>11
<1>12. CASE c = "new_container" /\ n = 3 /\ name = "ContentRead" /\ t = {} /\ len = 5
  BY <1>12
<1>13. CASE c = "new_container" /\ n = 4 /\ name = "SnapshotsPrepare" /\ t = {ALREADY_EXISTS}
            /\ len = 5
  BY <1>13
<1>14. CASE c = "new_container" /\ n = 5 /\ name = "ContainersCreate" /\ t = {} /\ len = 5
  BY <1>14, Zenon
<1>15. CASE c = "new_task" /\ n = 1 /\ name = "SnapshotsMounts" /\ t = {} /\ len = 2
  BY <1>15, Zenon
<1>16. CASE c = "new_task" /\ n = 2 /\ name = "TasksCreate" /\ t = {} /\ len = 2
  BY <1>16
<1> HIDE DEF Stands, Promised, Answer, Effect, AfterCall, AfterRefusal, Worlds, TaskState
<1>17. QED
  BY <1>1, <1>2, <1>3, <1>4, <1>5, <1>6, <1>7, <1>8, <1>9, <1>10, <1>11, <1>12,
     <1>13, <1>14, <1>15, <1>16, Zenon DEF Place

\* A stage inside a call on the shared connection is at one of those places.
LEMMA AtPlace ==
    ASSUME Typed, NEW s, Inside(s), TheRpc(s).via # "own"
    PROVE  Place(call[s], step[s], TheRpc(s).name, TheRpc(s).tolerated, Len(Rpcs[call[s]]))
<1>1. \A c \in {"load_container", "load_task", "task_kill", "task_delete", "task_start"} :
          Len(Rpcs[c]) = 1
  BY CallTable, Zenon DEF Calls
<1>2. /\ Len(Rpcs["force_delete"]) = 3 /\ Len(Rpcs["delete_container"]) = 2
      /\ Len(Rpcs["new_container"]) = 5 /\ Len(Rpcs["new_task"]) = 2
  BY CallTable, Zenon
<1>3. QED
  BY <1>1, <1>2, Places, RpcFields DEF At, Place

\* A wait on a connection of its own.
LEMMA WaitStands ==
    ASSUME Typed, NestInv, NEW s, Inside(s), TheRpc(s).via = "own", RpcWait(s)
    PROVE  Stands(world[s], call'[s], step'[s])
<1> USE DEF Stands, CTRD_CONNECT, CTRD_NOTFOUND, CTRD_TIMEOUT, OK
<1>1. Stands(world[s], call[s], step[s]) /\ s \in Stages
  BY Zenon DEF NestInv, Inside
<1>2. CASE call[s] = "task_wait" /\ TheRpc(s).tolerated = {}
  <2>1. PICK code : Ends(s, code) /\ (code = CTRD_NOTFOUND => world[s].task = "none")
                    /\ code \in {CTRD_CONNECT, CTRD_NOTFOUND, OK, CTRD_TIMEOUT}
    <3>1. Len(Rpcs[call[s]]) = 1 /\ step[s] = 1
      <4>1. Len(Rpcs[call[s]]) = 1
        BY <1>2, CallTable, Zenon DEF Calls
      <4>2. step[s] \in 1 .. Len(Rpcs[call[s]])
        BY Tolerates, Zenon
      <4>3. QED
        BY <4>1, <4>2
    <3>2. ASSUME NEW rc \in {CTRD_CONNECT, CTRD_NOTFOUND, OK, CTRD_TIMEOUT}, Continue(s, rc)
          PROVE  Ends(s, rc)
      BY <1>2, <3>1, <3>2 DEF Continue
    <3>3. QED
      BY <3>2 DEF RpcWait
  <2>2. AfterCall(call[s], code) \in {"none", "task_delete", "force_delete", "delete_container"}
        /\ (AfterCall(call[s], code) = "delete_container" => code = CTRD_NOTFOUND)
    BY <1>2, <2>1, Zenon DEF AfterCall
  <2>3. call'[s] = AfterCall(call[s], code)
    BY <1>1, <2>1, Zenon DEF Ends, Typed
  <2>4. QED
    BY <1>1, <2>1, <2>2, <2>3, Zenon
<1>3. CASE /\ call[s] = "force_delete" /\ step[s] = 2
           /\ TheRpc(s).tolerated = {CTRD_NOTFOUND, CTRD_TIMEOUT}
  <2>1. Len(Rpcs[call[s]]) = 3
    BY <1>3, CallTable, Zenon
  <2>2. ASSUME NEW rc \in {CTRD_CONNECT, CTRD_NOTFOUND, OK, CTRD_TIMEOUT}, Continue(s, rc)
        PROVE  call'[s] \in {"none", "force_delete"}
    <3>1. CASE rc = CTRD_CONNECT
      <4>1. Ends(s, rc)
        BY <1>3, <2>2, <3>1 DEF Continue
      <4>2. AfterCall(call[s], rc) = "none"
        BY <1>3, <3>1 DEF AfterCall
      <4>3. QED
        BY <1>1, <4>1, <4>2, Zenon DEF Ends, Typed
    <3>2. CASE rc # CTRD_CONNECT
      BY <1>3, <2>1, <2>2, <3>2 DEF Continue
    <3>3. QED
      BY <3>1, <3>2, Zenon
  <2>3. call'[s] \in {"none", "force_delete"}
    BY <2>2, Zenon DEF RpcWait
  <2>4. QED
    BY <1>1, <2>3, Zenon
<1>4. QED
  BY <1>2, <1>3, Tolerates, Zenon

\* Every step inside a call keeps the promise of the place its op is at.
LEMMA NestKept ==
    ASSUME Typed, NestInv, NEW s, Inside(s), CallStep(s)
    PROVE  NestInv'
<1>1. \A t \in Stages \ {s} : world'[t] = world[t] /\ call'[t] = call[t] /\ step'[t] = step[t]
  BY CallStepMoves DEF Typed, Inside, Advanced, Ended
<1>2. s \in Stages /\ world[s] \in Worlds /\ Stands(world[s], call[s], step[s])
  BY Zenon DEF Typed, NestInv, Inside
<1>3. ASSUME TheRpc(s).via # "own", Ended(s, "none")
      PROVE  Stands(world'[s], call'[s], step'[s])
  <2>1. call'[s] = "none"
    BY <1>2, <1>3, Zenon DEF Ended, Typed
  <2>2. world'[s] = world[s] \/ world'[s] = Effect(world[s], TheRpc(s).name)
    BY <1>2, CallStepMoves, Zenon DEF Typed
  <2>3. world'[s].task # "none" => world'[s].container /\ world'[s].snapshot
    BY <1>2, <1>3, <2>2, AtPlace, AnswerStands, Zenon DEF Stands
  <2>4. QED
    BY <2>1, <2>3, Zenon DEF Stands
<1>4. Stands(world'[s], call'[s], step'[s])
  <2>1. CASE TheRpc(s).via = "own" /\ RpcWait(s)
    BY <2>1, WaitStands, Zenon DEF RpcWait
  <2>2. CASE TheRpc(s).via # "own" /\ RpcAnswered(s)
    <3>1. CASE /\ Returned(s, Answer(world[s], TheRpc(s).name), "open")
               /\ world' = [world EXCEPT ![s] = Effect(@, TheRpc(s).name)]
      <4>1. PICK rc : rc = Answer(world[s], TheRpc(s).name) /\ Continue(s, rc)
        BY <3>1, Zenon DEF Returned
      <4>2. world'[s] = Effect(world[s], TheRpc(s).name)
        BY <1>2, <3>1, Zenon DEF Typed
      <4>3. Promised(world[s], call[s], step[s], TheRpc(s).name, TheRpc(s).tolerated,
                     Len(Rpcs[call[s]]))
        BY <1>2, <2>2, AtPlace, AnswerStands, Zenon
      <4>4. CASE rc = OK \/ rc \in TheRpc(s).tolerated
        <5>1. CASE step[s] < Len(Rpcs[call[s]]) /\ Advanced(s)
          BY <1>2, <4>1, <4>2, <4>3, <4>4, <5>1, Zenon DEF Promised, Advanced, Typed
        <5>2. CASE step[s] = Len(Rpcs[call[s]]) /\ Ended(s, AfterCall(call[s], 0))
          <6>1. ~(step[s] < Len(Rpcs[call[s]]))
            BY <1>2, <5>2 DEF Typed
          <6>2. call'[s] = AfterCall(call[s], 0) /\ step'[s] = 0
            BY <1>2, <5>2, Zenon DEF Ended, Typed
          <6>3. QED
            BY <4>1, <4>2, <4>3, <4>4, <6>1, <6>2, Zenon DEF Promised
        <5>3. QED
          BY <4>1, <4>4, <5>1, <5>2, SuccessMoves, Zenon
      <4>5. CASE ~(rc = OK \/ rc \in TheRpc(s).tolerated)
        <5>1. /\ rc \in {NOT_FOUND, ALREADY_EXISTS, FAILED_PRECONDITION}
              /\ Stands(world'[s], AfterRefusal(call[s], rc), 0)
          BY <4>1, <4>2, <4>3, <4>5, Zenon DEF Promised
        <5>2. Ended(s, AfterRefusal(call[s], rc))
          BY <2>2, <4>1, <4>5, <5>1, RefusalEnds, Zenon
        <5>3. QED
          BY <1>2, <5>1, <5>2, Zenon DEF Ended, Typed
      <4>6. QED
        BY <4>4, <4>5, Zenon
    <3>2. CASE \E rc \in {FaultCode[f] : f \in Faults} : Returned(s, rc, "open")
      <4>1. \A f \in Faults : FaultCode[f] \in Failures
        BY CtrdAssumption DEF FaultCode, Failures
      <4>2. PICK rc \in Failures : Continue(s, rc)
        BY <3>2, <4>1, Zenon DEF Returned
      <4>3. QED
        BY <1>3, <2>2, <4>2, FailureEnds, Zenon
    <3>3. QED
      BY <2>2, <3>1, <3>2, Zenon DEF RpcAnswered
  <2>3. CASE TheRpc(s).via # "own" /\ RpcCut(s)
    BY <1>3, <2>3, FailureEnds, Zenon DEF RpcCut, Failures
  <2>4. CASE TheRpc(s).via # "own" /\ RpcLost(s)
    <3>1. PICK rc \in Failures : Continue(s, rc)
      BY <2>4, Zenon DEF RpcLost, Returned, Failures
    <3>2. QED
      BY <1>3, <2>4, <3>1, FailureEnds, Zenon
  <2>5. CASE TheRpc(s).via # "own" /\ RpcDial(s)
    <3>1. CASE UNCHANGED <<call, step>>
      BY <1>2, <2>5, <3>1, Zenon DEF RpcDial
    <3>2. CASE Ends(s, CTRD_CONNECT)
      <4>1. call[s] \in Calls \ {"task_wait"} /\ H2C_ERR_IO \in Failures
        BY <2>5, Tolerates, Zenon DEF Failures
      <4>2. Ended(s, "none")
        BY <1>2, <3>2, <4>1, OpOver, Zenon DEF Ends, Ended, Typed
      <4>3. QED
        BY <1>3, <2>5, <4>2, Zenon
    <3>3. QED
      BY <2>5, <3>1, <3>2, Zenon DEF RpcDial
  <2>6. QED
    BY <2>1, <2>2, <2>3, <2>4, <2>5, Zenon DEF CallStep
<1>5. QED
  BY <1>1, <1>2, <1>4, Zenon DEF NestInv

---------------------------------------------------------------------------
(* What a lost connection costs.                                             *)

\* Sets of stages, by inclusion.
LEMMA Sizes ==
    ASSUME NEW A, NEW B, A \subseteq B, B \subseteq Stages
    PROVE  /\ Cardinality(A) \in Nat /\ Cardinality(B) \in Nat /\ Cardinality(Stages) \in Nat
           /\ Cardinality(A) <= Cardinality(B) /\ Cardinality(B) <= Cardinality(Stages)
           /\ \A s \in B \ A : Cardinality(A) + 1 <= Cardinality(B)
           /\ \A s \in B : 1 <= Cardinality(B)
<1>1. IsFiniteSet(Stages) /\ IsFiniteSet(B) /\ IsFiniteSet(A)
  BY CtrdAssumption, FS_Subset, Zenon
<1>2. /\ Cardinality(A) \in Nat /\ Cardinality(B) \in Nat /\ Cardinality(Stages) \in Nat
      /\ Cardinality(A) <= Cardinality(B) /\ Cardinality(B) <= Cardinality(Stages)
  BY <1>1, FS_CardinalityType, FS_Subset, Zenon
<1>3. ASSUME NEW s \in B \ A
      PROVE  Cardinality(A) + 1 <= Cardinality(B)
  <2>1. IsFiniteSet(A \cup {s}) /\ Cardinality(A \cup {s}) = Cardinality(A) + 1
    BY <1>1, FS_AddElement, Zenon
  <2>2. Cardinality(A \cup {s}) <= Cardinality(B)
    BY <1>1, FS_Subset, Zenon
  <2>3. QED
    BY <2>1, <2>2, Zenon
<1>4. ASSUME NEW s \in B
      PROVE  1 <= Cardinality(B)
  BY <1>1, <1>2, FS_EmptySet
<1>5. QED
  BY <1>2, <1>3, <1>4, Zenon

\* While no stage leaves Back and nothing else happens, the bound stays.
LEMMA StrikesStay ==
    ASSUME Typed, StrikeInv, UNCHANGED <<conn, strikes>>, Back \subseteq Back'
    PROVE  StrikeInv'
<1>1. PICK B : B = Back'
  OBVIOUS
<1>2. B \subseteq Stages /\ Back \subseteq B
  BY <1>1, Zenon DEF Back
<1>3. Cardinality(Back) <= Cardinality(B) /\ Cardinality(Back) \in Nat /\ Cardinality(B) \in Nat
  BY <1>2, Sizes, Zenon
<1>4. conn = "none" => strikes <= 1 + Cardinality(B)
  BY <1>3 DEF StrikeInv, Typed
<1>5. QED
  BY <1>1, <1>4, Zenon DEF StrikeInv, StrikesBounded

\* A step inside a call keeps the bound.
LEMMA StrikesKept ==
    ASSUME Typed, StrikeInv, NEW s, Inside(s), CallStep(s)
    PROVE  StrikeInv'
<1>1. \A t \in Stages \ {s} : call'[t] = call[t]
  BY CallStepMoves DEF Typed, Inside, Advanced, Ended
<1>2. PICK B : B = Back'
  OBVIOUS
<1>3. B \subseteq Stages
  BY <1>2, Zenon DEF Back
<1>4. Cardinality(B) \in Nat /\ Cardinality(Stages) \in Nat /\ Cardinality(B) <= Cardinality(Stages)
  BY <1>3, Sizes, Zenon
<1>5. CASE strikes' = 0
  BY <1>2, <1>4, <1>5 DEF StrikeInv, StrikesBounded
<1>6. CASE TheRpc(s).via = "own" /\ RpcWait(s)
  <2>1. s \notin Back
    BY <1>6, Tolerates, Zenon DEF Back, Inside
  <2>2. Back \subseteq Back'
    BY <1>1, <2>1, Zenon DEF Back
  <2>3. QED
    BY <1>6, <2>2, StrikesStay, Zenon DEF RpcWait
<1>7. CASE TheRpc(s).via # "own" /\ RpcLost(s) /\ strikes' # 0
  <2>1. PICK rc \in Failures : Continue(s, rc)
    BY <1>7, Zenon DEF RpcLost, Returned, Failures
  <2>2. Ended(s, "none")
    BY <1>7, <2>1, FailureEnds, Zenon
  <2>3. call'[s] = "none" /\ s \in Stages
    BY <2>2, Zenon DEF Ended, Typed, Inside
  <2>4. s \in B /\ Back \subseteq B
    BY <1>1, <1>2, <2>3, Zenon DEF Back
  <2>5. 1 <= Cardinality(B) /\ (s \notin Back => Cardinality(Back) + 1 <= Cardinality(B))
        /\ Cardinality(Back) \in Nat
    BY <1>3, <2>4, Sizes, Zenon
  <2>6. strikes' = strikes + 1 /\ strikes \in Nat
    BY <1>7, Zenon DEF RpcLost, Typed
  <2>7. CASE conn = "stale" /\ conn' = "none"
    BY <1>2, <1>4, <2>5, <2>6, <2>7 DEF StrikeInv, StrikesBounded
  <2>8. CASE conn = "stale" /\ conn' = "dead"
    BY <1>2, <1>4, <2>5, <2>6, <2>8 DEF StrikeInv, StrikesBounded
  <2>9. CASE conn = "dead" /\ conn' = "none"
    BY <1>2, <1>4, <2>5, <2>6, <2>9 DEF StrikeInv, StrikesBounded
  <2>10. CASE conn = "none" /\ conn' = "none" /\ TheRpc(s).via = "direct"
    <3>1. s \notin Back
      BY <2>10, Tolerates, Zenon DEF Back, Inside
    <3>2. QED
      BY <1>2, <1>4, <2>5, <2>6, <2>10, <3>1 DEF StrikeInv, StrikesBounded
  <2>11. /\ transport_is_dead(H2C_ERR_IO) /\ ~transport_is_dead(UNAVAILABLE)
         /\ ~transport_is_dead(H2C_ERR_BADARG)
    BY DEF transport_is_dead, TransportErrors, H2C_ERR_IO, UNAVAILABLE, H2C_ERR_BADARG
  <2>12. QED
    BY <1>7, <2>7, <2>8, <2>9, <2>10, <2>11, Zenon DEF RpcLost, Returned
<1>8. CASE TheRpc(s).via # "own" /\ RpcDial(s)
  <2>1. CASE conn' = "open" /\ strikes' = strikes
    BY <1>2, <2>1, Zenon DEF StrikeInv, StrikesBounded
  <2>2. CASE Ends(s, CTRD_CONNECT) /\ UNCHANGED conn
    <3>1. call[s] \in Calls \ {"task_wait"} /\ H2C_ERR_IO \in Failures
      BY <1>8, Tolerates, Zenon DEF Failures
    <3>2. call'[s] = "none"
      BY <2>2, <3>1, OpOver, Zenon DEF Ends, Typed, Inside
    <3>3. Back \subseteq Back'
      BY <1>1, <3>2, Zenon DEF Back
    <3>4. QED
      BY <1>8, <2>2, <3>3, StrikesStay, Zenon DEF RpcDial
  <2>3. QED
    BY <1>8, <2>1, <2>2, Zenon DEF RpcDial
<1>9. CASE RpcAnswered(s) \/ RpcCut(s)
  BY <1>5, <1>9, Zenon DEF RpcAnswered, RpcCut, Dies
<1>10. QED
  BY <1>5, <1>6, <1>7, <1>8, <1>9, Zenon DEF CallStep

---------------------------------------------------------------------------
(* The theorems.                                                             *)

\* The invariant holds at the start.
LEMMA InvInit ==
    ASSUME Init
    PROVE  IInv
<1>1. Typed
  BY CtrdAssumption DEF Init, Typed, Worlds, TaskState, Conn
<1>2. LockInv
  BY CtrdAssumption DEF Init, LockInv
<1>3. NestInv
  BY Zenon DEF Init, NestInv, Stands
<1>4. StrikeInv
  BY Sizes DEF Init, StrikeInv, StrikesBounded, Back
<1>5. QED
  BY <1>1, <1>2, <1>3, <1>4, Zenon DEF IInv

\* Every step keeps it.
LEMMA InvNext ==
    ASSUME IInv, [Next]_vars
    PROVE  IInv'
<1> USE DEF IInv
<1>1. ASSUME NEW s \in Stages, CallBegins(s)
      PROVE  IInv'
  <2>0. call[s] \in Calls /\ Len(Rpcs[call[s]]) >= 1
    <3>1. call[s] \in Calls
      BY <1>1, Zenon DEF CallBegins, Typed
    <3>2. QED
      BY <3>1, CallTable DEF Calls
  <2>1. Typed'
    BY <1>1, <2>0, Zenon DEF CallBegins, Typed
  <2>2. LockInv'
    BY <1>1, CtrdAssumption DEF CallBegins, Typed, LockInv
  <2>3. NestInv'
    BY <1>1 DEF CallBegins, Typed, NestInv, Stands
  <2>4. StrikeInv'
    BY <1>1, StrikesStay, Zenon DEF CallBegins, Back
  <2>5. QED
    BY <2>1, <2>2, <2>3, <2>4, Zenon
<1>2. ASSUME NEW s \in Stages, CallStep(s)
      PROVE  IInv'
  <2>1. Inside(s)
    BY <1>2, Zenon DEF CallStep, Inside
  <2>2. Typed' /\ LockInv'
    <3>1. world' \in [Stages -> Worlds]
      BY <1>2, <2>1, CallStepMoves, EffectTyped DEF Typed
    <3>2. QED
      BY <1>2, <2>1, <3>1, CallStepMoves, MovesTyped, Zenon DEF Typed
  <2>3. NestInv'
    BY <1>2, <2>1, NestKept, Zenon
  <2>4. StrikeInv'
    BY <1>2, <2>1, StrikesKept, Zenon
  <2>5. QED
    BY <2>2, <2>3, <2>4, Zenon
<1>3. ASSUME NEW s \in Stages, OpBegins(s)
      PROVE  IInv'
  <2>0. step[s] = 0 /\ lock # s
    BY <1>3 DEF OpBegins, Typed, LockInv
  <2>1. Typed'
    BY <1>3, <2>0, Zenon DEF OpBegins, Typed, Calls
  <2>2. LockInv'
    BY <1>3, <2>0, Zenon DEF OpBegins, Typed, LockInv
  <2>3. NestInv'
    BY <1>3, Zenon DEF OpBegins, Typed, NestInv, Stands
  <2>4. StrikeInv'
    BY <1>3, StrikesStay, Zenon DEF OpBegins, Back, Typed
  <2>5. QED
    BY <2>1, <2>2, <2>3, <2>4, Zenon
<1>4. ASSUME NEW s \in Stages, TaskExits(s)
      PROVE  IInv'
  <2>1. Typed'
    BY <1>4, Zenon DEF TaskExits, Typed, Worlds, TaskState
  <2>2. LockInv'
    BY <1>4, Zenon DEF TaskExits, LockInv
  <2>3. NestInv'
    BY <1>4 DEF TaskExits, Typed, NestInv, Stands, Worlds, TaskState
  <2>4. StrikeInv'
    BY <1>4, StrikesStay, Zenon DEF TaskExits, Back
  <2>5. QED
    BY <2>1, <2>2, <2>3, <2>4, Zenon
<1>5. CASE UNCHANGED <<up, world, conn, lock, call, step, strikes>>
           /\ listener' \in {"subscribing", "reading", "cut", "gone"}
  BY <1>5, Zenon DEF Typed, LockInv, NestInv, StrikeInv, StrikesBounded, Back
<1>6. CASE DaemonDies
  <2>1. Typed' /\ LockInv' /\ NestInv'
    BY <1>6, Zenon DEF DaemonDies, Dies, Typed, LockInv, NestInv, Conn
  <2>2. StrikeInv'
    <3>1. PICK B : B = Back'
      OBVIOUS
    <3>2. Cardinality(B) \in Nat /\ Cardinality(Stages) \in Nat
      BY <3>1, Sizes, Zenon DEF Back
    <3>3. strikes' = 0
      BY <1>6, Zenon DEF DaemonDies, Dies
    <3>4. QED
      BY <3>1, <3>2, <3>3 DEF StrikeInv, StrikesBounded
  <2>3. QED
    BY <2>1, <2>2, Zenon
<1>7. CASE DaemonStarts
  <2>1. Typed' /\ LockInv' /\ NestInv'
    BY <1>7, Zenon DEF DaemonStarts, Typed, LockInv, NestInv
  <2>2. StrikeInv'
    BY <1>7, StrikesStay, Zenon DEF DaemonStarts, Back
  <2>3. QED
    BY <2>1, <2>2, Zenon
<1>8. ASSUME NEW s \in Stages, MarkerCleared(s)
      PROVE  IInv'
  BY <1>5, <1>8, Zenon DEF MarkerCleared, Typed
<1>9. CASE Subscribe \/ EventStreamNext \/ ListenerReturns
  BY <1>5, <1>9, Zenon DEF Subscribe, EventStreamNext, ListenerReturns, Typed
<1>10. CASE UNCHANGED vars
  BY <1>5, <1>10, Zenon DEF vars, Typed
<1>11. QED
  BY <1>1, <1>2, <1>3, <1>4, <1>6, <1>7, <1>8, <1>9, <1>10, Zenon DEF Next

\* The invariant holds in every behaviour, fair or not.
THEOREM ClientInvariant == Init /\ [][Next]_vars => []IInv
BY InvInit, InvNext, PTL

\* Every variable has its type, and the client lock is held by exactly the
\* stage that is inside a public call (task_wait apart, which runs without it):
\* every error return of every call gives it back.
THEOREM LockedExactlyInside == Spec => []CtrdTypeOK
<1>1. IInv => CtrdTypeOK
  <2> SUFFICES ASSUME IInv PROVE CtrdTypeOK
    OBVIOUS
  <2>1. \A s \in Stages : (lock = s) = (step[s] > 0 /\ call[s] # "task_wait")
    BY Zenon DEF IInv, LockInv
  <2>2. \A s \in Stages : call[s] \in DOMAIN Rpcs \cup {"none"} /\ world[s].task \in TaskState
    BY CallTable, Zenon DEF IInv, Typed, Worlds
  <2>3. ASSUME NEW s \in Stages
        PROVE  step[s] \in 0 .. 7
    <3>1. step[s] > 0 => call[s] \in Calls /\ step[s] <= Len(Rpcs[call[s]])
      BY Zenon DEF IInv, Typed
    <3>2. \A c \in Calls : Len(Rpcs[c]) \in {1, 2, 3, 5}
      BY CallTable, Zenon DEF Calls
    <3>3. step[s] \in Nat
      BY Zenon DEF IInv, Typed
    <3>4. ASSUME step[s] > 0
          PROVE  step[s] <= 5
      <4>1. PICK n \in {1, 2, 3, 5} : n = Len(Rpcs[call[s]])
        BY <3>1, <3>2, <3>4, Zenon
      <4>2. step[s] <= n
        BY <3>1, <3>4, <4>1, Zenon
      <4>3. n \in Nat /\ n <= 5
        OBVIOUS
      <4>4. QED
        BY <3>3, <4>2, <4>3
    <3>5. QED
      BY <3>3, <3>4
  <2>4. QED
    BY <2>1, <2>2, <2>3, Zenon DEF CtrdTypeOK, IInv, Typed
<1>2. QED
  BY <1>1, ClientInvariant, PTL DEF Spec

\* No task is ever left in the daemon without the container and the snapshot
\* it runs from, whichever call of the ops failed, timed out, was cut off or
\* took effect unheard, for any number of stages, bad answers and deaths.
THEOREM TasksStayNested == Spec => []TaskNested
<1>1. IInv => TaskNested
  BY Zenon DEF IInv, NestInv, Stands, TaskNested
<1>2. QED
  BY <1>1, ClientInvariant, PTL DEF Spec

\* A lost connection costs at most one call more than there are stages, once
\* the daemon is up again.
THEOREM LossIsBounded == Spec => []StrikesBounded
<1>1. IInv => StrikesBounded
  BY Zenon DEF IInv, StrikeInv
<1>2. QED
  BY <1>1, ClientInvariant, PTL DEF Spec
=============================================================================
