------------------------------- MODULE CcCtr --------------------------------
(***************************************************************************)
(* The start and stop operations of the alternate controller               *)
(* (alternate/asm/cc_ctr.S) over the containerd calls of                    *)
(* alternate/c/cc_ctr.c: one step per RPC, against a daemon whose answers   *)
(* may be refused, lost after the effect, or undecodable.  The operation is *)
(* run again until it succeeds, as the reconcile loop does.  A label names  *)
(* the RPC the operation makes next; a C function says where its answer     *)
(* leads.                                                                   *)
(***************************************************************************)
EXTENDS Integers, Sequences, TLC

CONSTANTS DiffIds,      \* rootfs.diff_ids of the image
          Faulty,       \* the methods that may fail
          MaxFaults,    \* bound: failing calls
          MaxChanges    \* bound: changes of the desired state

VARIABLES d,            \* the daemon: the snapshot with its parent, the container, the task
          desired, op, pc, rc, parent, faults, changes

vars == <<d, desired, op, pc, rc, parent, faults, changes>>

OK        == "OK"
NOT_FOUND == "NOT_FOUND"
EXISTS    == "ALREADY_EXISTS"
PRECOND   == "FAILED_PRECONDITION"
Hash(a, b) == <<"sha256", a, b>>

\* The fold of cc_ctr_resolve_chainid over the layers; "" when there is none.
ChainId(ids) ==
    LET chain[i \in 1..Len(ids)] == IF i = 1 THEN <<ids[1]>> ELSE Hash(chain[i - 1], ids[i])
    IN  IF ids = <<>> THEN <<>> ELSE chain[Len(ids)]

\* Method of each label.
Method ==
    [get |-> "Containers/Get", task |-> "Tasks/Get", term |-> "Tasks/Kill", wait |-> "Tasks/Wait",
     kill |-> "Tasks/Kill", del |-> "Tasks/Delete",
     dtask |-> "Tasks/Get", dget |-> "Containers/Get", dsnap |-> "Snapshots/Remove",
     dctr |-> "Containers/Delete",
     image |-> "Images/Get", manifest |-> "Content/Read", config |-> "Content/Read",
     prepare |-> "Snapshots/Prepare", create |-> "Containers/Create",
     tget |-> "Containers/Get", tmounts |-> "Snapshots/Mounts", tspec |-> "Containers/Get",
     truntime |-> "Containers/Get", tcreate |-> "Tasks/Create", tstart |-> "Tasks/Start"]

\* What a call makes of its answer: a status other than OK is returned as it
\* is; an OK answer may fail to decode or hold more than the caller's room.
\* Some calls do not look into the answer, others have no bounded field.
Status(a)  == IF a \in {"garbled", "oversized"} THEN OK ELSE a
Decoded(a) == IF a = "garbled" THEN "ERR_STATE" ELSE Status(a)
Copied(a)  == IF a = "oversized" THEN "ERR_TOOBIG" ELSE Decoded(a)

get_container_info(a)      == Copied(a)
get_image(a)               == Copied(a)
ctr_read_content(a)        == Copied(a)
cc_ctr_prepare_snapshot(a) == Copied(a)
cc_ctr_mounts(a)           == Copied(a)
cc_ctr_remove_snapshot(a)  == Status(a)
cc_ctr_create_container(a) == Status(a)
containers_delete(a)       == Status(a)
tasks_create(a)            == Decoded(a)
cc_ctr_start_task(a)       == Decoded(a)
cc_ctr_kill_task(a)        == Status(a)
cc_ctr_delete_task(a)      == Decoded(a)
cc_ctr_get_task(a)         == Decoded(a)
cc_ctr_wait_task(a)        == Decoded(a)

Result(m, a) ==
    CASE m = "Containers/Get"    -> get_container_info(a)
      [] m = "Images/Get"        -> get_image(a)
      [] m = "Content/Read"      -> ctr_read_content(a)
      [] m = "Snapshots/Prepare" -> cc_ctr_prepare_snapshot(a)
      [] m = "Snapshots/Mounts"  -> cc_ctr_mounts(a)
      [] m = "Snapshots/Remove"  -> cc_ctr_remove_snapshot(a)
      [] m = "Containers/Create" -> cc_ctr_create_container(a)
      [] m = "Containers/Delete" -> containers_delete(a)
      [] m = "Tasks/Create"      -> tasks_create(a)
      [] m = "Tasks/Start"       -> cc_ctr_start_task(a)
      [] m = "Tasks/Kill"        -> cc_ctr_kill_task(a)
      [] m = "Tasks/Delete"      -> cc_ctr_delete_task(a)
      [] m = "Tasks/Get"         -> cc_ctr_get_task(a)
      [] m = "Tasks/Wait"        -> cc_ctr_wait_task(a)

If(c, status, e) == IF c THEN <<OK, e>> ELSE <<status, d>>

\* The daemon: the status of the call at label l, and the state it leaves.
Serve(l) ==
    LET m    == Method[l]
        dead == d.task \in {"none", "exited"}
    IN  CASE m = "Containers/Get"    -> If(d.ctr, NOT_FOUND, d)
          [] m = "Tasks/Get"         -> If(d.task # "none", NOT_FOUND, d)
          [] m = "Tasks/Kill"        -> If(~ dead, NOT_FOUND, IF l = "kill" THEN [d EXCEPT !.task = "killed"] ELSE d)
          [] m = "Tasks/Wait"        -> If(d.task = "exited", IF dead THEN NOT_FOUND ELSE "TIMEOUT", d)
          [] m = "Tasks/Delete"      -> If(d.task \in {"created", "exited"}, IF dead THEN NOT_FOUND ELSE PRECOND,
                                           [d EXCEPT !.task = "none"])
          [] m = "Snapshots/Remove"  -> If(d.snap # <<>>, NOT_FOUND, [d EXCEPT !.snap = <<>>])
          [] m = "Snapshots/Prepare" -> If(d.snap = <<>>, EXISTS, [d EXCEPT !.snap = <<parent>>])
          [] m = "Snapshots/Mounts"  -> If(d.snap # <<>>, NOT_FOUND, d)
          [] m = "Containers/Delete" -> If(d.ctr, NOT_FOUND, [d EXCEPT !.ctr = FALSE])
          [] m = "Containers/Create" -> If(~ d.ctr, EXISTS, [d EXCEPT !.ctr = TRUE])
          [] m = "Tasks/Create"      -> If(d.task = "none", EXISTS, [d EXCEPT !.task = "created"])
          [] m = "Tasks/Start"       -> If(d.task = "created", IF dead THEN NOT_FOUND ELSE PRECOND,
                                           [d EXCEPT !.task = "running"])
          [] OTHER                   -> <<OK, d>>

\* An answer at label l leads to <<next label>> or to the result <<"ret", st>>.
Goto(l)    == <<l, OK>>
Ret(st)    == <<"ret", st>>
Then(st, l) == IF st = OK THEN Goto(l) ELSE Ret(st)

\* cc_ctr_delete_container: refuse while there is a task, then the record's
\* snapshot, then the record.
cc_ctr_delete_container(l, st) ==
    CASE l = "dtask" -> IF st = OK THEN Ret(PRECOND) ELSE IF st = NOT_FOUND THEN Goto("dget") ELSE Ret(st)
      [] l = "dget"  -> Then(st, "dsnap")
      [] l = "dsnap" -> Then(st, "dctr")
      [] l = "dctr"  -> Ret(st)

\* Mutant: every failure of the wait counts as an exit.
ctr_stopWaitBlind(l, st) ==
    CASE l = "get"  -> IF st = NOT_FOUND THEN Ret(OK) ELSE Then(st, "task")
      [] l = "task" -> IF st = NOT_FOUND THEN Goto("dget") ELSE Then(st, "term")
      [] l = "term" -> IF st = NOT_FOUND THEN Goto("wait") ELSE Then(st, "wait")
      [] l = "wait" -> Goto("dget")
      [] l = "kill" -> Then(st, "del")
      [] l = "del"  -> IF st = NOT_FOUND THEN Goto("dtask") ELSE Then(st, "dtask")

ctr_stop(l, st) ==
    CASE l = "get"  -> IF st = NOT_FOUND THEN Ret(OK) ELSE Then(st, "task")
      [] l = "task" -> IF st = NOT_FOUND THEN Goto("dtask") ELSE Then(st, "term")
      [] l = "term" -> IF st = NOT_FOUND THEN Goto("wait") ELSE Then(st, "wait")
      [] l = "wait" -> IF st = OK THEN Goto("del") ELSE IF st = NOT_FOUND THEN Goto("dtask") ELSE Goto("kill")
      [] l = "kill" -> Then(st, "del")
      [] l = "del"  -> IF st = NOT_FOUND THEN Goto("dtask") ELSE Then(st, "dtask")

cc_ctr_resolve_chainid(l, st) ==
    CASE l = "image"    -> Then(st, "manifest")
      [] l = "manifest" -> Then(st, "config")
      [] l = "config"   -> Then(st, "prepare")

cc_ctr_create_task(l, st) ==
    CASE l = "tget"     -> Then(st, "tmounts")
      [] l = "tmounts"  -> Then(st, "tspec")
      [] l = "tspec"    -> Then(st, "truntime")
      [] l = "truntime" -> Then(st, "tcreate")
      [] l = "tcreate"  -> Then(st, "tstart")

\* The whole operation: start runs stop first, and goes on where it returned.
ctr_start(l, st) ==
    CASE l = "prepare" -> Then(st, "create")
      [] l = "create"  -> Then(st, "tget")
      [] l = "tstart"  -> Ret(st)
      [] l \in {"image", "manifest", "config"} -> cc_ctr_resolve_chainid(l, st)
      [] l \in {"tget", "tmounts", "tspec", "truntime", "tcreate"} -> cc_ctr_create_task(l, st)

StopLabels == {"get", "task", "term", "wait", "kill", "del"}
DeleteLabels == {"dtask", "dget", "dsnap", "dctr"}

Continue(l, st) ==
    IF l \notin StopLabels \cup DeleteLabels THEN ctr_start(l, st)
    ELSE LET s == IF l \in StopLabels THEN ctr_stop(l, st) ELSE cc_ctr_delete_container(l, st)
         IN  IF op = "start" /\ s = Ret(OK) THEN Goto("image") ELSE s

Init ==
    /\ d = [snap |-> <<>>, ctr |-> FALSE, task |-> "none"]
    /\ desired = "start" /\ op = "none" /\ pc = "idle" /\ rc = "NONE"
    /\ parent = <<>> /\ faults = 0 /\ changes = 0

Change ==
    /\ changes < MaxChanges
    /\ desired' = IF desired = "start" THEN "stop" ELSE "start"
    /\ changes' = changes + 1
    /\ UNCHANGED <<d, op, pc, rc, parent, faults>>

\* cc_ctr_apply, until the desired state was applied with success.
cc_ctr_apply ==
    /\ pc = "idle" /\ ~ (op = desired /\ rc = OK)
    /\ op' = desired /\ pc' = "get" /\ rc' = "NONE"
    /\ UNCHANGED <<d, desired, parent, faults, changes>>

Advance(answer) ==
    LET st == Result(Method[pc], answer)
        n  == Continue(pc, st)
    IN  /\ pc' = IF n[1] = "ret" THEN "idle" ELSE n[1]
        /\ rc' = IF n[1] = "ret" THEN n[2] ELSE rc
        /\ parent' = IF pc = "config" /\ st = OK THEN ChainId(DiffIds) ELSE parent
        /\ UNCHANGED <<desired, op, changes>>

Unary ==
    /\ pc # "idle"
    /\ Advance(Serve(pc)[1]) /\ d' = Serve(pc)[2]
    /\ UNCHANGED faults

\* A refused call, a lost answer, an answer that cannot be used.
Fault ==
    /\ pc # "idle" /\ Method[pc] \in Faulty /\ faults < MaxFaults
    /\ faults' = faults + 1
    /\ \/ Advance("UNAVAILABLE") /\ UNCHANGED d
       \/ Advance("TIMEOUT") /\ d' = Serve(pc)[2]
       \/ /\ Serve(pc)[1] = OK /\ d' = Serve(pc)[2]
          /\ \E a \in {"garbled", "oversized"} : Result(Method[pc], a) # OK /\ Advance(a)

\* The process ends by itself, by SIGTERM, or, in time, by SIGKILL.
TaskExits ==
    /\ d.task \in {"running", "killed"}
    /\ d' = [d EXCEPT !.task = "exited"]
    /\ UNCHANGED <<desired, op, pc, rc, parent, faults, changes>>

Next == Change \/ cc_ctr_apply \/ Unary \/ Fault \/ TaskExits

\* Calls return, the loop retries, and a killed process ends.
Fairness ==
    /\ WF_vars(cc_ctr_apply \/ Unary)
    /\ WF_vars(d.task = "killed" /\ TaskExits)

Spec == Init /\ [][Next]_vars /\ Fairness

(* An operation that reports success has done its work: a start left a       *)
(* container whose snapshot is chained on the image's layers and whose task  *)
(* was started; a stop left neither container nor task.                      *)
OkMeansDone ==
    pc = "idle" /\ rc = OK =>
      IF op = "start" THEN d.ctr /\ d.snap = <<ChainId(DiffIds)>> /\ d.task \in {"running", "exited"}
      ELSE ~ d.ctr /\ d.task = "none"

\* The desired state was applied with success.
Applied == pc = "idle" /\ op = desired /\ rc = OK
=============================================================================
