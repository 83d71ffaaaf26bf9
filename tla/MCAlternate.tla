---------------------------- MODULE MCAlternate -----------------------------
(***************************************************************************)
(* The alternate controller: the state machine under signals, lost           *)
(* connections and late events ("run"); the same without a signal, where it  *)
(* has to reach its desired states ("settle"); the same over more requests   *)
(* and late events, with nothing else going wrong ("late"); and the calls of  *)
(* one of its operations ("ctr"), with variables of their own.               *)
(***************************************************************************)
EXTENDS CcState

CONSTANTS Parts,               \* the machines to run
          CallFaults           \* bound: failing calls of "ctr"

VARIABLES part, d, want, op, opc, rc, parent, failed, changes

opVars  == <<d, want, op, opc, rc, parent, failed, changes>>
allVars == <<part, vars, opVars>>

\* No client, no signal, and events that take no longer than a poll waits.
ST == INSTANCE CcState WITH
    Clients <- {}, Losses <- {"ended"}, Late <- FALSE, MaySignal <- FALSE, MaxRequests <- 2,
    MaxExits <- 1, MaxFaults <- 1

\* Nothing goes wrong, but an event may be late.
LT == INSTANCE CcState WITH
    Clients <- {}, Losses <- {}, Late <- TRUE, MaySignal <- FALSE, MaxRequests <- 4,
    MaxExits <- 0, MaxFaults <- 0

\* A leftover that no retry removes comes from the methods left out.
Faulty == {"Containers/Get", "Tasks/Get", "Tasks/Kill", "Tasks/Wait", "Tasks/Delete", "Images/Get",
           "Content/Read", "Snapshots/Mounts", "Tasks/Create", "Tasks/Start"}

CC == INSTANCE CcCtr WITH
    DiffIds <- <<"l1", "l2", "l3">>, MaxFaults <- CallFaults, MaxChanges <- 2,
    desired <- want, pc <- opc, faults <- failed

OpIdle == d = 0 /\ want = 0 /\ op = 0 /\ opc = 0 /\ rc = 0 /\ parent = 0 /\ failed = 0 /\ changes = 0

MCInit ==
    /\ part \in Parts
    /\ \/ part = "run" /\ Init /\ OpIdle
       \/ part = "settle" /\ ST!Init /\ OpIdle
       \/ part = "late" /\ LT!Init /\ OpIdle
       \/ part = "ctr" /\ Init /\ single /\ stream = "open" /\ pc = "top" /\ CC!Init

\* A step of one of the machines.
InRun(S)    == part = "run" /\ S /\ UNCHANGED <<part, opVars>>
InSettle(S) == part = "settle" /\ S /\ UNCHANGED <<part, opVars>>
InLate(S)   == part = "late" /\ S /\ UNCHANGED <<part, opVars>>
InCtr(S)    == part = "ctr" /\ S /\ UNCHANGED <<part, vars>>

MCNext == InRun(Next) \/ InSettle(ST!Next) \/ InLate(LT!Next) \/ InCtr(CC!Next)

\* The fairness of every machine.  One machine runs, so a conjunct may stand for
\* an action of each.
MCFairness ==
    /\ WF_allVars(InRun(Thread) \/ InSettle(ST!Thread) \/ InCtr(CC!cc_ctr_apply \/ CC!Unary))
    /\ WF_allVars(InRun(Expiry) \/ InSettle(ST!Expiry) \/ InCtr(d.task = "killed" /\ CC!TaskExits))
    /\ SF_allVars(InRun(Deliver) \/ InSettle(ST!Deliver))
    /\ SF_allVars(InRun(PollEnd) \/ InSettle(ST!PollEnd))

MCSpec == MCInit /\ [][MCNext]_allVars /\ MCFairness

-----------------------------------------------------------------------------
(* What is reported is true.  At rest, with every event applied, the status   *)
(* says of each stage what its task does, as long as no task has exited by    *)
(* itself and no operation has failed.  And an operation that reports success *)
(* has done its work: a start left a container whose snapshot is chained on   *)
(* the image's layers and whose task was started; a stop left neither         *)
(* container nor task.                                                        *)
ReportsTrue == StatusSettles /\ (part = "ctr" => CC!OkMeansDone)

(* Without a signal the desired states are reached for good, also when the    *)
(* event stream has ended and only the in-flight timeout frees a stage; once  *)
(* calls stop failing, an operation reaches its end by being run again; and a *)
(* signal ends the program.                                                   *)
Converges ==
    /\ <>[](CASE part = "settle" -> ST!AtDesired
              [] part = "ctr"    -> CC!Applied
              [] OTHER           -> TRUE)
    /\ ShutdownCompletes
=============================================================================
