----------------------------- MODULE MCProcess -----------------------------
(***************************************************************************)
(* The programs from start to end: main.c (Lifecycle), the dependency tool  *)
(* (DepsCache), the Go controller, the publish hook and the DDNS check.  A   *)
(* behaviour picks a program and runs it.  The last three share the        *)
(* variables v1 .. v16.                                                    *)
(***************************************************************************)
EXTENDS Lifecycle, DepsCache

CONSTANTS Parts,               \* the programs to run
          GoRequests, GoTicks  \* bounds of the Go controller

VARIABLES part, v1, v2, v3, v4, v5, v6, v7, v8, v9, v10, v11, v12, v13, v14, v15, v16

\* Two network-backed dependencies, one without a resolver, one answered locally.
MCDeps == <<"a", "n", "b", "l">>
MCKind == [d \in {"a", "b", "n", "l"} |-> CASE d = "n" -> "nomatch" [] d = "l" -> "local" [] OTHER -> "net"]

\* The egress stage of the Go controller, driven by commands.
GoTarget(s, state, ready) == [stage |-> s, state |-> state, needsReady |-> ready]
GoPathRoutes == [x \in {} |-> GoTarget("", "", FALSE)]
GoCommandRoutes == [a \in {"start", "stop"} |-> GoTarget("egress", IF a = "start" THEN "running" ELSE "stopped", a = "start")]

\* The hook, called in every way.
NotifyCalls == [args : {1, 2}, safe : BOOLEAN, env : {"unset", "port", "bad"},
                file : {"absent", "malformed", "port", "bad"}, fits : BOOLEAN]

GC == INSTANCE GoController WITH
    Stages <- {"egress"}, PathRoutes <- GoPathRoutes, CommandRoutes <- GoCommandRoutes,
    Clients <- {"w1"}, Cap <- 1, InflightTimeout <- 1, MaxClock <- 1, MaxRequests <- GoRequests,
    MaxTicks <- GoTicks, MaxFaults <- 1, path <- v1, stage <- v2, chan <- v3, closed <- v4, pend <- v5,
    ops <- v6, teardown <- v7, ctr <- v8, events <- v9, alive <- v10, phase <- v11, clock <- v12,
    requests <- v13, ticks <- v14, faults <- v15, panicked <- v16
NF == INSTANCE Notify WITH
    Hooks <- {"h"}, Calls <- NotifyCalls, REQUEST_LEN <- 3, RESPONSE_CAP <- 4, call <- v1, pc <- v2,
    sent <- v3, got <- v4, rc <- v5, conn <- v6, answer <- v7, taken <- v8
DD == INSTANCE Ddns WITH
    Names <- {"n1", "n2"}, Addrs <- {"a1", "a2"}, MaxAddrs <- 2, DNS_TRIES <- 2, DEFAULT_TRIES <- 3,
    MAX_NS_IPS <- 3, Settings <- {}, Outcomes <- {}, opts <- v1, pc <- v2, query <- v3, nslist <- v4,
    ns_ips <- v5, via <- v6, out <- v7, lines <- v8, rc <- v9, set <- v1, outcome <- v2, wire <- v3,
    reply <- v4, upc <- v5, urc <- v6

\* The variables after the first n, and that they are unused.
t9 == <<v10, v11, v12, v13, v14, v15, v16>>
t8 == <<v9, t9>>
t0 == <<v1, v2, v3, v4, v5, v6, v7, v8, t8>>
z9 == v10 = 0 /\ v11 = 0 /\ v12 = 0 /\ v13 = 0 /\ v14 = 0 /\ v15 = 0 /\ v16 = 0
z8 == v9 = 0 /\ z9
z0 == v1 = 0 /\ v2 = 0 /\ v3 = 0 /\ v4 = 0 /\ v5 = 0 /\ v6 = 0 /\ v7 = 0 /\ v8 = 0 /\ z8

goVars     == GC!vars
allVars    == <<part, vars, cacheVars, t0>>

MCInit ==
    /\ part \in Parts /\ Init /\ CacheInit
    /\ \/ part \in {"main", "deps"} /\ z0
       \/ part = "go" /\ GC!Init
       \/ part = "notify" /\ NF!Init /\ z8
       \/ part = "ddns" /\ DD!CheckInit /\ z9

\* A step of one of the programs.
InMain(A) == part = "main" /\ A /\ UNCHANGED <<part, cacheVars, t0>>
InDeps(A) == part = "deps" /\ A /\ UNCHANGED <<part, vars, t0>>
InGo(A)   == part = "go" /\ A /\ UNCHANGED <<part, vars, cacheVars>>

MCNext ==
    \/ InMain(Next) \/ InDeps(CacheNext) \/ InGo(GC!Next)
    \/ part = "notify" /\ NF!Next /\ UNCHANGED <<part, vars, cacheVars, t8>>
    \/ part = "ddns" /\ DD!CheckNext /\ UNCHANGED <<part, vars, cacheVars, t9>>

\* The fairness of every program.  One program runs, so a conjunct may stand for
\* an action of each.
MCFairness ==
    /\ WF_allVars(\/ InMain(Main) \/ InDeps(Run) \/ InGo(GC!Run \/ GC!Teardown("egress"))
                  \/ part = "notify" /\ NF!Main("h") /\ UNCHANGED <<part, vars, cacheVars, t8>>
                  \/ part = "ddns" /\ DD!CheckNext /\ UNCHANGED <<part, vars, cacheVars, t9>>)
    /\ WF_allVars(InMain(QueueSteps) \/ InDeps(Work(1)))
    /\ WF_allVars(InMain(OpEnds) \/ InDeps(Work(2)))
    /\ SF_allVars(InMain(HttpStops) \/ InGo(GC!Sender("http")))
    /\ SF_allVars(InMain(ListenerExit) \/ InGo(GC!Sender("listener")))
    /\ SF_allVars(InMain(TickerExit) \/ InGo(GC!Sender("ticker")))
    /\ SF_allVars(InMain(QueueAnswer("http")) \/ InGo(GC!Sender("main")))
    /\ SF_allVars(InMain(QueueAnswer("listener")) \/ InGo(\E o \in v6 : GC!Op(o)))
    /\ SF_allVars(InMain(QueueAnswer("main")))

MCSpec == MCInit /\ [][MCNext]_allVars /\ MCFairness

-----------------------------------------------------------------------------
(* What the Go controller believes of a stage is the state of its task, up   *)
(* to the events on their way.                                               *)
BeliefFollows == part = "go" => GC!BeliefFollows

(* A helper's exit status tells what happened: a hook that exits 0 had its    *)
(* event applied exactly once; the DDNS check prints one authoritative        *)
(* address exactly when it succeeds, and asks only a server that the domain's *)
(* nameservers named.                                                         *)
ExitTellsTruth ==
    /\ part = "notify" => NF!ExitMeansTaken
    /\ part = "ddns" => DD!OneAnswerOrNothing /\ DD!NamedBeforeAsked

\* When a program has to end, and that it has.
Due  == \/ part = "main" /\ g_sig_flag
        \/ part = "deps" /\ phase \in {"feed", "wait", "save", "rename"}
        \/ part = "go" /\ v11 = "signalled"
        \/ part \in {"notify", "ddns"}
Over == \/ part = "main" /\ pc = "returned"
        \/ part = "deps" /\ phase \in {"idle", "report"}
        \/ part = "go" /\ (v11 = "exited" \/ v16)
        \/ part = "notify" /\ v2["h"] = "done"
        \/ part = "ddns" /\ v2 = "done"

(* Every program ends: main.c once a signal came, whatever its threads are    *)
(* doing; the Go controller after its signal, however full its channel was;   *)
(* a run of the dependency tool, a hook and a DDNS check once started.        *)
EveryProgramEnds == Due ~> Over
=============================================================================
