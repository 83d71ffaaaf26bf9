----------------------------- MODULE Lifecycle ------------------------------
(***************************************************************************)
(* run() of core/controller/c/main.c: start-up, the four threads it spawns,  *)
(* orderly shutdown, and the path taken when a thread cannot be created.     *)
(*                                                                         *)
(* The objects (containerd client, controller, HTTP server) are plain heap   *)
(* objects shared by pointer; nothing but the order of run()'s joins and     *)
(* destroys keeps them alive for their users.  The queue is reduced to who   *)
(* is blocked in queue_submit; its monitor is module ActionQueue.  Ops are   *)
(* a count of jobs handed to the worker pool.                                *)
(***************************************************************************)
EXTENDS Naturals, FiniteSets

CONSTANT MaxJobs   \* bound: stage ops handed to the pool at once

ASSUME JobsAssumption == MaxJobs \in Nat

Threads == {"queue", "listener", "ticker", "http"}
Objects == {"client", "controller", "server"}
Callers == {"http", "listener", "main"}   \* who calls queue_submit

VARIABLES
    pc,                  \* where main is in run()
    rc,                  \* what run() will return
    thr,                 \* a thread: "none", "run", "stopping" or "exited"
    obj,                 \* an object: "none", "live" or "freed"
    g_sig_flag, g_http_fatal,
    shutdown_requested,  \* strim_http_server's flag
    subscribers,         \* TRUE while a WebSocket client is registered
    shutting_down, q_closed, reconcile_queued,   \* the controller's flags
    blocked,             \* callers waiting for the reply of queue_submit
    jobs,                \* ops in the pool, queued or running
    torn                 \* Teardown has run

vars == <<pc, rc, thr, obj, g_sig_flag, g_http_fatal, shutdown_requested,
          subscribers, shutting_down, q_closed, reconcile_queued, blocked,
          jobs, torn>>
flags == <<g_sig_flag, g_http_fatal, shutdown_requested, subscribers>>
queue == <<shutting_down, q_closed, reconcile_queued, blocked, jobs, torn>>

Init ==
    /\ pc = "connect" /\ rc = 0
    /\ thr = [t \in Threads |-> "none"]
    /\ obj = [o \in Objects |-> "none"]
    /\ g_sig_flag = FALSE /\ g_http_fatal = FALSE
    /\ shutdown_requested = FALSE /\ subscribers = FALSE
    /\ shutting_down = FALSE /\ q_closed = FALSE /\ reconcile_queued = FALSE
    /\ blocked = {} /\ jobs = 0 /\ torn = FALSE

------------------------------------------------------------------------------
\* Start-up.  A configuration error, a bad socket path or lack of memory ends
\* run() before anything exists.
ConnectFails ==
    /\ pc = "connect"
    /\ pc' = "returned" /\ rc' = 1
    /\ UNCHANGED <<thr, obj, flags, queue>>

Connect ==
    /\ pc = "connect"
    /\ pc' = "new" /\ obj' = [obj EXCEPT !["client"] = "live"]
    /\ UNCHANGED <<rc, thr, flags, queue>>

NewFails ==
    /\ pc = "new"
    /\ pc' = "close_client" /\ rc' = 1
    /\ UNCHANGED <<thr, obj, flags, queue>>

New ==
    /\ pc = "new"
    /\ pc' = "start" /\ obj' = [obj EXCEPT !["controller"] = "live"]
    /\ UNCHANGED <<rc, thr, flags, queue>>

StartFails ==
    /\ pc = "start"
    /\ pc' = "destroy_controller" /\ rc' = 1
    /\ UNCHANGED <<thr, obj, flags, queue>>

Start ==
    /\ pc = "start"
    /\ pc' = "spawn_queue" /\ obj' = [obj EXCEPT !["server"] = "live"]
    /\ UNCHANGED <<rc, thr, flags, queue>>

\* The four pthread_create calls, in this order.
Spawn(at, t, then) ==
    /\ pc = at
    /\ pc' = then /\ thr' = [thr EXCEPT ![t] = "run"]
    /\ UNCHANGED <<rc, obj, flags, queue>>

SpawnAny ==
    \/ Spawn("spawn_queue", "queue", "spawn_listener")
    \/ Spawn("spawn_listener", "listener", "spawn_ticker")
    \/ Spawn("spawn_ticker", "ticker", "spawn_http")
    \/ Spawn("spawn_http", "http", "serve")

\* thread_fail: g_sig_flag is set so that the threads that did start exit.
\* The HTTP thread is created last, so it is never up here.
ThreadFail ==
    /\ pc \in {"spawn_queue", "spawn_listener", "spawn_ticker", "spawn_http"}
    /\ pc' = "join_ticker" /\ rc' = 1
    /\ g_sig_flag' = TRUE
    /\ UNCHANGED <<thr, obj, g_http_fatal, shutdown_requested, subscribers,
                   queue>>

------------------------------------------------------------------------------
\* on_shutdown_signal; the handlers are installed before Connect.
SignalArrives ==
    /\ ~g_sig_flag /\ pc # "returned"
    /\ g_sig_flag' = TRUE
    /\ UNCHANGED <<pc, rc, thr, obj, g_http_fatal, shutdown_requested,
                   subscribers, queue>>

\* The HTTP thread: requests block in queue_submit until the queue thread has
\* answered; on success dispatch_post also requests a reconcile.  A loop tests
\* its flag once per pass: the pass under way still makes its calls.
CanSubmit(t) == t \notin blocked /\ ~q_closed

HttpRequest ==
    /\ thr["http"] = "run" /\ CanSubmit("http")
    /\ blocked' = blocked \cup {"http"}
    /\ reconcile_queued' \in {reconcile_queued, TRUE}
    /\ UNCHANGED <<pc, rc, thr, obj, flags, shutting_down, q_closed, jobs,
                   torn>>

\* /subscribe: ws_upgrade_handler registers a listener.
HttpSubscribe ==
    /\ thr["http"] = "run" /\ CanSubmit("http")
    /\ subscribers' = TRUE
    /\ blocked' = blocked \cup {"http"}
    /\ UNCHANGED <<pc, rc, thr, obj, g_sig_flag, g_http_fatal,
                   shutdown_requested, shutting_down, q_closed,
                   reconcile_queued, jobs, torn>>

\* MHD_run_wait fails: the service loop returns at once, its clients and
\* their listeners stay registered.
HttpFatal ==
    /\ thr["http"] = "run" /\ "http" \notin blocked
    /\ thr' = [thr EXCEPT !["http"] = "exited"]
    /\ g_http_fatal' = TRUE
    /\ UNCHANGED <<pc, rc, obj, g_sig_flag, shutdown_requested, subscribers,
                   queue>>

\* The loop sees shutdown_requested: MHD_stop_daemon completes every upgraded
\* request, and each completion removes a listener through the queue.
HttpLeaveLoop ==
    /\ thr["http"] = "run" /\ "http" \notin blocked /\ shutdown_requested
    /\ thr' = [thr EXCEPT !["http"] = "stopping"]
    /\ UNCHANGED <<pc, rc, obj, flags, queue>>

HttpUnsubscribe ==
    /\ thr["http"] = "stopping" /\ CanSubmit("http") /\ subscribers
    /\ subscribers' = FALSE
    /\ blocked' = blocked \cup {"http"}
    /\ UNCHANGED <<pc, rc, thr, obj, g_sig_flag, g_http_fatal,
                   shutdown_requested, shutting_down, q_closed,
                   reconcile_queued, jobs, torn>>

HttpExit ==
    /\ thr["http"] = "stopping" /\ "http" \notin blocked /\ ~subscribers
    /\ thr' = [thr EXCEPT !["http"] = "exited"]
    /\ UNCHANGED <<pc, rc, obj, flags, queue>>

\* The containerd listener submits a stage event ...
ListenerSubmit ==
    /\ thr["listener"] = "run" /\ CanSubmit("listener")
    /\ blocked' = blocked \cup {"listener"}
    /\ UNCHANGED <<pc, rc, thr, obj, flags, shutting_down, q_closed,
                   reconcile_queued, jobs, torn>>

\* ... leaves its loop on g_sig_flag, within one 250 ms poll ...
ListenerExit ==
    /\ thr["listener"] = "run" /\ "listener" \notin blocked /\ g_sig_flag
    /\ thr' = [thr EXCEPT !["listener"] = "exited"]
    /\ UNCHANGED <<pc, rc, obj, flags, queue>>

\* ... and also when the subscription or the stream fails, for good.
ListenerGivesUp ==
    /\ thr["listener"] = "run" /\ "listener" \notin blocked
    /\ thr' = [thr EXCEPT !["listener"] = "exited"]
    /\ UNCHANGED <<pc, rc, obj, flags, queue>>

TickerRequest ==
    /\ thr["ticker"] = "run" /\ ~q_closed
    /\ reconcile_queued' = TRUE
    /\ UNCHANGED <<pc, rc, thr, obj, flags, shutting_down, q_closed, blocked,
                   jobs, torn>>

\* The ticker tests g_sig_flag only.
TickerExit ==
    /\ thr["ticker"] = "run" /\ g_sig_flag
    /\ thr' = [thr EXCEPT !["ticker"] = "exited"]
    /\ UNCHANGED <<pc, rc, obj, flags, queue>>

------------------------------------------------------------------------------
\* The queue thread answers a blocked caller; main's call is the Teardown.
QueueAnswer(c) ==
    /\ thr["queue"] = "run" /\ c \in blocked
    /\ blocked' = blocked \ {c}
    /\ torn' = (torn \/ c = "main")
    /\ UNCHANGED <<pc, rc, thr, obj, flags, shutting_down, q_closed,
                   reconcile_queued, jobs>>

\* A reconcile pass fires any number of ops, none once shutting_down is set.
QueueReconcile ==
    /\ thr["queue"] = "run" /\ reconcile_queued
    /\ reconcile_queued' = FALSE
    /\ jobs' \in IF shutting_down THEN {jobs} ELSE jobs .. MaxJobs
    /\ UNCHANGED <<pc, rc, thr, obj, flags, shutting_down, q_closed, blocked,
                   torn>>

\* strim_controller_run returns: closed and drained.
QueueExit ==
    /\ thr["queue"] = "run" /\ q_closed
    /\ blocked = {} /\ ~reconcile_queued
    /\ thr' = [thr EXCEPT !["queue"] = "exited"]
    /\ UNCHANGED <<pc, rc, obj, flags, queue>>

\* A worker finishes an op (run_stage_op, then wg_done).
OpEnds ==
    /\ jobs > 0
    /\ jobs' = jobs - 1
    /\ UNCHANGED <<pc, rc, thr, obj, flags, shutting_down, q_closed,
                   reconcile_queued, blocked, torn>>

------------------------------------------------------------------------------
\* main leaves its 100 ms poll and asks the HTTP server to stop.
LeaveServe ==
    /\ pc = "serve" /\ (g_sig_flag \/ g_http_fatal)
    /\ shutdown_requested' = TRUE
    /\ pc' = "join_http"
    /\ UNCHANGED <<rc, thr, obj, g_sig_flag, g_http_fatal, subscribers, queue>>

\* pthread_join returns once the thread has ended; thread_fail joins only the
\* threads that came up.
Join(at, t, then) ==
    /\ pc = at /\ thr[t] \in {"none", "exited"}
    /\ pc' = then
    /\ UNCHANGED <<rc, thr, obj, flags, queue>>

\* Mutant: the listener is not joined.
JoinListenerSkipped ==
    /\ pc = "join_listener"
    /\ pc' = IF rc = 0 THEN "begin_shutdown"
             ELSE IF thr["queue"] = "none" THEN "destroy_server" ELSE "close"
    /\ UNCHANGED <<rc, thr, obj, flags, queue>>

\* After the listener the two paths part: thread_fail neither waits for ops
\* nor tears down, and closes the queue only if its thread is up.
JoinListener ==
    Join("join_listener", "listener",
         IF rc = 0 THEN "begin_shutdown"
         ELSE IF thr["queue"] = "none" THEN "destroy_server" ELSE "close")

BeginShutdown ==
    /\ pc = "begin_shutdown"
    /\ shutting_down' = TRUE
    /\ pc' = "wait_for_ops"
    /\ UNCHANGED <<rc, thr, obj, flags, q_closed, reconcile_queued, blocked,
                   jobs, torn>>

WaitForOps ==
    /\ pc = "wait_for_ops" /\ jobs = 0
    /\ pc' = "teardown"
    /\ UNCHANGED <<rc, thr, obj, flags, queue>>

Teardown ==
    /\ pc = "teardown"
    /\ blocked' = blocked \cup {"main"}
    /\ pc' = "torn"
    /\ UNCHANGED <<rc, thr, obj, flags, shutting_down, q_closed,
                   reconcile_queued, jobs, torn>>

TeardownReturns ==
    /\ pc = "torn" /\ "main" \notin blocked
    /\ pc' = "close"
    /\ UNCHANGED <<rc, thr, obj, flags, queue>>

Close ==
    /\ pc = "close"
    /\ shutting_down' = TRUE /\ q_closed' = TRUE
    /\ pc' = "join_queue"
    /\ UNCHANGED <<rc, thr, obj, flags, reconcile_queued, blocked, jobs, torn>>

\* strim_http_server_destroy.  After a fatal error the daemon still runs and
\* its subscribers are unregistered here, from main; the closed queue refuses
\* those calls instead of blocking.
DestroyServer ==
    /\ pc = "destroy_server"
    /\ subscribers => q_closed
    /\ subscribers' = FALSE
    /\ obj' = [obj EXCEPT !["server"] = "freed"]
    /\ pc' = "destroy_controller"
    /\ UNCHANGED <<rc, thr, g_sig_flag, g_http_fatal, shutdown_requested,
                   queue>>

\* Mutant: the pool is not drained and joined before the controller is freed.
DestroyControllerUndrained ==
    /\ pc = "destroy_controller"
    /\ obj' = [obj EXCEPT !["controller"] = "freed"]
    /\ pc' = "close_client"
    /\ UNCHANGED <<rc, thr, flags, queue>>

\* workerpool_shutdown returns: the workers leave once the queue of jobs is
\* empty, so all jobs have been run when they are joined.
PoolDrained == jobs = 0

\* strim_controller_destroy.
DestroyController ==
    /\ pc = "destroy_controller" /\ PoolDrained
    /\ obj' = [obj EXCEPT !["controller"] = "freed"]
    /\ pc' = "close_client"
    /\ UNCHANGED <<rc, thr, flags, queue>>

CloseClient ==
    /\ pc = "close_client"
    /\ obj' = [obj EXCEPT !["client"] = "freed"]
    /\ pc' = "returned"
    /\ UNCHANGED <<rc, thr, flags, queue>>

Shutdown ==
    \/ LeaveServe
    \/ Join("join_http", "http", "join_ticker")
    \/ Join("join_ticker", "ticker", "join_listener")
    \/ JoinListener
    \/ BeginShutdown \/ WaitForOps \/ Teardown \/ TeardownReturns \/ Close
    \/ Join("join_queue", "queue", "destroy_server")
    \/ DestroyServer \/ DestroyController \/ CloseClient

Main ==
    \/ ConnectFails \/ Connect \/ NewFails \/ New \/ StartFails \/ Start
    \/ SpawnAny \/ ThreadFail \/ Shutdown

HttpStops  == HttpLeaveLoop \/ HttpUnsubscribe \/ HttpExit
QueueSteps == QueueReconcile \/ QueueExit \/ \E c \in Callers : QueueAnswer(c)

Next ==
    \/ Main \/ SignalArrives
    \/ HttpRequest \/ HttpSubscribe \/ HttpFatal \/ HttpStops
    \/ ListenerSubmit \/ ListenerExit \/ ListenerGivesUp
    \/ TickerRequest \/ TickerExit
    \/ QueueSteps \/ OpEnds

Spec == Init /\ [][Next]_vars

\* Every thread that can go on is scheduled.  Nothing obliges a signal to
\* come, a request to be made, or a server to fail.  OpEnds is fair because
\* every call of an op carries a deadline.  Queue actions are served in turn.
\* A loop comes back to the test of its flag after every pass, so leaving it
\* is strongly fair: the passes in between may block in queue_submit.
Fairness ==
    /\ WF_vars(Main)
    /\ SF_vars(HttpStops) /\ SF_vars(ListenerExit) /\ SF_vars(TickerExit)
    /\ WF_vars(QueueSteps) /\ \A c \in Callers : WF_vars(QueueAnswer(c))
    /\ WF_vars(OpEnds)

FairSpec == Spec /\ Fairness

------------------------------------------------------------------------------
LTypeOK ==
    /\ rc \in {0, 1}
    /\ thr \in [Threads -> {"none", "run", "stopping", "exited"}]
    /\ obj \in [Objects -> {"none", "live", "freed"}]
    /\ {g_sig_flag, g_http_fatal, shutdown_requested, subscribers,
        shutting_down, q_closed, reconcile_queued, torn} \subseteq BOOLEAN
    /\ blocked \subseteq Callers
    /\ jobs \in 0 .. MaxJobs

\* The objects a running thread reaches: the queue thread pushes status into
\* the server and stops tasks in Teardown; workers post clears to the queue.
Uses(t) == CASE t = "queue"    -> Objects
             [] t = "listener" -> {"client", "controller"}
             [] t = "ticker"   -> {"controller"}
             [] t = "http"     -> {"server", "controller"}

\* No object is freed, or not yet there, while a thread or an op can reach it:
\* the order of joins and destroys in run(), on both of its ways out, is the
\* only thing that prevents a use after free.
UsersHoldLiveObjects ==
    /\ \A t \in Threads :
          thr[t] \in {"run", "stopping"} => \A o \in Uses(t) : obj[o] = "live"
    /\ jobs > 0 => obj["controller"] = "live" /\ obj["client"] = "live"
    /\ blocked # {} => thr["queue"] = "run"

\* When run() returns, whatever the way: no thread is left, no op is left,
\* every object that was built is freed; and it returns 0 only after Teardown.
ReturnsClean ==
    pc = "returned" =>
        /\ \A t \in Threads : thr[t] \in {"none", "exited"}
        /\ \A o \in Objects : obj[o] # "live"
        /\ jobs = 0 /\ blocked = {} /\ ~subscribers
        /\ rc = 0 => torn

=============================================================================
