---------------------------- MODULE MCController ----------------------------
(* The single-stage pipeline main.c can be configured with.                  *)
EXTENDS Controller

CONSTANTS ingress0, none

\* mediamtx is wanted from the start and has no route,
\* egress follows the control commands and starts only once ingress0 is ready.
Egress   == NStages

EgressRoutes ==
    [cmd \in {"start", "stop"} |->
        [stage |-> Egress,
         state |-> IF cmd = "start" THEN "running" ELSE "stopped",
         prereq |-> IF cmd = "start" THEN ingress0 ELSE none]]

PipelineDesired ==
    [s \in Stages |-> IF s # Egress THEN "running" ELSE "stopped"]

NoRoutes == [k \in {} |-> k]
=============================================================================
