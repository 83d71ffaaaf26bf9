----------------------------- MODULE MCStageOps -----------------------------
(* One stage, with what an earlier controller may have left of it.           *)
EXTENDS StageOps

CONSTANTS ingress0, none

MediaMtxDesired  == [s \in Stages |-> "running"]
NormalizeDesired == [s \in Stages |-> "stopped"]

\* The normalize stage follows the ingress0 path.
NormalizeRoutes ==
    [k \in {ingress0} \X {"ready", "not_ready"} |->
        [stage |-> 1,
         state |-> IF k[2] = "ready" THEN "running" ELSE "stopped",
         prereq |-> none]]

NoRoutes == [k \in {} |-> k]

CleanStart == {Nothing}

\* A task that runs on or has exited; an op that fails leaves the other remains.
TaskLeftover ==
    {Nothing} \cup {[container |-> TRUE, snapshot |-> TRUE, task |-> t] : t \in {"running", "exited"}}
=============================================================================
