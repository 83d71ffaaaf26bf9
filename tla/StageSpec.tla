----------------------------- MODULE StageSpec ------------------------------
EXTENDS Integers, Sequences, SequencesExt, FiniteSets

(***************************************************************************)
(* How run() wires the controller, in main.go and in main.c: the stages,    *)
(* the routes of the two pipelines, the checks of the constructors, and     *)
(* then the same requests given to both controllers.  Go keeps routes in    *)
(* maps, the port in arrays that are searched in order.                     *)
(***************************************************************************)

CONSTANTS BufferSizes, Timeouts, MaxInputs

VARIABLES wsingle, buffer, timeout, go, c, inputs, answer

wireVars == <<wsingle, buffer, timeout, go, c, inputs, answer>>

Paths    == {"ingress0", "normalized"}
Statuses == {"unknown", "ready", "notReady"}
States   == {"running", "stopped"}
WiredStages   == {"mediamtx", "normalize", "scale_and_egress", "single_stage_egress"}

Target(stage, state, needsReady) == [stage |-> stage, state |-> state, needsReady |-> needsReady]

\* main.go
goEgress == IF wsingle THEN "single_stage_egress" ELSE "scale_and_egress"
goPathRoutes ==
    IF wsingle THEN [k \in {} |-> k]
    ELSE [k \in {<<"ingress0", "ready">>, <<"ingress0", "notReady">>} |->
            Target("normalize", IF k[2] = "ready" THEN "running" ELSE "stopped", FALSE)]
goCommandRoutes ==
    [k \in {<<"egress", "start">>, <<"egress", "stop">>} |->
        IF k[2] = "start" THEN Target(goEgress, "running", TRUE) ELSE Target(goEgress, "stopped", FALSE)]
goStages == [s \in WiredStages |-> [desired |-> IF s = "mediamtx" THEN "running" ELSE "stopped", actual |-> "stopped", ops |-> States]]

\* main.c
Route(kind, k1, k2, target) == [kind |-> kind, key |-> <<k1, k2>>, target |-> target]
c_egress == IF wsingle THEN "single_stage_egress" ELSE "scale_and_egress"
c_path_routes ==
    IF wsingle THEN <<>>
    ELSE << Route("path", "ingress0", "ready", Target("normalize", "running", FALSE)),
            Route("path", "ingress0", "notReady", Target("normalize", "stopped", FALSE)) >>

c_control_routes ==
    << Route("control", "egress", "start", Target(c_egress, "running", TRUE)),
       Route("control", "egress", "stop", Target(c_egress, "stopped", FALSE)) >>
c_stages == [s \in WiredStages |-> [desired |-> IF s = "mediamtx" THEN "running" ELSE "stopped", actual |-> "stopped", ops |-> States]]

\* NewController: what it complains about.
NewController ==
    /\ \A s \in DOMAIN goStages : {goStages[s].desired, goStages[s].actual} \subseteq States
    /\ \A k \in DOMAIN goPathRoutes : k[1] \in Paths /\ k[2] \in Statuses
    /\ \A t \in Range(goPathRoutes) \cup Range(goCommandRoutes) :
          t.stage \in DOMAIN goStages /\ t.state \in goStages[t.stage].ops
    /\ timeout > 0

\* validate_and_copy_routes: the key, the target and its operation, no key twice.
validate_and_copy_routes(routes, kind) ==
    \A i \in DOMAIN routes :
       /\ routes[i].kind = kind
       /\ kind = "path" => routes[i].key[1] \in Paths /\ routes[i].key[2] \in Statuses
       /\ kind = "control" => routes[i].key[1] = "egress" /\ routes[i].key[2] \in {"start", "stop"}
       /\ routes[i].target.stage \in WiredStages /\ routes[i].target.state \in States
       /\ routes[i].target.state \in c_stages[routes[i].target.stage].ops
       /\ \A j \in 1..i - 1 : routes[j].key # routes[i].key

strim_controller_new ==
    /\ timeout > 0 /\ buffer > 0
    /\ \A s \in WiredStages : {c_stages[s].desired, c_stages[s].actual} \subseteq States
    /\ validate_and_copy_routes(c_path_routes, "path")
    /\ validate_and_copy_routes(c_control_routes, "control")

Started(ok, stages) ==
    [ok |-> ok, paths |-> [p \in Paths |-> "unknown"], desired |-> [s \in WiredStages |-> stages[s].desired]]

WireInit ==
    /\ wsingle \in BOOLEAN /\ buffer \in BufferSizes /\ timeout \in Timeouts
    /\ go = Started(NewController, goStages) /\ c = Started(strim_controller_new, c_stages)
    /\ inputs = 0 /\ answer = <<"none", "none">>

\* applyDesiredStageTarget: the new controller and the answer.
Apply(k, t) ==
    IF k.desired[t.stage] = t.state THEN <<k, "ok">>
    ELSE IF t.needsReady /\ k.paths["ingress0"] # "ready" THEN <<k, "error">>
    ELSE <<[k EXCEPT !.desired[t.stage] = t.state], "ok">>

goPathEvent(p, st) ==
    IF p \notin Paths \/ st \notin Statuses THEN <<go, "error">>
    ELSE LET k == [go EXCEPT !.paths[p] = st]
         IN  IF <<p, st>> \in DOMAIN goPathRoutes THEN Apply(k, goPathRoutes[<<p, st>>]) ELSE <<k, "ok">>
goControl(x, a) == IF <<x, a>> \in DOMAIN goCommandRoutes THEN Apply(go, goCommandRoutes[<<x, a>>]) ELSE <<go, "error">>

Find(routes, key) == SelectInSeq(routes, LAMBDA r : r.key = key)
handle_path_event(p, st) ==
    IF p \notin Paths \/ st \notin Statuses THEN <<c, "error">>
    ELSE LET k == [c EXCEPT !.paths[p] = st]
             i == Find(c_path_routes, <<p, st>>)
         IN  IF i = 0 THEN <<k, "ok">> ELSE Apply(k, c_path_routes[i].target)
handle_control(x, a) ==
    LET i == Find(c_control_routes, <<x, a>>) IN IF i = 0 THEN <<c, "error">> ELSE Apply(c, c_control_routes[i].target)

Both(g, p) == go' = g[1] /\ c' = p[1] /\ answer' = <<g[2], p[2]>>

PathEvent ==
    \E p \in Paths \cup {"other"}, st \in Statuses \cup {"other"} : Both(goPathEvent(p, st), handle_path_event(p, st))
Control ==
    \E x \in {"egress", "other"}, a \in {"start", "stop", "other"} : Both(goControl(x, a), handle_control(x, a))

WireNext ==
    /\ go.ok /\ c.ok /\ inputs < MaxInputs /\ inputs' = inputs + 1
    /\ PathEvent \/ Control
    /\ UNCHANGED <<wsingle, buffer, timeout>>

WireSpec == WireInit /\ [][WireNext]_wireVars

(* The two programs, wired for either pipeline, accept the same               *)
(* configurations and answer every sequence of requests alike, with the same *)
(* stages desired.                                                            *)
PortRoutes ==
    /\ buffer > 0 => go.ok = c.ok
    /\ go.ok /\ c.ok => go.desired = c.desired /\ go.paths = c.paths /\ answer[1] = answer[2]

(* No sequence of requests makes stages of both pipelines desired: the shared *)
(* snapshot and log of the two egress stages belong to one of them.           *)
OnePipeline ==
    \A k \in {go, c} : k.desired["single_stage_egress"] = "running" =>
        k.desired["normalize"] = "stopped" /\ k.desired["scale_and_egress"] = "stopped"

EgressStart(s) == c.desired[s] = "stopped" /\ c'.desired[s] = "running"
GatedStep == \A s \in {"scale_and_egress", "single_stage_egress"} : EgressStart(s) => c.paths["ingress0"] = "ready"

(* Egress starts to be desired only while the ingress path is ready.          *)
EgressGated == [][GatedStep]_wireVars

-----------------------------------------------------------------------------
(***************************************************************************)
(* What a stage's container is started with, twice: spec.c with the stage  *)
(* table of main.c, and the Go controller's paths.go and                   *)
(* container_factory.go, which spec.c says it follows one to one.  A run   *)
(* picks the configured host root and container ids, lets each build its   *)
(* layout at boot and then the mounts and arguments of one stage.  A path  *)
(* is a sequence of names and separators.                                  *)
(***************************************************************************)

CONSTANTS HostRoots,      \* configured host roots: sequences over Names \cup {"/"}
          IdMaps          \* configured container ids: functions from Stages

Stages == {"mediamtx", "normalize", "scale_and_egress", "single_stage_egress"}
NotBuilt == <<>>

VARIABLES root, ids, single, \* the configuration
          layout, goLayout, \* the layouts built at boot
          stage,            \* the stage started, or "none"
          built, goBuilt    \* its mounts and arguments
startVars == <<root, ids, single, layout, goLayout, stage, built, goBuilt>>

StartInit == /\ root \in HostRoots /\ ids \in IdMaps /\ single \in BOOLEAN
        /\ layout = NotBuilt /\ goLayout = NotBuilt
        /\ stage = "none" /\ built = NotBuilt /\ goBuilt = NotBuilt

-----------------------------------------------------------------------------
(* paths.go *)

DefaultRoot == <<"/", "mnt", "/", "nvme">>

Suffix == [env |-> <<"config", "/", "strimserver.env">>, transcode |-> <<"bin", "/", "transcode.sh">>,
           notify |-> <<"bin", "/", "notify">>, tmpl |-> <<"config", "/", "template">>,
           srt |-> <<"srt-passphrase">>, video |-> <<"video-files">>]

\* path.Join of the Go library: empty elements are left out, the rest is joined
\* and cleaned, so that separators are single and none trails.
Join(base, suffix) ==
  LET s == IF base = <<>> THEN suffix ELSE base \o <<"/">> \o suffix
      names == SelectSeq(s, LAMBDA x : x # "/")
      spaced == FlattenSeq([i \in DOMAIN names |-> IF i = 1 THEN <<names[i]>> ELSE <<"/", names[i]>>])
  IN IF s[1] = "/" THEN <<"/">> \o spaced ELSE spaced

\* DefaultLayout: the files under the host root, and two paths of the system's.
DefaultLayout(r) ==
  LET base == IF r = <<>> THEN DefaultRoot ELSE r
  IN [f \in DOMAIN Suffix |-> Join(base, Suffix[f])]
       @@ [resolv |-> <<"/", "run", "/", "resolv.conf">>, tmp |-> <<"/", "tmp">>]

-----------------------------------------------------------------------------
(* spec.c: the layout *)

\* The trailing separators of the root are cut, down to one character.
Trimmed[r \in Seq({"/", "m", "n", "mnt", "nvme"})] ==
  IF Len(r) > 1 /\ Last(r) = "/" THEN Trimmed[Front(r)] ELSE r

join_path(base, suffix) == IF base = <<"/">> THEN suffix ELSE base \o <<"/">> \o suffix

strim_default_layout(r) ==
  LET base == Trimmed[IF r = <<>> THEN DefaultRoot ELSE r]
  IN [f \in DOMAIN Suffix |-> join_path(base, Suffix[f])]
       @@ [resolv |-> <<"/", "run", "/", "resolv.conf">>, tmp |-> <<"/", "tmp">>]

-----------------------------------------------------------------------------
(* The mounts and arguments of one stage: <<source, destination, writable>> *)

strim_ffmpeg_mounts(l) ==
  << <<l.env, "/strimserver.env", FALSE>>, <<l.transcode, "/transcode.sh", FALSE>>,
     <<l.resolv, "/etc/resolv.conf", FALSE>>, <<l.tmp, "/tmp", TRUE>> >>

strim_mediamtx_mounts(l) ==
  << <<l.env, "/strimserver.env", FALSE>>, <<l.tmpl, "/mediamtx.yaml.template", FALSE>>,
     <<l.notify, "/notify", FALSE>>, <<l.srt, "/run/secrets/srt-passphrase", FALSE>>,
     <<l.video, "/video-files", TRUE>>, <<l.tmp, "/tmp", TRUE>> >>

\* run(): the single-stage pipeline's container is in the table only when that
\* pipeline is enabled.
StageList == <<"mediamtx", "normalize", "scale_and_egress">> \o (IF single THEN <<"single_stage_egress">> ELSE <<>>)

\* strim_stage_argv: the first entry of the table with this container id.
stage_argv(id) ==
  LET hits == {i \in DOMAIN StageList : ids[StageList[i]] = id}
      first == CHOOSE i \in hits : \A j \in hits : i <= j
  IN <<"/transcode.sh", IF hits = {} THEN id ELSE StageList[first]>>

\* stage_start_op: the arguments and mounts of the spec; mediamtx runs what its
\* image says.
c_spec(s) == IF s = "mediamtx" THEN [mounts |-> strim_mediamtx_mounts(layout), args |-> <<>>]
             ELSE [mounts |-> strim_ffmpeg_mounts(layout), args |-> stage_argv(ids[s])]

goFfmpegMounts(l) ==
  << <<l.env, "/strimserver.env", FALSE>>, <<l.transcode, "/transcode.sh", FALSE>>,
     <<l.resolv, "/etc/resolv.conf", FALSE>>, <<l.tmp, "/tmp", TRUE>> >>

goMediamtxMounts(l) ==
  << <<l.env, "/strimserver.env", FALSE>>, <<l.tmpl, "/mediamtx.yaml.template", FALSE>>,
     <<l.notify, "/notify", FALSE>>, <<l.srt, "/run/secrets/srt-passphrase", FALSE>>,
     <<l.video, "/video-files", TRUE>>, <<l.tmp, "/tmp", TRUE>> >>

\* containerIDtoStageName: a map, so of two stages with one id the later one stays.
containerIDtoStageName(id) ==
  LET hits == {i \in DOMAIN StageList : ids[StageList[i]] = id}
      last == CHOOSE i \in hits : \A j \in hits : j <= i
  IN IF hits = {} THEN id ELSE StageList[last]

go_spec(s) == IF s = "mediamtx" THEN [mounts |-> goMediamtxMounts(goLayout), args |-> <<>>]
              ELSE [mounts |-> goFfmpegMounts(goLayout), args |-> <<"/transcode.sh", containerIDtoStageName(ids[s])>>]

-----------------------------------------------------------------------------

Boot == /\ layout = NotBuilt
        /\ layout' = strim_default_layout(root) /\ goLayout' = DefaultLayout(root)
        /\ UNCHANGED <<root, ids, single, stage, built, goBuilt>>

StartStage(s) == /\ layout # NotBuilt /\ stage = "none"
                 /\ stage' = s /\ built' = c_spec(s) /\ goBuilt' = go_spec(s)
                 /\ UNCHANGED <<root, ids, single, layout, goLayout>>

StartNext == Boot \/ \E s \in Stages : StartStage(s)
StartSpec == StartInit /\ [][StartNext]_startVars

-----------------------------------------------------------------------------

\* A root some file can lie under, with single separators except at its end.
OrdinaryRoot == LET t == Trimmed[root]
                IN t # <<"/">> /\ \A i \in 1..(Len(t) - 1) : t[i] # "/" \/ t[i + 1] # "/"

\* The stages of the pipeline in use have ids of their own.
DistinctIds == IsInjective([i \in DOMAIN StageList |-> ids[StageList[i]]])

(* spec.c implements the contract "1:1 from the Go oracle": for an ordinary
   host root, trailing separators included, and stages with container ids of
   their own, the C controller starts every stage with the sources,
   destinations, access and arguments the Go controller starts it with. *)
SameStart == (stage # "none" /\ OrdinaryRoot /\ DistinctIds) => built = goBuilt
=============================================================================
