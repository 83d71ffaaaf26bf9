------------------------------- MODULE Config -------------------------------
EXTENDS Sequences, SequencesExt, Functions, TLC, Integers

(***************************************************************************)
(* The configuration of the two controllers: the table of environment       *)
(* variables of envspec.go and its port in main.c, the loaders, the         *)
(* -check-env self check and the choice main() makes.  A value is a class:  *)
(* "good" is accepted by every binder, "bad" by none but a string's, "long"  *)
(* is a good value longer than the field of the C program.                   *)
(***************************************************************************)

CONSTANTS Pivots,   \* variables left out together with another one
          Args      \* command lines

VARIABLES env, args, c, go

configVars == <<env, args, c, go>>

Row(name, required, kind, fields) == [name |-> name, required |-> required, kind |-> kind, fields |-> fields]

\* envspec.go, the bound variables: their kind and the fields they go to.
envSpecController == <<
    Row("CONTAINERD_SOCKET", TRUE, "str", {"containerd_socket"}),
    Row("CONTAINERD_NAMESPACE", TRUE, "str", {"containerd_namespace"}),
    Row("CONTROLLER_HTTP_PORT", TRUE, "str", {"controller_http_port"}),
    Row("STRIMSERVER_HOST_ROOT", TRUE, "str", {"host_root"}),
    Row("CONTROLLER_RECONCILE_INTERVAL", TRUE, "dur", {"reconcile_interval"}),
    Row("CONTROLLER_INFLIGHT_TIMEOUT", TRUE, "dur", {"inflight_timeout"}),
    Row("CONTROLLER_SHUTDOWN_TIMEOUT", TRUE, "dur", {"shutdown_timeout"}),
    Row("STAGE_STOP_TIMEOUT", TRUE, "dur", {"stage_stop_timeout"}),
    Row("WEBSOCKET_WRITE_TIMEOUT", TRUE, "dur", {"websocket_write_timeout"}),
    Row("CONTROLLER_ACTIONS_BUFFER_SIZE", TRUE, "uint8", {"actions_buffer_size"}),
    Row("ENABLE_SINGLE_STAGE_PIPELINE", FALSE, "bool", {"enable_single_stage_pipeline"}) >>

envSpecStages == <<
    Row("MEDIAMTX_CONTAINER_ID", TRUE, "str", {"mediamtx.container_id"}),
    Row("MEDIAMTX_SNAPSHOT_ID", TRUE, "str", {"mediamtx.snapshot_id"}),
    Row("MEDIAMTX_IMAGE_NAME", TRUE, "str", {"mediamtx.image_name"}),
    Row("MEDIAMTX_LOG_FILE", TRUE, "str", {"mediamtx.logfile"}),
    Row("NORMALIZE_CONTAINER_ID", TRUE, "str", {"normalize.container_id"}),
    Row("NORMALIZE_SNAPSHOT_ID", TRUE, "str", {"normalize.snapshot_id"}),
    Row("NORMALIZE_LOG_FILE", TRUE, "str", {"normalize.logfile"}),
    Row("EGRESS_CONTAINER_ID", TRUE, "str", {"scale_and_egress.container_id"}),
    Row("SINGLE_STAGE_EGRESS_CONTAINER_ID", FALSE, "str", {"single_stage_egress.container_id"}),
    Row("EGRESS_SNAPSHOT_ID", TRUE, "str", {"scale_and_egress.snapshot_id", "single_stage_egress.snapshot_id"}),
    Row("EGRESS_LOG_FILE", TRUE, "str", {"scale_and_egress.logfile", "single_stage_egress.logfile"}),
    Row("FFMPEG_IMAGE_NAME", TRUE, "str",
        {"normalize.image_name", "scale_and_egress.image_name", "single_stage_egress.image_name"}) >>

\* Guards of the mounted scripts: presence only.
Guards(required, names) == [k \in DOMAIN names |-> Row(names[k], required, "none", {})]
envSpecMedia == Guards(TRUE, <<
    "FFMPEG_NICE", "FFMPEG_LOG_LEVEL", "MEDIAMTX_NICE", "MEDIAMTX_CONFIG_TEMPLATE", "STRIMSERVER_SRT_PORT",
    "STRIMSERVER_RTSP_PORT", "NORMALIZED_MPEGTS_SOCKET", "MEDIAMTX_READ_TIMEOUT_DURATION",
    "NORMALIZED_VIDEO_BITRATE", "NORMALIZED_VIDEO_MAXRATE", "NORMALIZED_VIDEO_MINRATE", "NORMALIZED_VIDEO_BUFSIZE",
    "NORMALIZED_AUDIO_BITRATE", "SCALED_VIDEO_HEIGHT_PIXELS", "EGRESS_VIDEO_BITRATE", "EGRESS_VIDEO_MAXRATE",
    "EGRESS_VIDEO_MINRATE", "EGRESS_VIDEO_BUFSIZE", "EGRESS_AUDIO_BITRATE" >>)
envSpecTwitch == Guards(TRUE, << "TWITCH_INGEST_SERVER", "TWITCH_STREAM_KEY", "BANDWIDTH_TEST" >>)
envSpecOptional == Guards(FALSE, << "ENABLE_DDNS", "DDNS_HOST", "DDNS_DOMAIN", "SRT_PUBLISH_PASSPHRASE" >>)
envSpec == envSpecController \o envSpecStages \o envSpecMedia \o envSpecTwitch \o envSpecOptional

\* main.c: each env_ binder names the members of the configuration it fills.
Str(set)  == [kind |-> "str", fields |-> set]
env_controller == [
    CONTAINERD_SOCKET |-> Str({"containerd_socket"}), CONTAINERD_NAMESPACE |-> Str({"containerd_namespace"}),
    CONTROLLER_HTTP_PORT |-> Str({"controller_http_port"}), STRIMSERVER_HOST_ROOT |-> Str({"host_root"}),
    CONTROLLER_RECONCILE_INTERVAL |-> [kind |-> "dur", fields |-> {"reconcile_interval"}],
    CONTROLLER_INFLIGHT_TIMEOUT |-> [kind |-> "dur", fields |-> {"inflight_timeout"}],
    CONTROLLER_SHUTDOWN_TIMEOUT |-> [kind |-> "dur", fields |-> {"shutdown_timeout"}],
    STAGE_STOP_TIMEOUT |-> [kind |-> "dur", fields |-> {"stage_stop_timeout"}],
    WEBSOCKET_WRITE_TIMEOUT |-> [kind |-> "dur", fields |-> {"websocket_write_timeout"}],
    CONTROLLER_ACTIONS_BUFFER_SIZE |-> [kind |-> "uint8", fields |-> {"actions_buffer_size"}],
    ENABLE_SINGLE_STAGE_PIPELINE |-> [kind |-> "bool", fields |-> {"enable_single_stage_pipeline"}]]

\* Mutant: the snapshot of the single-stage pipeline is forgotten.
env_stagesOneSnapshot == [
    MEDIAMTX_CONTAINER_ID |-> Str({"mediamtx.container_id"}), MEDIAMTX_SNAPSHOT_ID |-> Str({"mediamtx.snapshot_id"}),
    MEDIAMTX_IMAGE_NAME |-> Str({"mediamtx.image_name"}), MEDIAMTX_LOG_FILE |-> Str({"mediamtx.logfile"}),
    NORMALIZE_CONTAINER_ID |-> Str({"normalize.container_id"}), NORMALIZE_SNAPSHOT_ID |-> Str({"normalize.snapshot_id"}),
    NORMALIZE_LOG_FILE |-> Str({"normalize.logfile"}), EGRESS_CONTAINER_ID |-> Str({"scale_and_egress.container_id"}),
    SINGLE_STAGE_EGRESS_CONTAINER_ID |-> Str({"single_stage_egress.container_id"}),
    EGRESS_SNAPSHOT_ID |-> Str({"scale_and_egress.snapshot_id"}),
    EGRESS_LOG_FILE |-> Str({"scale_and_egress.logfile", "single_stage_egress.logfile"}),
    FFMPEG_IMAGE_NAME |-> Str({"normalize.image_name", "scale_and_egress.image_name", "single_stage_egress.image_name"})]

env_stages == [
    MEDIAMTX_CONTAINER_ID |-> Str({"mediamtx.container_id"}), MEDIAMTX_SNAPSHOT_ID |-> Str({"mediamtx.snapshot_id"}),
    MEDIAMTX_IMAGE_NAME |-> Str({"mediamtx.image_name"}), MEDIAMTX_LOG_FILE |-> Str({"mediamtx.logfile"}),
    NORMALIZE_CONTAINER_ID |-> Str({"normalize.container_id"}), NORMALIZE_SNAPSHOT_ID |-> Str({"normalize.snapshot_id"}),
    NORMALIZE_LOG_FILE |-> Str({"normalize.logfile"}), EGRESS_CONTAINER_ID |-> Str({"scale_and_egress.container_id"}),
    SINGLE_STAGE_EGRESS_CONTAINER_ID |-> Str({"single_stage_egress.container_id"}),
    EGRESS_SNAPSHOT_ID |-> Str({"scale_and_egress.snapshot_id", "single_stage_egress.snapshot_id"}),
    EGRESS_LOG_FILE |-> Str({"scale_and_egress.logfile", "single_stage_egress.logfile"}),
    FFMPEG_IMAGE_NAME |-> Str({"normalize.image_name", "scale_and_egress.image_name", "single_stage_egress.image_name"})]

\* The rest of g_env_spec binds nothing; the names that are not required.
g_env_guards == {
    "FFMPEG_NICE", "FFMPEG_LOG_LEVEL", "MEDIAMTX_NICE", "MEDIAMTX_CONFIG_TEMPLATE", "STRIMSERVER_SRT_PORT",
    "STRIMSERVER_RTSP_PORT", "NORMALIZED_MPEGTS_SOCKET", "MEDIAMTX_READ_TIMEOUT_DURATION",
    "NORMALIZED_VIDEO_BITRATE", "NORMALIZED_VIDEO_MAXRATE", "NORMALIZED_VIDEO_MINRATE", "NORMALIZED_VIDEO_BUFSIZE",
    "NORMALIZED_AUDIO_BITRATE", "SCALED_VIDEO_HEIGHT_PIXELS", "EGRESS_VIDEO_BITRATE", "EGRESS_VIDEO_MAXRATE",
    "EGRESS_VIDEO_MINRATE", "EGRESS_VIDEO_BUFSIZE", "EGRESS_AUDIO_BITRATE",
    "TWITCH_INGEST_SERVER", "TWITCH_STREAM_KEY", "BANDWIDTH_TEST"}
g_env_optional == {
    "ENABLE_SINGLE_STAGE_PIPELINE", "SINGLE_STAGE_EGRESS_CONTAINER_ID",
    "ENABLE_DDNS", "DDNS_HOST", "DDNS_DOMAIN", "SRT_PUBLISH_PASSPHRASE"}
g_env_bind  == env_controller @@ env_stages
g_env_names == DOMAIN g_env_bind \cup g_env_guards \cup g_env_optional

Absent(name) == env[name] \in {"unset", "empty"}

\* bind_str: the value fits its field; the other binders: it parses.
bind_str(value) == value # "long"
bind_ok(kind, value) == IF kind = "str" THEN bind_str(value) ELSE value # "bad"

check_env == {n \in g_env_names \ g_env_optional : Absent(n)}

load_errors ==
    {n \in g_env_names : IF Absent(n) THEN n \notin g_env_optional
                         ELSE n \in DOMAIN g_env_bind /\ ~ bind_ok(g_env_bind[n].kind, env[n])}

\* The configuration: the variable every field was filled from.
load_config ==
    LET bound == {n \in DOMAIN g_env_bind : ~ Absent(n)}
    IN  [f \in UNION {g_env_bind[n].fields : n \in bound} |-> {n \in bound : f \in g_env_bind[n].fields}]

\* envspec.go's binders, checkEnv and LoadConfig.
Rows == {envSpec[k] : k \in DOMAIN envSpec}
Bind(kind, value) == kind \in {"str", "none"} \/ value # "bad"
checkEnv == {r.name : r \in {q \in Rows : q.required /\ Absent(q.name)}}
LoadErrors == {r.name : r \in {q \in Rows : IF Absent(q.name) THEN q.required ELSE ~ Bind(q.kind, env[q.name])}}
LoadConfig ==
    LET bound == {r \in Rows : ~ Absent(r.name)}
    IN  [f \in UNION {r.fields : r \in bound} |-> {r.name : r \in {q \in bound : f \in q.fields}}]

\* flag_match and the loop over argv: the last setting of a flag counts.
Known == {"check-env", "check-env=false", "print-env-example", "print-ts-types"}
CheckFlag == LET s == SelectSeq(args, LAMBDA a : a \in {"check-env", "check-env=false"})
             IN  s # <<>> /\ Last(s) = "check-env"
Given(a) == \E k \in DOMAIN args : args[k] = a

Outcome(code, mode, errors, cfg) == [exit |-> code, mode |-> mode, errors |-> errors, cfg |-> cfg]
Decide(unknown, check, errors, cfg) ==
    IF unknown THEN Outcome(2, "usage", {}, <<>>)
    ELSE IF Given("print-env-example") THEN Outcome(0, "example", {}, <<>>)
    ELSE IF Given("print-ts-types") THEN Outcome(0, "types", {}, <<>>)
    ELSE IF CheckFlag THEN Outcome(IF check = {} THEN 0 ELSE 1, "check", check, <<>>)
    ELSE IF errors # {} THEN Outcome(1, "run", errors, <<>>) ELSE Outcome(0, "run", {}, cfg)

Pending == Outcome(0, "pending", {}, <<>>)
\* Environments: the class of every variable.  They differ from a complete one in
\* one variable, or in a pivot and any other.
All  == {envSpec[k].name : k \in DOMAIN envSpec}
Good == [n \in All |-> "good"]
Envs == {[Good EXCEPT ![n] = v] : n \in All, v \in {"unset", "empty", "bad", "long", "good"}}
          \cup {[Good EXCEPT ![n] = "unset", ![m] = v] : n \in Pivots, m \in All, v \in {"unset", "bad"}}

ConfigInit == env \in Envs /\ args \in Args /\ c = Pending /\ go = Pending

main_c ==
    /\ c = Pending
    /\ c' = Decide(\E k \in DOMAIN args : args[k] \notin Known, check_env, load_errors, load_config)
    /\ UNCHANGED <<env, args, go>>

main_go ==
    /\ go = Pending
    /\ go' = Decide(\E k \in DOMAIN args : args[k] \notin Known, checkEnv, LoadErrors, LoadConfig)
    /\ UNCHANGED <<env, args, c>>

ConfigNext == main_c \/ main_go
ConfigSpec == ConfigInit /\ [][ConfigNext]_configVars

Names(class) == {n \in DOMAIN env : env[n] = class}

(* The port behaves as the Go program does for every environment and command *)
(* line: the same mode, the same complaints and, when it runs, every field    *)
(* filled from the same variable. Only a value longer than its field is       *)
(* refused by the port alone.                                                 *)
PortAgrees ==
    c # Pending /\ go # Pending =>
       /\ c.mode = go.mode /\ go.errors \subseteq c.errors /\ c.errors \subseteq go.errors \cup Names("long")
       /\ c.errors = go.errors => c = go

(* A start succeeds only in an environment the self check passes, and after a *)
(* passed check it fails only for values that do not parse or fit.            *)
CheckPredicts ==
    c.mode = "run" =>
       /\ c.exit = 0 => check_env = {}
       /\ check_env = {} => c.errors \subseteq Names("bad") \cup Names("long")

-----------------------------------------------------------------------------
(***************************************************************************)
(* The two readers of a Go duration in the C controller: main.c reads every *)
(* duration of the configuration, http/http_server.c reads                   *)
(* WEBSOCKET_WRITE_TIMEOUT once more and falls back to a default in silence. *)
(* Both walk the text number by number.  Times are in units of which MS make *)
(* a millisecond; the sizes of the other units are constants.                *)
(***************************************************************************)

CONSTANTS Texts,         \* the values of the variable
          MS, SEC, MIN   \* unit sizes

VARIABLES text,
          conf,          \* parse_go_duration: position, total, status
          serv           \* parse_duration_ms: the same

durVars == <<text, conf, serv>>

Digit == [d \in {"0", "1", "2", "5"} |-> CASE d = "0" -> 0 [] d = "1" -> 1 [] d = "2" -> 2 [] d = "5" -> 5]
At(p) == IF p <= Len(text) THEN text[p] ELSE "end"
RECURSIVE AfterDigits(_), Value(_, _)
AfterDigits(p) == IF At(p) \in DOMAIN Digit THEN AfterDigits(p + 1) ELSE p
Value(p, q) == IF p = q THEN 0 ELSE 10 * Value(p, q - 1) + Digit[text[q - 1]]
RECURSIVE Pow10(_)
Pow10(n) == IF n = 0 THEN 1 ELSE 10 * Pow10(n - 1)

\* A number: its whole and fractional digits and the position after it.
Number(p) ==
    LET w == AfterDigits(p)
        f == IF At(w) = "." THEN w + 1 ELSE w
        e == IF At(w) = "." THEN AfterDigits(f) ELSE w
    IN  [whole |-> Value(p, w), frac |-> Value(f, e), scale |-> Pow10(e - f), digits |-> (w - p) + (e - f), next |-> e]

\* The units of parse_go_duration: the size and the width, none is <<0, 0>>.
go_unit(p) ==
    CASE At(p) = "m" /\ At(p + 1) = "s" -> <<MS, 2>>
      [] At(p) = "s"                    -> <<SEC, 1>>
      [] At(p) = "m" /\ At(p + 1) # "s" -> <<MIN, 1>>
      [] OTHER                          -> <<0, 0>>

DurInit ==
    /\ text \in Texts
    /\ conf = [p |-> 1, total |-> 0, st |-> "start"]
    /\ serv = [p |-> 1, total |-> 0, st |-> "start"]

After(sign) == IF At(1) \in sign THEN 2 ELSE 1
Fail(r)     == [r EXCEPT !.st = "err"]

\* parse_go_duration: a sign, then at least one term.
parse_go_duration_sign ==
    /\ conf.st = "start"
    /\ conf' = IF At(After({"+", "-"})) = "end" THEN Fail(conf)
               ELSE [conf EXCEPT !.p = After({"+", "-"}), !.st = "terms"]
    /\ UNCHANGED <<text, serv>>

parse_go_duration_term ==
    /\ conf.st = "terms"
    /\ LET n == Number(conf.p)
           u == go_unit(n.next)
       IN  conf' = IF n.digits = 0 \/ u[2] = 0 THEN Fail(conf)
                   ELSE [p     |-> n.next + u[2],
                         total |-> conf.total + ((n.whole * n.scale + n.frac) * u[1]) \div n.scale,
                         st    |-> IF At(n.next + u[2]) = "end" THEN "ok" ELSE "terms"]
    /\ UNCHANGED <<text, serv>>

\* bind_duration_ms: rounded to the nearest millisecond, the sign kept.
bind_duration_ms ==
    LET ms == (conf.total + MS \div 2) \div MS IN IF At(1) = "-" THEN -ms ELSE ms

\* parse_duration_ms: a sign alone is no error, the loop just ends.
parse_duration_ms_sign ==
    /\ serv.st = "start"
    /\ serv' = IF At(1) = "end" THEN Fail(serv) ELSE [serv EXCEPT !.p = After({"+", "-"}), !.st = "terms"]
    /\ UNCHANGED <<text, conf>>

unit_ns(p) ==
    CASE At(p) = "m" /\ At(p + 1) = "s" -> <<MS, 2>>
      [] At(p) = "s"                    -> <<SEC, 1>>
      [] At(p) = "m" /\ At(p + 1) # "s" -> <<MIN, 1>>
      [] OTHER                          -> <<0, 0>>

parse_duration_ms_term ==
    /\ serv.st = "terms"
    /\ LET n == Number(serv.p)
           u == unit_ns(n.next)
       IN  serv' = IF At(serv.p) = "end" THEN [serv EXCEPT !.st = "ok"]
                   ELSE IF n.digits = 0 \/ u[2] = 0 THEN Fail(serv)
                   ELSE [p     |-> n.next + u[2],
                         total |-> serv.total + n.whole * u[1] + (n.frac * u[1]) \div n.scale,
                         st    |-> "terms"]
    /\ UNCHANGED <<text, conf>>

\* parse_duration_ms, its end: truncated, a negative time is zero.
ws_write_timeout == IF At(1) = "-" THEN 0 ELSE serv.total \div MS

DurNext == \/ parse_go_duration_sign \/ parse_go_duration_term \/ parse_duration_ms_sign \/ parse_duration_ms_term
DurSpec == DurInit /\ [][DurNext]_durVars

Done == {conf.st, serv.st} \subseteq {"ok", "err"}

(* A configuration that loaded has a write timeout the server reads as well, *)
(* as the same time up to its rounding: the default in ws_write_timeout is   *)
(* never taken for a value the controller accepted.                          *)
ReadAlike ==
    Done /\ conf.st = "ok" =>
       /\ serv.st = "ok"
       /\ IF At(1) = "-" THEN bind_duration_ms <= 0 /\ ws_write_timeout = 0
          ELSE bind_duration_ms - ws_write_timeout \in {0, 1}
=============================================================================
