----------------------------- MODULE Entrypoint -----------------------------
(***************************************************************************)
(* The media server's entrypoint (src/core/entrypoint.c) over restarts of    *)
(* its container: source the environment file, take the passphrase from the  *)
(* secret, drop the stale socket, render the configuration, exec.  The       *)
(* container's files outlive the process; a kill may hit any step, and the   *)
(* operator may edit the environment file between starts.                    *)
(***************************************************************************)
EXTENDS Naturals

CONSTANTS MaxStarts    \* bound: starts of the container

VARIABLES envfile,     \* the environment file
          secret,      \* the mounted secret: "none", "large", "empty" or a passphrase
          socket,      \* is a socket of an earlier run in place
          output,      \* the rendered configuration: "none", "half", or the passphrase in it
          env,         \* the environment of the process
          pc, starts, renderOnly

vars == <<envfile, secret, socket, output, env, pc, starts, renderOnly>>

Unset == "unset"
EnvFiles == {[kind |-> k, pass |-> p, socket |-> s] : k \in {"absent", "malformed", "ok"}, p \in {Unset, "empty", "P"}, s \in BOOLEAN}
Secrets == {"none", "large", "empty", "S"}
\* What the container's settings may already have put in the environment.
Preset == {[pass |-> p, socket |-> FALSE] : p \in {Unset, "E"}}

Init ==
    /\ envfile \in EnvFiles /\ secret \in Secrets
    /\ socket = FALSE /\ output = "none" /\ pc = "down" /\ starts = 0
    /\ env = [pass |-> Unset, socket |-> FALSE] /\ renderOnly = FALSE

Start ==
    /\ pc = "down" /\ starts < MaxStarts
    /\ starts' = starts + 1 /\ pc' = "source"
    /\ env' \in Preset /\ renderOnly' \in BOOLEAN
    /\ UNCHANGED <<envfile, secret, socket, output>>

main_source ==
    /\ pc = "source"
    /\ IF envfile.kind = "malformed" THEN pc' = "down" /\ UNCHANGED env
       ELSE /\ pc' = "secret"
            /\ env' = IF envfile.kind = "absent" THEN env
                      ELSE [pass |-> IF envfile.pass = Unset THEN env.pass ELSE envfile.pass,
                            socket |-> env.socket \/ envfile.socket]
    /\ UNCHANGED <<envfile, secret, socket, output, starts, renderOnly>>

load_srt_secret ==
    IF env.pass \notin {Unset, "empty"} \/ secret = "none" THEN env.pass
    ELSE IF secret = "large" THEN "error" ELSE secret

main_secret ==
    /\ pc = "secret"
    /\ IF load_srt_secret = "error" THEN pc' = "down" /\ UNCHANGED env
       ELSE pc' = "socket" /\ env' = [env EXCEPT !.pass = load_srt_secret]
    /\ UNCHANGED <<envfile, secret, socket, output, starts, renderOnly>>

main_socket ==
    /\ pc = "socket" /\ pc' = "render"
    /\ socket' = (socket /\ ~env.socket)
    /\ UNCHANGED <<envfile, secret, output, env, starts, renderOnly>>

\* expand_template_file opens the output first.
main_render ==
    /\ pc = "render"
    /\ \/ pc' = "rendering" /\ output' = "half"
       \/ pc' = "down" /\ UNCHANGED output           \* no template, or the output does not open
    /\ UNCHANGED <<envfile, secret, socket, env, starts, renderOnly>>

\* Mutant: a failed rendering is only reported.
main_rendered_orWarns ==
    /\ pc = "rendering" /\ pc' = IF renderOnly THEN "down" ELSE "mediamtx"
    /\ output' \in {"half", env.pass} /\ UNCHANGED <<envfile, secret, socket, env, starts, renderOnly>>

\* The rendering ends, or a write fails and the output is removed; then exec.
main_rendered ==
    /\ pc = "rendering"
    /\ \/ output' = env.pass /\ pc' = IF renderOnly THEN "down" ELSE "mediamtx"
       \/ output' = "none" /\ pc' = "down"
    /\ UNCHANGED <<envfile, secret, socket, env, starts, renderOnly>>

\* The media server listens on the socket it is told of.
Listen ==
    /\ pc = "mediamtx" /\ ~socket /\ env.socket
    /\ socket' = TRUE /\ pc' = "serving"
    /\ UNCHANGED <<envfile, secret, output, env, starts, renderOnly>>

Kill ==
    /\ pc # "down"
    /\ pc' = "down" /\ UNCHANGED <<envfile, secret, socket, output, env, starts, renderOnly>>

Edit ==
    /\ pc = "down" /\ starts > 0
    /\ envfile' \in EnvFiles /\ secret' \in Secrets
    /\ UNCHANGED <<socket, output, env, pc, starts, renderOnly>>

Next == Start \/ main_source \/ main_secret \/ main_socket \/ main_render \/ main_rendered \/ Listen \/ Kill \/ Edit
Spec == Init /\ [][Next]_vars

\* What the shell entrypoint computed: ${PASS:-$(cat secret)} over the sourced file.
Wanted ==
    LET sourced == IF envfile.kind = "ok" /\ envfile.pass # Unset THEN envfile.pass ELSE "preset"
    IN  IF sourced = "P" THEN {"P"}
        ELSE (IF sourced = "preset" THEN {"E"} ELSE {}) \cup
             (IF secret = "none" THEN {IF sourced = "empty" THEN "empty" ELSE Unset} ELSE {secret})

(* Whenever the media server runs, its configuration is a whole rendering of  *)
(* this start's settings, with the file's passphrase before the container's   *)
(* and the secret last: never that of an earlier start or of a half write.    *)
ConfigIsCurrent == pc \in {"mediamtx", "serving"} => output = env.pass /\ output \in Wanted

(* The media server never finds the socket of an earlier run in its way.      *)
SocketIsFree == pc = "mediamtx" /\ env.socket => ~socket
=============================================================================
