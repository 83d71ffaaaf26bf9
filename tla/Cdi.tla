-------------------------------- MODULE Cdi ---------------------------------
(***************************************************************************)
(* The GPU device of the ffmpeg stages (containerd/cdi.c, prepare_ffmpeg_cdi *)
(* of main.c, step 4 of new_container): a worker scans the host's spec       *)
(* files, resolves the device, merges its edits with the stage's spec and    *)
(* leaves them pending for the container it creates next.  Index and pending *)
(* edits are global; each function is one step, so what two threads inside   *)
(* one function would do to each other is not shown.  An environment entry   *)
(* is <<key, value>>.                                                        *)
(***************************************************************************)
EXTENDS Integers, Sequences, SequencesExt, FiniteSets

CONSTANTS Workers, Hosts,        \* Hosts: the directories and their spec files
          Ref,                   \* [kind, id]: the device of the ffmpeg stages
          SpecEnv, ImageEnv,     \* the keys the stage's spec sets (none in main.c), and the image's
          MAX_SPECS, MAX_DEVICES, MAX_ENV, MAX_MOUNTS, MAX_GIDS,
          MaxOps                 \* bound: start operations

VARIABLES host, specs, scanned, pending, valid, op, todo,
          built, ops             \* the container made last on this host; operations so far

vars == <<host, specs, scanned, pending, valid, op, todo, built, ops>>

None == [env |-> <<>>, mounts |-> <<>>, nodes |-> <<>>, hooks |-> <<>>, gids |-> <<>>]
BadEdits == [none |-> TRUE]
Idle == [stage |-> "none", pc |-> "idle"]

Init ==
    /\ host \in Hosts
    /\ specs = <<>> /\ scanned = FALSE /\ pending = None /\ valid = FALSE
    /\ op = [w \in Workers |-> Idle] /\ todo = [w \in Workers |-> {}]
    /\ built = [stage |-> "none"] /\ ops = 0

-----------------------------------------------------------------------------
(* Parsing.  An element that has not the expected form is "bad".            *)

\* A hook in the flat or in the per-name form; hooks of other names are skipped.
HookList(h) == CASE h.form = "named" -> <<h.path>> [] h.form = "legacy" -> h.list [] OTHER -> <<>>
parse_hooks(hs) == FlattenSeq([i \in DOMAIN hs |-> HookList(hs[i])])

parse_edits(j) ==
    IF "bad" \in Range(j.mounts) \cup Range(j.nodes) \cup Range(parse_hooks(j.hooks)) THEN BadEdits
    ELSE [env |-> j.env, mounts |-> j.mounts, nodes |-> j.nodes, hooks |-> parse_hooks(j.hooks), gids |-> j.gids]

\* Unreadable, too large, no JSON, no kind, edits that do not parse, too many
\* devices: the file is refused as a whole.
FileOk(f) ==
    /\ f.readable /\ f.kind # "bad" /\ parse_edits(f.edits) # BadEdits /\ Len(f.devices) <= MAX_DEVICES
    /\ \A i \in DOMAIN f.devices : f.devices[i].name # "bad" /\ parse_edits(f.devices[i].edits) # BadEdits
parse_spec_file(f) ==
    [kind |-> f.kind, edits |-> parse_edits(f.edits),
     devices |-> [i \in DOMAIN f.devices |-> [name |-> f.devices[i].name, edits |-> parse_edits(f.devices[i].edits)]]]

Append5(a, b) == [k \in DOMAIN a |-> a[k] \o b[k]]

-----------------------------------------------------------------------------
(* The operations.                                                          *)

Fails(w) == op' = [op EXCEPT ![w] = Idle] /\ todo' = [todo EXCEPT ![w] = {}]
Goes(w, pc) == op' = [op EXCEPT ![w].pc = pc]

\* stage_start_op, as far as the container's spec is concerned.
stage_start_op(w, stage) ==
    /\ op[w] = Idle /\ ops < MaxOps
    /\ ops' = ops + 1
    /\ op' = [op EXCEPT ![w] = [stage |-> stage, pc |-> IF stage = "ffmpeg" THEN "scan" ELSE "create"]]
    /\ UNCHANGED <<host, specs, scanned, pending, valid, todo, built>>

\* scan_dirs: the old index and the pending edits go first.
scan_begin(w) ==
    /\ op[w].pc = "scan"
    /\ specs' = <<>> /\ scanned' = FALSE /\ pending' = None /\ valid' = FALSE
    /\ todo' = [todo EXCEPT ![w] = UNION {{d} \X host[d].files : d \in DOMAIN host}]
    /\ Goes(w, "files") /\ UNCHANGED <<host, built, ops>>

\* scan_dir: the files of a directory in any order, the directories in turn.
scan_file(w) ==
    /\ op[w].pc = "files"
    /\ \E t \in todo[w] :
          /\ \A u \in todo[w] : t[1] <= u[1]
          /\ IF FileOk(t[2]) /\ Len(specs) < MAX_SPECS
               THEN /\ specs' = Append(specs, parse_spec_file(t[2]))
                    /\ todo' = [todo EXCEPT ![w] = @ \ {t}] /\ UNCHANGED <<scanned, op>>
               ELSE specs' = <<>> /\ scanned' = FALSE /\ Fails(w)
    /\ UNCHANGED <<host, pending, valid, built, ops>>

scan_end(w) ==
    /\ op[w].pc = "files" /\ todo[w] = {}
    /\ IF \E d \in DOMAIN host : host[d].exists
         THEN scanned' = TRUE /\ Goes(w, "resolve") /\ UNCHANGED <<specs, todo>>
         ELSE specs' = <<>> /\ scanned' = FALSE /\ Fails(w)
    /\ UNCHANGED <<host, pending, valid, built, ops>>

\* The first spec of the kind, then its first device of the name.
Spec1 == SelectInSeq(specs, LAMBDA s : s.kind = Ref.kind)
Device(s) == SelectInSeq(s.devices, LAMBDA d : d.name = Ref.id)

strim_cdi_resolve(w) ==
    /\ op[w].pc = "resolve"
    /\ IF ~scanned \/ Spec1 = 0 THEN Fails(w) /\ UNCHANGED <<pending, valid>>
       ELSE IF Device(specs[Spec1]) = 0 THEN pending' = None /\ valid' = FALSE /\ Fails(w)
       ELSE LET s == specs[Spec1]
            IN  /\ pending' = Append5(s.edits, s.devices[Device(s)].edits) /\ valid' = TRUE
                /\ Goes(w, "merge") /\ UNCHANGED todo
    /\ UNCHANGED <<host, specs, scanned, built, ops>>

\* pending_drop_env_duplicates: a value the spec sets wins.
drop_duplicates(env) == SelectSeq(env, LAMBDA e : e[1] \notin SpecEnv)

strim_cdi_merge_edits(w) ==
    /\ op[w].pc = "merge"
    /\ IF \/ ~valid \/ Len(pending.env) > MAX_ENV \/ Len(pending.mounts) > MAX_MOUNTS
          \/ Len(pending.nodes) + Len(pending.hooks) > MAX_DEVICES
         THEN Fails(w) /\ UNCHANGED pending
         ELSE /\ pending' = [pending EXCEPT !.env = drop_duplicates(@)]
              /\ Goes(w, "create") /\ UNCHANGED todo
    /\ UNCHANGED <<host, specs, scanned, valid, built, ops>>

\* strim_cdi_get_pending_edits: the view of what is pending, the groups cut.
get_pending_edits ==
    IF valid THEN [pending EXCEPT !.gids = SubSeq(@, 1, IF Len(@) < MAX_GIDS THEN Len(@) ELSE MAX_GIDS)] ELSE None

\* emit_process: over the spec's environment, else the image's, the device's
\* variables that are not set yet.
emit_env(env) == SelectSeq(env, LAMBDA e : e[1] \notin (IF SpecEnv # {} THEN SpecEnv ELSE ImageEnv))

\* Step 4 of new_container: whatever is pending goes into the spec.
new_container(w) ==
    /\ op[w].pc = "create"
    /\ built' = [stage |-> op[w].stage, edits |-> [get_pending_edits EXCEPT !.env = emit_env(@)]]
    /\ Fails(w) /\ UNCHANGED <<host, specs, scanned, pending, valid, ops>>

\* The driver is installed or replaced between two starts.
HostChanges ==
    /\ \A w \in Workers : op[w] = Idle
    /\ host' \in Hosts /\ built' = [stage |-> "none"]
    /\ UNCHANGED <<specs, scanned, pending, valid, op, todo, ops>>

Next ==
    \/ HostChanges
    \/ \E w \in Workers : \/ stage_start_op(w, "ffmpeg") \/ stage_start_op(w, "mediamtx")
                          \/ scan_begin(w) \/ scan_file(w) \/ scan_end(w) \/ strim_cdi_resolve(w)
                          \/ strim_cdi_merge_edits(w) \/ new_container(w)
Spec == Init /\ [][Next]_vars

-----------------------------------------------------------------------------
Files(h) == UNION {h[d].files : d \in DOMAIN h}
Defines(f) == f.kind = Ref.kind /\ \E i \in DOMAIN f.devices : f.devices[i].name = Ref.id
\* The edits of a file that defines the device, as they are to arrive.
EditsOf(f) ==
    LET d == CHOOSE i \in DOMAIN f.devices : f.devices[i].name = Ref.id
        both == Append5(parse_edits(f.edits), parse_edits(f.devices[d].edits))
    IN  [both EXCEPT !.env = SelectSeq(@, LAMBDA e : e[1] \notin SpecEnv \cup ImageEnv)]

(* A container of an ffmpeg stage carries the whole edits of a file that is on *)
(* the host at that time, where every file parses: never none, never those of  *)
(* an earlier driver, and never over a variable the image sets.                *)
DeviceArrives ==
    built.stage = "ffmpeg" =>
        \E f \in Files(host) : Defines(f) /\ (\A g \in Files(host) : FileOk(g)) /\ built.edits = EditsOf(f)
=============================================================================
