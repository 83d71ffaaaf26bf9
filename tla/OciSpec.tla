------------------------------ MODULE OciSpec -------------------------------
EXTENDS Integers, Sequences, FiniteSets, SequencesExt

(***************************************************************************)
(* strim_oci_build_spec of containerd/oci_spec.c: the runtime spec of a    *)
(* container as a growing buffer of pieces, each of which is skipped       *)
(* without a word when the buffer cannot grow.  The reference is the list  *)
(* of spec options container_factory.go applies with containerd's library. *)
(* Capabilities and default mounts are shortened to two of each.           *)
(***************************************************************************)

CONSTANTS Images,        \* [env, entry, cmd, cwd]
          Stages,        \* [args, mounts, caps, hooks]: what main.c asks for
          EditSets,      \* [env, gids, devices, mounts, hooks]: what CDI adds
          MAX_ENV, MAX_GIDS,
          MaxFailures    \* allocations that fail in a run

VARIABLES image, spec, cdi, \* the inputs
          sections,      \* the sections still to emit
          todo,          \* the pieces of the current section still to append
          json, rc, failures
ociVars == <<image, spec, cdi, sections, todo, json, rc, failures>>

Order == <<"process", "mounts", "linux", "hooks">>

OciInit == /\ image \in Images /\ spec \in Stages /\ cdi \in EditSets
        /\ (spec.args # <<>> => image.entry = <<>>)
        /\ sections = Order /\ todo = <<>> /\ json = <<>> /\ rc = 1 /\ failures = 0

DEFAULT_CAPS == <<"CAP_KILL", "CAP_CHOWN">>
DEFAULT_MOUNTS == <<"/proc", "/dev">>
DEFAULT_ENV == << <<"PATH", "bin">> >>

-----------------------------------------------------------------------------
(* emit_process *)

Upto(s, n) == SubSeq(s, 1, IF Len(s) < n THEN Len(s) ELSE n)

base_env == IF image.env # <<>> THEN image.env ELSE DEFAULT_ENV
env_has_key(env, e) == \E i \in DOMAIN env : env[i][1] = e[1]

\* The base environment, then the device's variables it does not set.
EmitEnv == Upto(base_env \o SelectSeq(cdi.env, LAMBDA e : ~env_has_key(base_env, e)), MAX_ENV)

EmitCaps == DEFAULT_CAPS \o SelectSeq(spec.caps, LAMBDA c : ~Contains(DEFAULT_CAPS, c))
EmitArgs == image.entry \o (IF spec.args # <<>> THEN spec.args ELSE image.cmd)
EmitGids == Upto(<<0>> \o cdi.gids, MAX_GIDS)

emit_process == << <<"gids", EmitGids>>, <<"args", EmitArgs>>, <<"env", EmitEnv>>,
                   <<"cwd", IF image.cwd = "" THEN "/" ELSE image.cwd>>, <<"caps", EmitCaps>> >>

-----------------------------------------------------------------------------
(* emit_mounts, emit_linux, emit_hooks *)

emit_mounts == << <<"mounts", DEFAULT_MOUNTS \o spec.mounts \o cdi.mounts>> >>

Deny == [allow |-> FALSE, dev |-> <<>>]
CharDevice(d) == d.major >= 0 /\ d.minor >= 0 /\ d.type \in {"c", "none"}
Allows == LET chars == SelectSeq(cdi.devices, CharDevice)
          IN [i \in DOMAIN chars |-> [allow |-> TRUE, dev |-> <<chars[i].major, chars[i].minor>>]]
\* Deny everything, then allow each character device with a number.
Rules == <<Deny>> \o Allows

emit_linux == << <<"rules", Rules>>,
                 <<"namespaces", <<"pid", "ipc", "uts", "mount">> \o (IF spec.host_network THEN <<>> ELSE <<"network">>)>>,
                 <<"devices", cdi.devices>> >>

emit_hooks == << <<"hooks", spec.hooks \o cdi.hooks>> >>

-----------------------------------------------------------------------------
(* strim_oci_build_spec *)

Section(s) == CASE s = "process" -> emit_process [] s = "mounts" -> emit_mounts
                [] s = "linux" -> emit_linux [] OTHER -> emit_hooks

Enter == /\ todo = <<>> /\ sections # <<>>
         /\ todo' = Section(Head(sections)) /\ sections' = Tail(sections)
         /\ UNCHANGED <<image, spec, cdi, json, rc, failures>>

\* jb_raw, jb_ch: the piece goes to the end of the buffer.
Emit == /\ todo # <<>>
        /\ json' = Append(json, Head(todo)) /\ todo' = Tail(todo)
        /\ UNCHANGED <<image, spec, cdi, sections, rc, failures>>

\* jb_reserve: the buffer did not grow, the piece is left out.
Skip == /\ todo # <<>> /\ failures < MaxFailures
        /\ todo' = Tail(todo) /\ failures' = failures + 1
        /\ UNCHANGED <<image, spec, cdi, sections, json, rc>>

\* The only failure the caller hears of is a buffer that was never allocated.
Finish == /\ todo = <<>> /\ sections = <<>> /\ rc = 1
          /\ rc' = IF json = <<>> THEN -1 ELSE 0
          /\ UNCHANGED <<image, spec, cdi, sections, todo, json, failures>>

OciNext == Enter \/ Emit \/ Skip \/ Finish
OciSpec == OciInit /\ [][OciNext]_ociVars

-----------------------------------------------------------------------------
(* The Go controller: spec options applied one after another *)

Default == [args |-> <<>>, env |-> DEFAULT_ENV, cwd |-> "/", gids |-> <<0>>, caps |-> DEFAULT_CAPS,
            mounts |-> DEFAULT_MOUNTS, namespaces |-> <<"pid", "ipc", "uts", "mount", "network">>,
            rules |-> <<Deny>>, devices |-> <<>>, hooks |-> <<>>]

WithImageConfig(s) == [s EXCEPT !.env = IF image.env = <<>> THEN @ ELSE image.env,
                                !.args = image.entry \o image.cmd,
                                !.cwd = IF image.cwd = "" THEN @ ELSE image.cwd]
WithHostNetwork(s) == [s EXCEPT !.namespaces = SelectSeq(@, LAMBDA n : n # "network")]
WithAddedCapabilities(s) == [s EXCEPT !.caps = @ \o SelectSeq(spec.caps, LAMBDA c : ~Contains(s.caps, c))]
WithMounts(s) == [s EXCEPT !.mounts = @ \o spec.mounts]
WithProcessArgs(s) == [s EXCEPT !.args = IF spec.args = <<>> THEN @ ELSE spec.args]
WithCDIDevices(s) == [s EXCEPT !.env = @ \o SelectSeq(cdi.env, LAMBDA e : ~env_has_key(s.env, e)),
                               !.gids = @ \o cdi.gids, !.mounts = @ \o cdi.mounts,
                               !.devices = cdi.devices, !.hooks = cdi.hooks,
                               !.rules = @ \o Allows]

\* baseSpecOpts, then what CreateFFmpegContainer adds.
goSpec == WithCDIDevices(WithProcessArgs(WithMounts(WithAddedCapabilities(WithHostNetwork(WithImageConfig(Default))))))

-----------------------------------------------------------------------------

Built == rc = 0 /\ failures = 0
FieldOf(name) == (CHOOSE i \in DOMAIN json : json[i][1] = name)
Value(name) == json[FieldOf(name)][2]

(* oci_spec.h says the builder reproduces the spec the Go factory's options
   produce; with a variable of the base environment winning over the device's,
   every field of a spec that fits its arrays is the one the options give. *)
SameSpecAsGo ==
  (Built /\ Len(goSpec.env) <= MAX_ENV /\ Len(goSpec.gids) <= MAX_GIDS) =>
    \A f \in DOMAIN goSpec : Value(f) = goSpec[f]

(* The last rule that matches a device decides: the container may use exactly
   the character devices the CDI edits gave it, and no other device. *)
DevicesUsable ==
  Built => \A n \in {<<a, b>> : a \in 0..2, b \in 0..1} :
             LET matching == {i \in DOMAIN Value("rules") : Value("rules")[i].dev \in {<<>>, n}}
                 last == CHOOSE i \in matching : \A j \in matching : j <= i
                 mine == {i \in DOMAIN cdi.devices : <<cdi.devices[i].major, cdi.devices[i].minor>> = n /\ cdi.devices[i].type \in {"c", "none"}}
             IN Value("rules")[last].allow <=> mine # {}

-----------------------------------------------------------------------------
(***************************************************************************)
(* resolve_user of containerd/oci_spec.c: from the User string of an image *)
(* and the password and group files to the uid, gid and additional gids of *)
(* the container's process.  A line of a file is the sequence of its       *)
(* fields, which the code cuts with strtok_r; a field is a token, "" when  *)
(* it is empty, and the member list of a group is kept beside its line.    *)
(***************************************************************************)

CONSTANTS Users,      \* image users: <<name, group>>, group "none" when there is no colon
          Passwds,    \* password files: NoFile or sequences of lines
          Groups,     \* group files: NoFile or sequences of [f, members]
          NumberOf,      \* the tokens that are numbers, with their values
          UidMod,     \* the number of uids and gids: 2^32
          MAX_USER_GIDS    \* the length of resolved_user.gids

NoFile == << <<"no file">> >>

VARIABLES user, passwd, group, \* the inputs
          pc, uid, gid, gids
userVars == <<user, passwd, group, pc, uid, gid, gids>>

UserInit == /\ user \in Users /\ passwd \in Passwds /\ group \in Groups
        /\ pc = "resolve" /\ uid = 0 /\ gid = 0 /\ gids = <<>>

-----------------------------------------------------------------------------

Numeric(token) == token \in DOMAIN NumberOf
Number(token) == NumberOf[token] % UidMod

\* strtok_r: adjacent separators count as one, so an empty field is passed over.
Tokens(fields) == SelectSeq(fields, LAMBDA x : x # "")

\* parse_user_spec: a user, and a name before the colon.
parse_user_spec(u) == u[1] # ""
GroupText == IF user[2] = "none" THEN "" ELSE user[2]

\* passwd_lookup: the first line of that name with enough fields; a field that is
\* not a number makes it fail.
passwd_lookup(name) ==
  LET lines == IF passwd = NoFile THEN <<>> ELSE SelectSeq(passwd, LAMBDA l : Len(Tokens(l)) >= 4 /\ Tokens(l)[1] = name)
      t == Tokens(lines[1])
  IN IF lines = <<>> THEN <<>>
     ELSE IF ~Numeric(t[3]) \/ ~Numeric(t[4]) THEN <<>> ELSE <<Number(t[3]), Number(t[4])>>

\* group_lookup: the same in the group file.
group_lookup(name) ==
  LET lines == IF group = NoFile THEN <<>> ELSE SelectSeq(group, LAMBDA l : Len(Tokens(l.f)) >= 3 /\ Tokens(l.f)[1] = name)
      t == Tokens(lines[1].f)
  IN IF lines = <<>> THEN <<>> ELSE IF ~Numeric(t[3]) THEN <<>> ELSE <<Number(t[3])>>

\* The group the image names, when there is one of that name.
GidOf(name, otherwise) == IF name # "" /\ group_lookup(name) # <<>> THEN group_lookup(name)[1] ELSE otherwise

\* group_memberships: the primary gid, then every group that lists the user, as
\* far as there is room.
Listing(name) == SelectSeq(group, LAMBDA l : /\ Len(Tokens(l.f)) >= 4 /\ Numeric(Tokens(l.f)[3])
                                             /\ Contains(l.members, name))
group_memberships(name) ==
  IF group = NoFile THEN <<gid>>
  ELSE LET all == <<gid>> \o [i \in DOMAIN Listing(name) |-> Number(Tokens(Listing(name)[i].f)[3])]
       IN SubSeq(all, 1, IF Len(all) < MAX_USER_GIDS THEN Len(all) ELSE MAX_USER_GIDS)

-----------------------------------------------------------------------------
(* resolve_user *)

\* No user, or one that cannot be parsed: root.
ResolveRoot == /\ pc = "resolve" /\ ~parse_user_spec(user)
               /\ gids' = <<0>> /\ pc' = "done"
               /\ UNCHANGED <<user, passwd, group, uid, gid>>

ResolveNumeric ==
  /\ pc = "resolve" /\ parse_user_spec(user) /\ Numeric(user[1])
  /\ uid' = Number(user[1])
  /\ gid' = IF Numeric(GroupText) THEN Number(GroupText) ELSE GidOf(GroupText, 0)
  /\ pc' = "groups" /\ UNCHANGED <<user, passwd, group, gids>>

\* A name that is not found is root's uid, with the named group all the same.
ResolveName ==
  /\ pc = "resolve" /\ parse_user_spec(user) /\ ~Numeric(user[1])
  /\ LET found == passwd_lookup(user[1])
     IN /\ uid' = IF found = <<>> THEN 0 ELSE found[1]
        /\ gid' = GidOf(GroupText, IF found = <<>> THEN 0 ELSE found[2])
  /\ pc' = "groups" /\ UNCHANGED <<user, passwd, group, gids>>

Memberships == /\ pc = "groups"
               /\ gids' = group_memberships(user[1])
               /\ pc' = "done" /\ UNCHANGED <<user, passwd, group, uid, gid>>

UserNext == ResolveRoot \/ ResolveNumeric \/ ResolveName \/ Memberships
UserSpec == UserInit /\ [][UserNext]_userVars

-----------------------------------------------------------------------------
(* The two files by their columns *)

PasswdLines == IF passwd = NoFile THEN {} ELSE Range(passwd)
GroupLines == IF group = NoFile THEN {} ELSE Range(group)
\* Every line has a name, a password, a number and, in the password file, a gid.
WellFormed == /\ \A l \in PasswdLines : \A i \in 1..4 : l[i] # ""
              /\ \A l \in GroupLines : \A i \in 1..3 : l.f[i] # ""

(* The process runs as the user the image names: the uid and gid of the user's
   own line, or root for a name that is in no line; the group the image names
   instead of the user's own; and in every group that lists the user, the
   primary one first, as many as there is room for. *)
UserAsNamed ==
  (pc = "done" /\ WellFormed /\ user[1] # "") =>
    LET mine == {l \in PasswdLines : l[1] = user[1]}
        named == {l \in GroupLines : l.f[1] = user[2]}
    IN /\ Numeric(user[1]) => uid = NumberOf[user[1]] % UidMod
       /\ ~Numeric(user[1]) /\ mine # {} => \E l \in mine : uid = NumberOf[l[3]]
       /\ ~Numeric(user[1]) /\ mine = {} => uid = 0
       /\ named # {} /\ ~Numeric(user[2]) => \E l \in named : gid = NumberOf[l.f[3]]
       /\ named = {} /\ ~Numeric(user[1]) /\ mine # {} => \E l \in mine : gid = NumberOf[l[4]]
       /\ gids[1] = gid
       /\ LET listed == {NumberOf[l.f[3]] : l \in {g \in GroupLines : Contains(g.members, user[1])}}
          IN /\ Range(gids) \subseteq {gid} \cup listed
             /\ Len(gids) < MAX_USER_GIDS => listed \subseteq Range(gids)
=============================================================================
