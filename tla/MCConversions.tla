--------------------------- MODULE MCConversions ---------------------------
(***************************************************************************)
(* The algorithms of the system, each on its own inputs: readers, writers, *)
(* codecs and tables, the Go controller's beside the ports'.  A behaviour  *)
(* picks a part and runs it.  The parts share the variables v1 .. v14; a   *)
(* part leaves alone the ones it has no use for.                           *)
(***************************************************************************)
EXTENDS Integers, Sequences, SequencesExt, FiniteSets, TLC

CONSTANTS Parts,       \* the parts to run
          MaxPieces,   \* of a template
          MaxFields,   \* encoded on a connection
          MaxRoot,     \* tokens of a host root
          MaxText,     \* characters of a duration
          MaxAppears   \* keys shown by the deck

VARIABLES part, v1, v2, v3, v4, v5, v6, v7, v8, v9, v10, v11, v12, v13, v14

\* Command lines that set, clear, combine and mistype flags.
MCArgs  == {<<>>, <<"check-env">>, <<"check-env", "check-env=false">>, <<"print-env-example">>,
            <<"check-env", "print-ts-types">>, <<"print-ts-types", "bogus">>}

(* Every text of up to five characters over two digits, the point, two unit *)
(* letters and the signs.  A second is ten milliseconds here, a minute six  *)
(* seconds.                                                                 *)
DurTexts == UNION {[1..n -> {"0", "5", ".", "m", "s", "-"}] : n \in 0..MaxText} \cup {<<"+">>, <<"+", "0">>, <<"+", "5", "s">>}

(* Two settings of two names in every form, with values that hold the        *)
(* characters the reader looks for.                                          *)
EnvValues == {<<>>, <<"a">>, <<"=">>, <<"#", "a">>, <<" ", "a", " ">>, <<"A", "=", "a">>, <<"q", "a">>, <<"bs">>,
           <<"a", "a", "a", "B", "=", "a">>}
EnvSettings == {<<[name |-> "A", value |-> v, form |-> f], [name |-> n, value |-> w, form |-> g]>> :
                 n \in {"A", "B"}, v \in EnvValues, w \in EnvValues,
                 f \in {"plain", "note", "export", "crlf"}, g \in {"plain", "blank", "indent"}}

(* Up to three pieces: text, the three forms of references to a set and an   *)
(* unset variable, and the forms that stay as they are.                      *)
Piece(text, means) == [text |-> text, means |-> means]
Same(text) == Piece(text, text)
MCPieces == {
    Same(<<".">>), Same(<<"}">>), Piece(<<"$", "$">>, <<"$">>), Same(<<"$", ".">>), Same(<<"$", "1", ".">>),
    Piece(<<"$", "{", "A", "}">>, <<"v", "$", "B">>), Piece(<<"$", "{", "B", "}">>, <<>>),
    Piece(<<"$", "A", ".">>, <<"v", "$", "B", ".">>), Piece(<<"$", "A", "1", ".">>, <<".">>),
    Same(<<"$", "{", "A", "-", "}">>), Same(<<"$", "{", "}">>), Same(<<"$", "{", "1", "}">>),
    Piece(<<"$", "A", "$", "$">>, <<"v", "$", "B", "$">>), Same(<<"$", "A", "B", "1", ".">>)}

(* Small instances of StageSpec: every root of at most MaxRoot tokens in      *)
(* which no two names touch, with the default ids, and the default root with  *)
(* every way to configure ids from a set of four.                             *)
Untouching(r) == \A i \in 1..(Len(r) - 1) : r[i] = "/" \/ r[i + 1] = "/"
MCRoots == {r \in UNION {[1..n -> {"/", "m"}] : n \in 0..MaxRoot} : Untouching(r)}
DefaultIds == ("mediamtx" :> "mediamtx" @@ "normalize" :> "normalize" @@
               "scale_and_egress" :> "scale-and-egress" @@ "single_stage_egress" :> "single-stage-egress")
MCIds == [DOMAIN DefaultIds -> {"mediamtx", "normalize", "x"}] \cup {DefaultIds}

(* A small instance of OciSpec: an image with and without environment, the    *)
(* ffmpeg and the mediamtx stage, and edits with every pair of two variables  *)
(* and of device nodes that are character devices, block devices or unknown.  *)
MCImages == {[env |-> e, entry |-> x, cmd |-> <<"serve">>, cwd |-> w] :
               e \in {<<>>, << <<"NV", "all">>, <<"A", "1">> >>}, x \in {<<>>, <<"/entrypoint">>}, w \in {""}}
MCStages == {[args |-> <<"/transcode.sh", "normalize">>, mounts |-> <<"/env", "/tmp">>, caps |-> <<"CAP_SYS_NICE">>, hooks |-> <<>>, host_network |-> TRUE],
             [args |-> <<>>, mounts |-> <<"/video">>, caps |-> <<"CAP_SYS_NICE", "CAP_KILL">>, hooks |-> <<>>, host_network |-> TRUE]}
Vars == {<<"NV", "void">>, <<"PATH", "cuda">>, <<"B", "2">>}
Nodes == {[type |-> t, major |-> m, minor |-> n] : t \in {"c", "b", "none"}, m \in {-1, 1}, n \in {0}}
Pairs(S) == {<<>>} \cup {<<x>> : x \in S} \cup {<<x, y>> : x \in S, y \in S}
Edits(e, d) == [env |-> e, gids |-> <<44>>, devices |-> d, mounts |-> <<"/nv">>, hooks |-> <<"symlinks">>]
MCEdits == {Edits(e, <<>>) : e \in Pairs(Vars)} \cup {Edits(<< <<"B", "2">> >>, d) : d \in Pairs(Nodes)}
             \cup {[env |-> <<>>, gids |-> <<>>, devices |-> <<>>, mounts |-> <<>>, hooks |-> <<>>]}

NoFile == << <<"no file">> >>
(* A small instance of OciUser: two users and two groups in the files, each   *)
(* password either set or left empty, members in every combination, and image *)
(* users that are names, numbers, both known and unknown.                     *)
MCNumberOf == ("0" :> 0 @@ "1" :> 1 @@ "2" :> 2 @@ "5" :> 5)
MCUsers == {"", "alice", "bob", "1", "5"} \X {"none", "", "video", "ghost", "2"}
Line(name, pw, u) == <<name, pw, u, u, "", "/home", "/bin/sh">>
MCPasswds == {NoFile, <<>>} \cup {<<Line("root", "x", "0"), Line("alice", pw, "2")>> : pw \in {"x", ""}}
Members == {<<>>, <<"alice">>, <<"bob", "alice">>, <<"1">>}
GroupLine(name, pw, g, m) == [f |-> <<name, pw, g, "list">>, members |-> m]
MCGroups == {NoFile} \cup {<<GroupLine("video", pw, "1", m), GroupLine("audio", "x", "0", n), GroupLine("gpu", "x", "2", n)>> :
                           pw \in {"x", ""}, m \in Members, n \in Members}

(* Hosts with up to two spec files in two directories: the device with a     *)
(* variable the image also sets, another device of the same kind, another    *)
(* kind, hooks in both forms, one that does not parse, and one too large.    *)
E(env, mounts, hooks) ==
    [env |-> env, mounts |-> mounts, nodes |-> <<"nvidia0">>, hooks |-> hooks, gids |-> <<44>>]
NoEdits == [env |-> <<>>, mounts |-> <<>>, nodes |-> <<>>, hooks |-> <<>>, gids |-> <<>>]
Named(p) == [form |-> "named", path |-> p]
SpecFile(kind, edits, id, dev) ==
    [readable |-> TRUE, kind |-> kind, edits |-> edits, devices |-> <<[name |-> id, edits |-> dev]>>]

Gpu     == SpecFile("gpu", E(<<<<"NV", "void">>>>, <<"lib">>, <<Named("ldconfig")>>), "0", E(<<<<"DEV", "0">>>>, <<>>, <<>>))
OtherKind   == SpecFile("net", NoEdits, "0", E(<<>>, <<"net">>, <<>>))
Legacy  == SpecFile("gpu", NoEdits, "0", E(<<>>, <<>>, <<[form |-> "prestart"], [form |-> "legacy", list |-> <<"a", "b">>]>>))
NoPath  == SpecFile("gpu", E(<<>>, <<>>, <<Named("bad")>>), "0", NoEdits)
Large   == SpecFile("gpu", E(<<>>, <<"a", "b">>, <<>>), "0", E(<<>>, <<"c">>, <<>>))

Dir(fs) == [exists |-> TRUE, files |-> fs]
Missing == [exists |-> FALSE, files |-> {}]
MCHosts == {<<a, b>> : a \in {Missing, Dir({}), Dir({Gpu}), Dir({Gpu, OtherKind}), Dir({Legacy, OtherKind})},
                       b \in {Missing, Dir({Gpu, OtherKind}), Dir({NoPath}), Dir({Large})}}

Doc(f, s) == [root |-> "object", first |-> f, second |-> s]
Docs == {[root |-> "bad"], [root |-> "other"], Doc("a", "b"), Doc("a", "c"), Doc("missing", "b"), Doc("a", "missing"),
         Doc("nonstring", "b"), Doc("unknown", "nonstring"), Doc("a", "nonstring"), Doc("a", "unknown")}
Plain(route, method, doc, len) == [route |-> route, method |-> method, doc |-> doc, len |-> len,
                                   upgrade |-> FALSE, version |-> "", key |-> ""]
Posts == {Plain("event", "POST", doc, len) : doc \in Docs, len \in {2}}
           \cup {Plain("control", "POST", Doc("a", "b"), len) : len \in {0, 1, 3, 4, 5}}
           \cup {Plain(r, m, Doc("a", "b"), 0) : r \in {"unknown", "healthz", "status", "event", "subscribe"}, m \in {"GET", "POST"}}
Handshakes == {[route |-> "subscribe", method |-> m, doc |-> [root |-> "bad"], len |-> 0,
                upgrade |-> TRUE, version |-> v, key |-> k] :
                 m \in {"GET", "OTHER"}, v \in {"13", "8"}, k \in {"good", "bad"}}
MCRequests == Posts \cup Handshakes

\* To the alternate server no handshake is refused, and one may ask for the status.
CcRequests == Posts \cup {r \in Handshakes : r.version = "13" /\ r.key = "good"}
                \cup {[route |-> "status", method |-> "GET", doc |-> [root |-> "bad"], len |-> 0,
                       upgrade |-> TRUE, version |-> "13", key |-> "good"]}

\* The answers that are no versions, as DepsReport names them.
Failed == <<-1, -1>>
NoVersion == <<-2, -2>>
Offline == <<-3, -3>>
NoMajor == -4

(* A small instance of DepsReport: two architecture twins and other pins of    *)
(* one Go module, a date-tagged image, a floating image, an action, an image   *)
(* id, a digest pin, an inventory row and a hash; rules that are scoped,       *)
(* unscoped, expired, malformed and unjustified.                               *)
Go(arch, file, cur, answer) ==
  [cat |-> "go", name |-> "m", arch |-> arch, file |-> file, integrity |-> FALSE, inventory |-> FALSE, digest |-> FALSE,
   cur |-> cur, floating |-> FALSE, sha |-> FALSE, tier |-> 3, answer |-> answer]
Other(cat, name, tier, cur, answer) == [Go("", "f1", cur, answer) EXCEPT !.cat = cat, !.name = name, !.tier = tier]

MCPins ==
  {Go("amd64", "f1", <<1, 0>>, <<2, 0>>), Go("arm64", "f1", <<1, 0>>, <<1, 0>>), Go("amd64", "f2", <<1, 0>>, Failed),
   Go("", "f2", <<0, 1>>, <<0, 2>>), Go("arm64", "f2", <<1, 0>>, Offline),
   Other("base-image", "debian", 1, <<1, 0>>, <<1, 1>>), [Other("base-image", "al", 1, <<3, 0>>, <<3, 1>>) EXCEPT !.floating = TRUE],
   Other("ci-action", "co", 2, <<4, 0>>, <<5, 0>>), Other("ci-action", "co", 2, <<NoMajor, 0>>, <<5, 0>>),
   [Other("ci-action", "co", 2, <<NoMajor, 1>>, <<5, 0>>) EXCEPT !.sha = TRUE],
   Other("ami", "i", 1, <<1, 0>>, <<0, 9>>), Other("go", "e", 3, <<1, 0>>, NoVersion),
   [Other("base-image", "debian", 1, <<1, 2>>, NoVersion) EXCEPT !.digest = TRUE],
   [Other("go", "t", 3, <<1, 0>>, Failed) EXCEPT !.inventory = TRUE],
   [Other("go", "h", 3, <<1, 0>>, Failed) EXCEPT !.integrity = TRUE]}

Rule(name, arch, file, until, reason) == [cat |-> "go", name |-> name, arch |-> arch, file |-> file, until |-> until, reason |-> reason]
MCRuleSets == {{}, {Rule("m", "amd64", "f2", 0, TRUE)}, {Rule("m", "amd64", "any", 5, TRUE)}, {Rule("m", "amd64", "f1", 5, TRUE)},
               {Rule("m", "amd64", "f2", 4, TRUE)}, {Rule("m", "amd64", "f2", -1, TRUE), Rule("e", "", "f1", 6, TRUE)},
               {Rule("m", "amd64", "f1", 6, TRUE), Rule("e", "", "any", 6, FALSE)}}

(* Versions of one or two characters, and longer ones with leading zeros,     *)
(* letters, prereleases and prefixes.                                         *)
MCVersions ==
  {<<"0">>, <<"1">>, <<"0", "1">>, <<"1", "a">>, <<"a">>, <<"1", ".">>, <<"v", "1">>, <<"1", ".", "0">>, <<"1", ".", "2">>,
   <<"1", ".", "1", "0">>, <<"1", ".", "a">>, <<"1", ".", "0", "a">>, <<"1", "-", "a">>, <<"1", "-", "1">>, <<"1", "-", "1", "0">>,
   <<"1", "-", "2">>, <<"1", "-">>, <<"1", "-", "a", ".", "1">>, <<"1", "-", "a", ".", "b">>, <<"1", "-", "a", "+", "1">>}

(* The password file as an argument or in the environment, every outcome in  *)
(* both forms, with and without NULs and white space.                        *)
UpdateSettings == [arg : {"absent", "", "password", "missing"}, env : {"absent", "password", "empty"}]
UpdateOutcomes == {[changed |-> c, form |-> f, nul |-> n, pad |-> p, errors |-> e] :
                 c \in {"updated", "same", "failed"}, f \in {"classic", "xml"}, n \in BOOLEAN,
                 p \in {<<>>, <<" ">>}, e \in {"1", "10"}}

(* JSON documents: objects under the keys of the path and another, with      *)
(* strings, numbers and lists, beside a literal or a list of objects.        *)
Leaf(kind, v) == <<kind, v>>
Arr(elems)    == <<"arr", elems>>
Obj(members)  == <<"obj", members>>    \* a sequence of <<key, tree>>
Digest        == Obj(<<<<"digest", Leaf("str", "c")>>>>)

Leaves  == {Leaf("str", "a"), Leaf("num", 1)}
             \cup {Arr(s) : s \in {<<>>, <<Leaf("str", "a")>>, <<Leaf("str", "a"), Leaf("str", "c")>>}}
KeyPairs == {<<"digest", "config">>, <<"x", "digest">>}
Inner   == {Obj(<<<<k, v>>>>) : k \in {"config", "digest"}, v \in Leaves}
             \cup {Obj(<<<<kl[1], v>>, <<kl[2], w>>>>) : kl \in KeyPairs, v \in Leaves, w \in Leaves}
MCTrees == UNION {{Obj(<<<<k, o>>>>), Obj(<<<<"y", v>>, <<k, o>>>>), Obj(<<<<k, o>>, <<"y", v>>>>)} :
                    k \in {"config", "x"}, o \in Inner, v \in {Leaf("lit", "null"), Arr(<<Digest>>)}}
MCWants == [kind : {"str", "int", "strs"}, path : {<<"config", "digest">>}]

(* Field sets of the spec writer. *)
Bind == [destination |-> "/tmp", type |-> "bind", source |-> "/tmp", options |-> <<"rbind", "rw">>]
Bare == [destination |-> "/x", type |-> "", source |-> "", options |-> <<>>]

AllSpecs ==
    [uid : {0}, gid : {7}, cwd : {"", "/w"}, host_network : {TRUE, FALSE},
     hostname : {"", "h"}, cgroups : {"", "/ns/id"},
     env : {<<>>, <<"A=1", "B=2">>}, args : {<<>>, <<"/entrypoint">>}, caps : {<<>>, <<"CAP_SYS_NICE">>},
     gids : {<<>>, <<5, 6>>}, mounts : {<<>>, <<Bind, Bare>>},
     annotations : {<<>>, <<<<"k", "v">>>>, <<<<"k", "v">>, <<"l", "w">>>>, <<<<"k">>>>}]
      \cup [uid : {0}, gid : {7}, cwd : {""}, host_network : {TRUE}, hostname : {""}, cgroups : {""},
            env : {<<"A", "B", "C", "D">>, <<>>}, args : {<<"a", "b", "c", "d">>}, caps : {<<>>},
            gids : {<<>>}, mounts : {<<>>}, annotations : {<<>>}]

\* Fewer combinations: the lists are empty together or not.
MCSpecs == {s \in AllSpecs : /\ (s.env = <<>>) = (s.args = <<>>)
                        /\ (s.gids = <<>>) = (s.caps = <<>>)
                        /\ (s.hostname = "") = (s.cwd = "")
                        /\ s.host_network = (s.cgroups = "")}

(* Two names and two values; one field is in the static table.  The field  *)
(* with the second name and value takes two bytes, the others one.         *)
MCSize(f) == IF f.name = "n2" /\ f.value = "v2" THEN 2 ELSE 1
MCStatic == <<[name |-> "n1", value |-> "v1"]>>

(* Four symbols with the codes 0, 10, 110, 1110 and EOS 11111 in octets of *)
(* four bits.                                                              *)
MCCodes == <<<<0>>, <<1, 0>>, <<1, 1, 0>>, <<1, 1, 1, 0>>, <<1, 1, 1, 1, 1>>>>
MCInputs == UNION {[1 .. 4 * k -> 0 .. 1] : k \in 0 .. 2}

(* Every well-formed sequence of up to three frames: a HEADERS without    *)
(* END_HEADERS is followed by CONTINUATIONs up to one that has it.         *)
MCFrames == [type : {"HEADERS", "CONTINUATION", "DATA"}, len : 0 .. 2, end : BOOLEAN]
WellFormed(s) ==
    /\ \A n \in 1 .. Len(s) :
         /\ s[n].type = "CONTINUATION" <=> n > 1 /\ ~s[n - 1].end
         /\ s[n].type = "DATA" => s[n].end
    /\ s[Len(s)].end
MCScripts == {s \in UNION {[1 .. k -> MCFrames] : k \in 1 .. 3} : WellFormed(s)}

-----------------------------------------------------------------------------
CF == INSTANCE Config WITH
    Pivots <- {"EGRESS_SNAPSHOT_ID", "FFMPEG_NICE", "DDNS_HOST"}, Args <- MCArgs, Texts <- DurTexts,
    MS <- 100, SEC <- 1000, MIN <- 6000, env <- v1, args <- v2, c <- v3, go <- v4, text <- v1,
    conf <- v2, serv <- v3
EF == INSTANCE EnvFile WITH
    Names <- {"A", "B"}, Settings <- EnvSettings, LINE_MAX <- 14, Pieces <- MCPieces,
    MaxPieces <- MaxPieces, NAME_MAX <- 3, listing <- v1, file <- v2, pos <- v3, env <- v4, rc <- v5,
    parts <- v1, buf <- v2, i <- v3, out <- v4, outfile <- v5
SS == INSTANCE StageSpec WITH
    BufferSizes <- {0, 1, 255}, Timeouts <- {0, 1}, MaxInputs <- 4, HostRoots <- MCRoots,
    IdMaps <- MCIds, wsingle <- v1, buffer <- v2, timeout <- v3, go <- v4, c <- v5, inputs <- v6,
    answer <- v7, root <- v1, ids <- v2, single <- v3, layout <- v4, goLayout <- v5, stage <- v6,
    built <- v7, goBuilt <- v8
OC == INSTANCE OciSpec WITH
    Images <- MCImages, Stages <- MCStages, EditSets <- MCEdits, MAX_ENV <- 3, MAX_GIDS <- 2,
    MaxFailures <- 1, Users <- MCUsers, Passwds <- MCPasswds, Groups <- MCGroups,
    NumberOf <- MCNumberOf, UidMod <- 4, MAX_USER_GIDS <- 3, image <- v1, spec <- v2, cdi <- v3,
    sections <- v4, todo <- v5, json <- v6, rc <- v7, failures <- v8, user <- v1, passwd <- v2,
    group <- v3, pc <- v4, uid <- v5, gid <- v6, gids <- v7
CD == INSTANCE Cdi WITH
    Workers <- {"w1"}, Hosts <- MCHosts, MaxOps <- 2, Ref <- [kind |-> "gpu", id |-> "0"],
    SpecEnv <- {}, ImageEnv <- {"NV"}, MAX_SPECS <- 3, MAX_DEVICES <- 4, MAX_ENV <- 2, MAX_MOUNTS <- 2,
    MAX_GIDS <- 16, host <- v1, specs <- v2, scanned <- v3, pending <- v4, valid <- v5, op <- v6,
    todo <- v7, built <- v8, ops <- v9
HD == INSTANCE HttpDispatch WITH
    Requests <- MCRequests, BodyMax <- 3, MaxRequests <- 2, req <- v1, sent <- v2, session <- v3,
    answers <- v4, submitted <- v5, reconciles <- v6, closed <- v7
HA == INSTANCE HttpDispatch WITH
    Requests <- CcRequests, BodyMax <- 3, MaxRequests <- 2, req <- v1, sent <- v2, session <- v3,
    answers <- v4, submitted <- v5, reconciles <- v6, closed <- v7
DR == INSTANCE DepsReport WITH
    Pins <- MCPins, RuleSets <- MCRuleSets, UnknownSets <- {{}, {"f2"}}, Today <- 5, MaxPins <- 2,
    Versions <- MCVersions, MaxListing <- 3, pins <- v1, rules <- v2, unknowns <- v3, opts <- v4,
    pc <- v5, i <- v6, all <- v7, ignores <- v8, findings <- v9, inventory <- v10, integrity <- v11,
    unknownEntries <- v12, counts <- v13, strictError <- v14, listing <- v1, yanked <- v2, vi <- v3,
    latest <- v4
DU == INSTANCE Ddns WITH
    Names <- {}, Addrs <- {}, MaxAddrs <- 0, DNS_TRIES <- 1, DEFAULT_TRIES <- 1, MAX_NS_IPS <- 1,
    Settings <- UpdateSettings, Outcomes <- UpdateOutcomes, opts <- v1, pc <- v2, query <- v3,
    nslist <- v4, ns_ips <- v5, via <- v6, out <- v7, lines <- v8, rc <- v9, set <- v1, outcome <- v2,
    wire <- v3, reply <- v4, upc <- v5, urc <- v6
CJ == INSTANCE CcJson WITH
    ArrMax <- 1, Trees <- MCTrees, Wants <- MCWants, Bytes <- {97, 34, 92, 10, 1, 60, 195},
    Units <- {65, 233, 8364, 55357}, MaxLen <- 3, MaxCap <- 5, Specs <- {}, FieldMax <- 3, Slack <- 1,
    doc <- v1, want <- v2, pos <- v3, stack <- v4, path <- v5, mode <- v6, got <- v7, rc <- v8,
    tree <- v9, whole <- v10, text <- v1, json <- v2, spos <- v3, scap <- v4, out <- v5, res <- v6,
    spec <- v9, cap <- v10, todo <- v11, build <- v12
CS == INSTANCE CcJson WITH
    ArrMax <- 4, Trees <- {}, Wants <- {}, Bytes <- {}, Units <- {}, MaxLen <- 0, MaxCap <- 0,
    Specs <- MCSpecs, FieldMax <- 3, Slack <- 1, doc <- v1, want <- v2, pos <- v3, stack <- v4,
    path <- v5, mode <- v6, got <- v7, rc <- v8, tree <- v9, whole <- v10, text <- v1, json <- v2,
    spos <- v3, scap <- v4, out <- v5, res <- v6, spec <- v9, cap <- v10, todo <- v11, build <- v12
HP == INSTANCE H2cCodec WITH
    Names <- {"n1", "n2"}, Values <- {"v1", "v2"}, SizeOf <- MCSize, Static <- MCStatic,
    DefaultMax <- 3, MaxEntries <- 3, Limits <- {2, 5}, CcLimits <- {5}, Resizes <- {2},
    MaxFields <- MaxFields, MaxChanges <- 2, Group <- 2, Masks <- {1, 3, 7}, Groups <- 4,
    Largest <- 12, Caps <- 0 .. 5, MaxOctets <- 5, IntValues <- 0 .. 12, Threads <- {"t1"},
    Codes <- MCCodes, Octet <- 4, Inputs <- MCInputs, MaxNodes <- 11, Scripts <- MCScripts,
    HdrLen <- 2, MaxBlock <- 3, direction <- v1, enc <- v2, dec <- v3, update <- v4, wire <- v5,
    news <- v6, sent <- v7, got <- v8, changes <- v9, bad <- v10, mode <- v1, value <- v2, mask <- v3,
    cap <- v4, buf <- v5, input <- v6, ioff <- v7, acc <- v8, shift <- v9, result <- v10, node <- v1,
    nnodes <- v2, built <- v3, th <- v4, script <- v1, arrived <- v2, off <- v3, hdr <- v4, fill <- v5,
    pay <- v6, frames <- v7, blk <- v8, blocks <- v9, pc <- v10
EP == INSTANCE Entrypoint WITH
    MaxStarts <- 2, envfile <- v1, secret <- v2, socket <- v3, output <- v4, env <- v5, pc <- v6,
    starts <- v7, renderOnly <- v8
SD == INSTANCE StreamDeck WITH
    Sockets <- {}, Status <- {}, MaxBackoff <- 1, MaxHides <- 0, MaxDrops <- 0, MaxChanges <- 0,
    MaxRefused <- 0, Keys <- {1, 2}, MaxTasks <- 2, MaxAppears <- MaxAppears, ws <- v1,
    connected <- v2, backoff <- v3, reconnectTimer <- v4, stableTimer <- v5, closedByUs <- v6,
    last <- v7, sock <- v8, gotMessage <- v9, inbox <- v10, timers <- v11, visible <- v12, ui <- v13,
    status <- v14, hides <- v14, drops <- v14, changes <- v14, refused <- v14, keys <- v1,
    linked <- v2, uiState <- v3, tasks <- v4, face <- v5, stages <- v6, told <- v7, appears <- v8

\* The variables after the first n, and that they are unused.
t13 == <<v14>>
t12 == <<v13, t13>>
t11 == <<v12, t12>>
t10 == <<v11, t11>>
t9 == <<v10, t10>>
t8 == <<v9, t9>>
t7 == <<v8, t8>>
t6 == <<v7, t7>>
t5 == <<v6, t6>>
t4 == <<v5, t5>>
t3 == <<v4, t4>>
z13 == v14 = 0
z12 == v13 = 0 /\ z13
z11 == v12 = 0 /\ z12
z10 == v11 = 0 /\ z11
z9 == v10 = 0 /\ z10
z8 == v9 = 0 /\ z9
z7 == v8 = 0 /\ z8
z6 == v7 = 0 /\ z7
z5 == v6 = 0 /\ z6
z4 == v5 = 0 /\ z5
z3 == v4 = 0 /\ z4

\* The sizes of the instances are possible ones, and the code of DecodesRight
\* is a prefix code.
ASSUME InstanceSizes ==
    /\ HP!IntAssumption /\ HP!HuffAssumption /\ HP!FramesAssumption
    /\ SD!ToggleAssumption

vars == <<part, v1, v2, v3, t3>>

Init ==
    /\ part \in Parts
    /\ \/ part = "config" /\ CF!ConfigInit /\ z4
       \/ part = "duration" /\ CF!DurInit /\ z3
       \/ part = "env file" /\ EF!EnvInit /\ z5
       \/ part = "template" /\ EF!TmplInit /\ z5
       \/ part = "wiring" /\ SS!WireInit /\ z7
       \/ part = "stage spec" /\ SS!StartInit /\ (v2 = DefaultIds \/ Len(v1) <= 1) /\ z8
       \/ part = "oci spec" /\ OC!OciInit /\ z8
       \/ part = "oci user" /\ OC!UserInit /\ z7
       \/ part = "cdi" /\ CD!Init /\ z9
       \/ part = "http" /\ HD!HttpInit /\ z7
       \/ part = "cc http" /\ HA!HttpInit /\ z7
       \/ part = "report" /\ DR!ReportInit
       \/ part = "versions" /\ DR!VersionInit /\ z4
       \/ part = "ddns" /\ DU!UpdateInit /\ z6
       \/ part = "json" /\ CJ!JsonInit /\ z10
       \/ part = "string" /\ CJ!StrInit /\ z6
       \/ part = "cc spec" /\ CS!SInit /\ z12
       \/ part = "hpack" /\ HP!HpackInit /\ z10
       \/ part = "integer" /\ HP!IntInit /\ z10
       \/ part = "huffman" /\ HP!HuffInit /\ z4
       \/ part = "frames" /\ HP!FramesInit /\ z10
       \/ part = "entrypoint" /\ EP!Init /\ z8
       \/ part = "button" /\ SD!ToggleInit /\ z8

Next ==
    \/ part = "config" /\ CF!ConfigNext /\ UNCHANGED <<part, t4>>
    \/ part = "duration" /\ CF!DurNext /\ UNCHANGED <<part, t3>>
    \/ part = "env file" /\ EF!EnvNext /\ UNCHANGED <<part, t5>>
    \/ part = "template" /\ EF!TmplNext /\ UNCHANGED <<part, t5>>
    \/ part = "wiring" /\ SS!WireNext /\ UNCHANGED <<part, t7>>
    \/ part = "stage spec" /\ SS!StartNext /\ UNCHANGED <<part, t8>>
    \/ part = "oci spec" /\ OC!OciNext /\ UNCHANGED <<part, t8>>
    \/ part = "oci user" /\ OC!UserNext /\ UNCHANGED <<part, t7>>
    \/ part = "cdi" /\ CD!Next /\ UNCHANGED <<part, t9>>
    \/ part = "http" /\ HD!HttpNext /\ UNCHANGED <<part, t7>>
    \/ part = "cc http" /\ HA!CcHttpNext /\ UNCHANGED <<part, t7>>
    \/ part = "report" /\ DR!ReportNext /\ UNCHANGED part
    \/ part = "versions" /\ DR!VersionNext /\ UNCHANGED <<part, t4>>
    \/ part = "ddns" /\ DU!UpdateNext /\ UNCHANGED <<part, t6>>
    \/ part = "json" /\ CJ!JsonNext /\ UNCHANGED <<part, t10>>
    \/ part = "string" /\ CJ!StrNext /\ UNCHANGED <<part, t6>>
    \/ part = "cc spec" /\ CS!SNext /\ UNCHANGED <<part, t12>>
    \/ part = "hpack" /\ HP!HpackNext /\ UNCHANGED <<part, t10>>
    \/ part = "integer" /\ HP!IntNext /\ UNCHANGED <<part, t10>>
    \/ part = "huffman" /\ HP!HuffNext /\ UNCHANGED <<part, t4>>
    \/ part = "frames" /\ HP!FramesNext /\ UNCHANGED <<part, t10>>
    \/ part = "entrypoint" /\ EP!Next /\ UNCHANGED <<part, t8>>
    \/ part = "button" /\ SD!ToggleNext /\ UNCHANGED <<part, t8>>

Spec == Init /\ [][Next]_vars

-----------------------------------------------------------------------------
(* What the C port computes is what the Go controller, or the library it      *)
(* calls, computes from the same input: the settings and the durations read,  *)
(* the wants and paths a request is routed to (so never both pipelines), the  *)
(* mounts, arguments and id a stage starts with, the spec with its device     *)
(* rules, the user and groups an image names, and the edits of a device.      *)
MatchesReference ==
    /\ part = "config" => CF!PortAgrees
    /\ part = "duration" => CF!ReadAlike
    /\ part = "wiring" => SS!PortRoutes /\ SS!OnePipeline
    /\ part = "stage spec" => SS!SameStart
    /\ part = "oci spec" => OC!SameSpecAsGo /\ OC!DevicesUsable
    /\ part = "oci user" => OC!UserAsNamed
    /\ part = "cdi" => CD!DeviceArrives

(* What one end writes the other reads back, however it arrives: a listing of *)
(* settings, a JSON value at its path, an escaped string, the alternate       *)
(* client's spec (whose size is computed before it is written), header fields *)
(* through both HPACK tables, integers of any prefix, Huffman codes, and      *)
(* frames and header blocks cut at any octet.                                 *)
ReadsBack ==
    /\ part = "env file" => EF!ListingReadsBack
    /\ part = "json" => CJ!Extracted
    /\ part = "string" => CJ!StringsRoundTrip
    /\ part = "cc spec" => CS!BuildIsExact /\ CS!SpecReadsBack
    /\ part = "hpack" => HP!TablesFit /\ HP!FieldsArrive /\ HP!EncoderIsPrefix
    /\ part = "integer" => HP!RoundTrip /\ HP!ReadsByPlace
    /\ part = "huffman" => HP!DecodesRight
    /\ part = "frames" => HP!FramesIntact /\ HP!FramesPrompt /\ HP!BlocksIntact /\ HP!NotRefused

(* What did not work is not passed off as done: -check-env succeeds exactly   *)
(* when a start would, a rendered file is whole or not there, the server      *)
(* starts with the configuration of its own settings and no old socket, a     *)
(* request is applied exactly when its sender is told so, the address updater *)
(* exits 0 exactly when the record changed, a document cut short is an error, *)
(* and a dependency report passes strictly only if every pin is in it,        *)
(* resolved against the greatest listed version, or excused.                  *)
FailuresAreTold ==
    /\ part = "config" => CF!CheckPredicts
    /\ part = "template" => EF!RenderedOrNone
    /\ part = "entrypoint" => EP!ConfigIsCurrent /\ EP!SocketIsFree
    /\ part = "http" => HD!AnswersFit /\ HD!AppliedMeansAnswered
    /\ part = "cc http" => HA!AnswersFit /\ HA!AppliedMeansAnswered
    /\ part = "ddns" => DU!ExitTellsOutcome
    /\ part = "json" => CJ!TruncatedIsLoud
    /\ part = "report" =>
          DR!StrictMatchesReport /\ DR!StrictTrusted /\ DR!NothingHidden /\ DR!CountsCover
    /\ part = "versions" => DR!LatestIsGreatest

(* The operator's controls do what they show and what they say.  However      *)
(* renders overlap, once none is under way every key shows what the button    *)
(* knows and is lit exactly when some egress stage is meant to run; a press   *)
(* asks for the opposite of what the key shows, also half way through a start *)
(* or a stop; and egress starts to be desired only while the ingress path is  *)
(* ready.                                                                     *)
ControlsObeyed ==
    /\ [](part = "button" => SD!KeysSettle /\ SD!LitMeansWanted)
    /\ [][/\ part = "button" => SD!Reverses
          /\ part = "wiring" => SS!GatedStep]_vars

=============================================================================
