------------------------------- MODULE CcJson -------------------------------
(* The JSON of the alternate client (alternate/c/cc_ctr.c): the extractor, the *)
(* coding of strings, and the writer of the OCI spec.                         *)
EXTENDS Integers, Sequences, SequencesExt, TLC

(***************************************************************************)
(* The JSON path extractor of the alternate client (alternate/c/cc_ctr.c):  *)
(* the recursive descent over the manifest and the image config, one step   *)
(* per token, with the call stack explicit.  A token is a tuple: its kind   *)
(* first ("{", "}", "[", "]", ",", ":", "str", "long", "num", "lit"), then  *)
(* its value.  A "long" string does not fit CC_JSON_PATH_MAX but fits       *)
(* CC_CTR_DIGEST_MAX.  White space and escapes are left out (module         *)
(* CcString has the escapes); keys contain no dots.                         *)
(***************************************************************************)

CONSTANTS ArrMax,     \* CC_CTR_MAX_DIFFIDS
          Trees, Wants \* the documents, and what is looked for in them

VARIABLES doc,        \* the tokens
          want,       \* the capture target: [kind, path]
          pos, stack, path, mode, got, rc

jvars == <<doc, want, pos, stack, path, mode, got, rc>>

\* The kind of the token k places after the current one.
Tok(k) == IF pos + k <= Len(doc) THEN doc[pos + k][1] ELSE "eof"
Val    == doc[pos][2]

StartParse(d, w) ==
    /\ doc = d /\ want = w /\ pos = 1 /\ stack = <<>> /\ path = <<>>
    /\ mode = "value" /\ got = <<>> /\ rc = "notfound"

j_path_matches(kind) == want.kind = kind /\ want.path = path

\* j_path_set: the key below the first n components.
j_path_set(n, key) == Append(SubSeq(path, 1, n), key)

\* json_path_str, json_path_int and json_path_strs map any error to -1.
Fail ==
    /\ mode' = "done" /\ rc' = "error"
    /\ UNCHANGED <<doc, want, pos, stack, path, got>>

\* A value ended before token p: back to the caller's frame.
Return(p, frames) ==
    /\ pos' = p
    /\ stack' = frames
    /\ mode' = IF frames = <<>> THEN "done" ELSE "after"

Top == stack[Len(stack)]

ParseScalar ==
    /\ mode = "value" /\ Tok(0) \in {"str", "num", "lit"}
    /\ LET hit == \/ Tok(0) = "str" /\ j_path_matches("str")
                  \/ Tok(0) = "num" /\ j_path_matches("int")
       IN  /\ got' = IF hit THEN <<Val>> ELSE got
           /\ rc' = IF hit THEN "found" ELSE rc
    /\ Return(pos + 1, stack)
    /\ UNCHANGED <<doc, want, path>>

\* An empty object returns with the closing brace unread.
ParseObject ==
    /\ mode = "value" /\ Tok(0) = "{"
    /\ IF Tok(1) = "}"
         THEN Return(pos + 1, stack)
         ELSE /\ pos' = pos + 1 /\ mode' = "key"
              /\ stack' = Append(stack, [kind |-> "{", parent |-> Len(path), capture |-> FALSE])
    /\ UNCHANGED <<doc, want, path, got, rc>>

ObjectKey ==
    /\ mode = "key"
    /\ IF Tok(0) = "str" /\ Tok(1) = ":"
         THEN /\ path' = j_path_set(Top.parent, Val)
              /\ pos' = pos + 2 /\ mode' = "value"
              /\ UNCHANGED <<doc, want, stack, got, rc>>
         ELSE Fail

ParseArray ==
    /\ mode = "value" /\ Tok(0) = "["
    /\ LET capture == j_path_matches("strs")
       IN  /\ rc' = IF capture THEN "found" ELSE rc
           /\ IF Tok(1) = "]"
                THEN Return(pos + 2, stack)
                ELSE /\ pos' = pos + 1
                     /\ mode' = IF capture THEN "element" ELSE "value"
                     /\ stack' = Append(stack, [kind |-> "[", parent |-> Len(path),
                                                capture |-> capture])
    /\ UNCHANGED <<doc, want, path, got>>

\* An element of the captured array: a digest, and there must be room for it.
ArrayElement ==
    /\ mode = "element"
    /\ IF Tok(0) \in {"str", "long"} /\ Len(got) < ArrMax
         THEN /\ got' = Append(got, Val)
              /\ pos' = pos + 1 /\ mode' = "after"
              /\ UNCHANGED <<doc, want, stack, path, rc>>
         ELSE Fail

\* The tail of the loops of j_parse_object and j_parse_array.
AfterValue ==
    /\ mode = "after"
    /\ LET closing == IF Top.kind = "{" THEN "}" ELSE "]"
       IN  CASE Tok(0) = "," ->
                  /\ pos' = pos + 1
                  /\ path' = SubSeq(path, 1, Top.parent)
                  /\ mode' = IF Top.kind = "{" THEN "key"
                             ELSE IF Top.capture THEN "element" ELSE "value"
                  /\ UNCHANGED <<doc, want, stack, got, rc>>
             [] Tok(0) = closing ->
                  /\ path' = SubSeq(path, 1, Top.parent)
                  /\ Return(pos + 1, SubSeq(stack, 1, Len(stack) - 1))
                  /\ UNCHANGED <<doc, want, got, rc>>
             [] OTHER -> Fail

\* A string value too long for the local buffer, or nothing that starts a value.
ParseError ==
    /\ mode = "value" /\ Tok(0) \in {"long", "}", "]", ",", ":", "eof"}
    /\ Fail

Parse == \/ ParseScalar \/ ParseObject \/ ObjectKey \/ ParseArray
         \/ ArrayElement \/ AfterValue \/ ParseError

\* A document as a tree: <<"obj", members>>, <<"arr", elements>> or <<kind, value>>;
\* its tokens.
RECURSIVE Tokens(_)
Tokens(t) ==
    CASE t[1] = "obj" ->
           <<<<"{">>>>
             \o FlattenSeq([i \in DOMAIN t[2] |->
                  (IF i = 1 THEN <<>> ELSE <<<<",">>>>)
                    \o <<<<"str", t[2][i][1]>>, <<":">>>> \o Tokens(t[2][i][2])])
             \o <<<<"}">>>>
      [] t[1] = "arr" ->
           <<<<"[">>>>
             \o FlattenSeq([i \in DOMAIN t[2] |->
                  (IF i = 1 THEN <<>> ELSE <<<<",">>>>) \o Tokens(t[2][i])])
             \o <<<<"]">>>>
      [] OTHER -> <<t>>

\* The subtrees at a path of keys.
RECURSIVE At(_, _)
At(t, p) ==
    IF p = <<>> THEN {t}
    ELSE IF t[1] # "obj" THEN {}
    ELSE UNION {At(t[2][i][2], Tail(p)) : i \in {j \in DOMAIN t[2] : t[2][j][1] = Head(p)}}

KindOf == [str |-> {"str", "long"}, int |-> {"num"}, strs |-> {"arr"}]
Values(t) == IF t[1] = "arr" THEN [i \in DOMAIN t[2] |-> t[2][i][2]] ELSE <<t[2]>>

\* The elements of a list are read at the path of the list: the documents have
\* a list at the path only where a list is wanted, as manifests and configs do.
Schema(t, w) == \A u \in At(t, w.path) : u[1] = "arr" => w.kind = "strs"

VARIABLES tree,       \* the document
          whole       \* or the beginning of one

jsonVars == <<jvars, tree, whole>>

JsonInit ==
    /\ tree \in Trees
    /\ \E w \in {v \in Wants : Schema(tree, v)} :
         \/ whole = TRUE /\ StartParse(Tokens(tree), w)
         \/ /\ whole = FALSE
            /\ \E n \in 1..(Len(Tokens(tree)) - 1) : StartParse(SubSeq(Tokens(tree), 1, n), w)

JsonNext == Parse /\ UNCHANGED <<tree, whole>>
JsonSpec == JsonInit /\ [][JsonNext]_jsonVars

There == {t \in At(tree, want.path) : t[1] \in KindOf[want.kind]}

(* On a whole document the extractor returns what is at the path, reports   *)
(* it missing when nothing of the kind is there, and refuses a list with    *)
(* more elements than the caller has room for.                              *)
Extracted ==
    mode = "done" /\ whole =>
      IF There = {} THEN rc = "notfound"
      ELSE \E t \in There : IF Len(Values(t)) > ArrMax THEN rc = "error"
                            ELSE rc = "found" /\ got = Values(t)

(* A document cut short anywhere is an error, never an answer.              *)
TruncatedIsLoud == mode = "done" /\ ~whole => rc = "error"

-----------------------------------------------------------------------------
(***************************************************************************)
(* The string coding of the alternate client's JSON (alternate/c/cc_ctr.c): *)
(* jout_str, which escapes as Go's encoder does, and j_parse_string, which  *)
(* reads a string into a buffer of scap bytes.  Bytes are integers.          *)
(***************************************************************************)

CONSTANTS Bytes,      \* the bytes of a written string
          Units,      \* code units another encoder writes as \u escapes
          MaxLen, MaxCap

QUOTE == 34
BACKSLASH == 92
U == 117

\* "0123456789abcdef"
Hex(d)   == IF d < 10 THEN 48 + d ELSE 87 + d
UnHex(c) == IF c \in 48..57 THEN c - 48 ELSE c - 87

UEscape(cp) == <<BACKSLASH, U, Hex(cp \div 4096), Hex((cp \div 256) % 16),
                 Hex((cp \div 16) % 16), Hex(cp % 16)>>

Escaped(c) ==
    CASE c \in {QUOTE, BACKSLASH} -> <<BACKSLASH, c>>
      [] c = 10                 -> <<BACKSLASH, 110>>
      [] c = 13                 -> <<BACKSLASH, 114>>
      [] c = 9                  -> <<BACKSLASH, 116>>
      [] c \in {60, 62, 38}     -> UEscape(c)       \* < > &
      [] c < 32                 -> UEscape(c)
      [] OTHER                  -> <<c>>

jout_str(s) == <<QUOTE>> \o FlattenSeq([i \in DOMAIN s |-> Escaped(s[i])]) \o <<QUOTE>>

\* The UTF-8 of a code unit; a high surrogate becomes U+FFFD.
Utf8(cp) ==
    CASE cp \in 55296..56319 -> <<239, 191, 189>>
      [] cp >= 2048 -> <<224 + (cp \div 4096), 128 + ((cp \div 64) % 64), 128 + (cp % 64)>>
      [] cp \in 128..2047 -> <<192 + (cp \div 64), 128 + (cp % 64)>>
      [] OTHER -> <<cp>>

\* The one-letter escapes: " \ / b f n r t.
Unescape == (QUOTE :> QUOTE) @@ (BACKSLASH :> BACKSLASH) @@ (47 :> 47) @@ (98 :> 8)
            @@ (102 :> 12) @@ (110 :> 10) @@ (114 :> 13) @@ (116 :> 9)

VARIABLES text,       \* what the string stands for
          json, spos,  \* the JSON, and how much of it is read
          scap, out,
          res         \* "run", "ok" or "error"

strVars == <<text, json, spos, scap, out, res>>

Texts == UNION {[1..n -> Bytes] : n \in 0..MaxLen}
Foreign == UNION {[1..n -> Units] : n \in 1..2}

StrInit ==
    /\ scap \in 1..MaxCap
    /\ spos = 2 /\ out = <<>> /\ res = "run"
    /\ \/ text \in Texts /\ json = jout_str(text)
       \/ \E f \in Foreign :
            /\ text = FlattenSeq([i \in DOMAIN f |-> Utf8(f[i])])
            /\ json = <<QUOTE>> \o FlattenSeq([i \in DOMAIN f |-> UEscape(f[i])]) \o <<QUOTE>>

\* The bytes are stored if they fit, with a NUL after them.
Put(bytes, p) ==
    IF Len(out) + Len(bytes) >= scap
      THEN res' = "error" /\ UNCHANGED <<out, spos>>
      ELSE out' = out \o bytes /\ spos' = p /\ UNCHANGED res

ReadPlain ==
    /\ res = "run" /\ spos <= Len(json) /\ json[spos] \notin {QUOTE, BACKSLASH}
    /\ Put(<<json[spos]>>, spos + 1)
    /\ UNCHANGED <<text, json, scap>>

ReadEscape ==
    /\ res = "run" /\ spos < Len(json) /\ json[spos] = BACKSLASH
    /\ IF json[spos + 1] = U
         THEN Put(Utf8(FoldLeft(LAMBDA acc, c : acc * 16 + UnHex(c), 0,
                                SubSeq(json, spos + 2, spos + 5))), spos + 6)
         ELSE Put(<<Unescape[json[spos + 1]]>>, spos + 2)
    /\ UNCHANGED <<text, json, scap>>

ReadEnd ==
    /\ res = "run" /\ json[spos] = QUOTE
    /\ spos' = spos + 1 /\ res' = "ok"
    /\ UNCHANGED <<text, json, scap, out>>

StrNext == ReadPlain \/ ReadEscape \/ ReadEnd
StrSpec == StrInit /\ [][StrNext]_strVars

(* What the writer escaped, or another encoder wrote as \u escapes, is read  *)
(* back byte for byte up to the closing quote; a string that does not fit    *)
(* the buffer with its NUL is refused, never cut.                            *)
StringsRoundTrip ==
    /\ res = "ok" => out = text /\ spos = Len(json) + 1
    /\ res = "error" => Len(text) >= scap
    /\ Len(out) < scap

-----------------------------------------------------------------------------
(***************************************************************************)
(* The OCI spec builder of the alternate client (alternate/c/cc_ctr.c): the *)
(* writer with its fixed buffer, the order and the omission of the fields,  *)
(* and, to read the result, the extractor of module CcJson.  The document   *)
(* is a sequence of tokens, each one place wide; a jout_raw writes several  *)
(* at once and a jout_ch one.  The fixed tables are shortened; "" is NULL.  *)
(***************************************************************************)

CONSTANTS Specs,      \* the field sets
          FieldMax,   \* the bound of every list of the field set
          Slack       \* bound: how far the buffer is from the exact size

VARIABLES spec, cap, todo, build

svars == <<jvars, spec, cap, todo, build>>

Str(s)   == <<"str", s>>
Num(n)   == <<"num", n>>
Raw(t)   == <<[whole |-> TRUE, toks |-> t]>>
Ch(t)    == <<[whole |-> FALSE, toks |-> <<t>>]>>
Punct(c) == Ch(<<c>>)
Field(k) == Raw(<<<<",">>, Str(k), <<":">>>>)
Open(k, c, first) == Raw(<<<<",">>, Str(k), <<":">>, <<c>>, Str(first), <<":">>>>)
When(c, w) == IF c THEN w ELSE <<>>

\* The concatenation of a sequence of sequences.
Concat(ss) == LET upto[i \in 0..Len(ss)] == IF i = 0 THEN <<>> ELSE upto[i - 1] \o ss[i] IN upto[Len(ss)]

\* Elements separated by commas.
Listed(ws) == Concat([i \in DOMAIN ws |-> When(i > 1, Punct(",")) \o ws[i]])
Map(Op(_), s) == [i \in DOMAIN s |-> Op(s[i])]

ChStr(s) == Ch(Str(s))
ChNum(n) == Ch(Num(n))
jout_str_array(s) == Punct("[") \o Listed(Map(ChStr, s)) \o Punct("]")

jout_mount_json(m) ==
    Punct("{") \o Raw(<<Str("destination"), <<":">>>>) \o ChStr(m.destination)
       \o When(m.type # "", Field("type") \o ChStr(m.type))
       \o When(m.source # "", Field("source") \o ChStr(m.source))
       \o When(m.options # <<>>, Field("options") \o jout_str_array(m.options))
       \o Punct("}")

k_default_caps       == <<"CAP_CHOWN", "CAP_KILL">>
k_default_namespaces == <<"pid", "mount">>
k_masked_paths       == <<"/proc/kcore">>
k_readonly_paths     == <<"/proc/sys">>
k_default_mounts     == <<[destination |-> "/proc", type |-> "proc", source |-> "proc",
                           options |-> <<"nosuid">>]>>

User(s) ==
    Raw(<<<<",">>, Str("process"), <<":">>, <<"{">>, Str("user"), <<":">>, <<"{">>, Str("uid"), <<":">>>>)
      \o ChNum(s.uid) \o Field("gid") \o ChNum(s.gid)
      \o When(s.gids # <<>>, Raw(<<<<",">>, Str("additionalGids"), <<":">>, <<"[">>>>)
                               \o Listed(Map(ChNum, s.gids)) \o Punct("]"))
      \o Punct("}")

ProcessFields(s) ==
    When(s.args # <<>>, Field("args") \o jout_str_array(s.args))
      \o When(s.env # <<>>, Field("env") \o jout_str_array(s.env))
      \o Field("cwd") \o ChStr(IF s.cwd = "" THEN "/" ELSE s.cwd)

\* The same list three times: the defaults, then the added ones.
Capabilities(s) ==
    LET caps == jout_str_array(k_default_caps \o s.caps)
    IN  Open("capabilities", "{", "bounding") \o caps \o Field("effective") \o caps
          \o Field("permitted") \o caps \o Punct("}")

Root(s) ==
    Raw(<<<<",">>, Str("rlimits"), <<":">>, <<"[">>, <<"{">>, Str("hard"), <<":">>, Num(1024), <<"}">>, <<"]">>>>)
      \o Field("noNewPrivileges") \o Raw(<<<<"lit", "true">>>>)
      \o Raw(<<<<"}">>, <<",">>, Str("root"), <<":">>, <<"{">>, Str("path"), <<":">>, Str("rootfs"), <<"}">>>>)
      \o When(s.hostname # "", Field("hostname") \o ChStr(s.hostname))

Mounts(s) ==
    Raw(<<<<",">>, Str("mounts"), <<":">>, <<"[">>>>)
      \o Listed(Map(jout_mount_json, k_default_mounts))
      \o Concat(Map(LAMBDA m : Punct(",") \o jout_mount_json(m), s.mounts))
      \o Punct("]")

\* An annotation "k=v" is the pair <<k, v>>.
Annotations(s) ==
    When(s.annotations # <<>>,
         Raw(<<<<",">>, Str("annotations"), <<":">>, <<"{">>>>)
           \o Listed(Map(LAMBDA a : ChStr(a[1]) \o Punct(":") \o ChStr(a[2]), s.annotations))
           \o Punct("}"))

Linux(s) ==
    Open("linux", "{", "resources") \o Raw(<<<<"{">>, Str("devices"), <<":">>, <<"[">>, <<"{">>, Str("access"), <<":">>, Str("rwm"), <<"}">>, <<"]">>, <<"}">>>>)
      \o When(s.cgroups # "", Field("cgroupsPath") \o ChStr(s.cgroups))
      \o Raw(<<<<",">>, Str("namespaces"), <<":">>, <<"[">>>>)
      \o Listed(Map(LAMBDA n : Raw(<<<<"{">>, Str("type"), <<":">>>>) \o ChStr(n) \o Punct("}"),
                    k_default_namespaces \o IF s.host_network THEN <<>> ELSE <<"network">>))
      \o Punct("]") \o Field("maskedPaths") \o jout_str_array(k_masked_paths)
      \o Field("readonlyPaths") \o jout_str_array(k_readonly_paths) \o Raw(<<<<"}">>, <<"}">>>>)

Version == Raw(<<<<"{">>, Str("ociVersion"), <<":">>>>) \o ChStr("1.3.0")

Sections(s) == <<Version, User(s), ProcessFields(s), Capabilities(s), Root(s),
                 Mounts(s), Annotations(s), Linux(s)>>

Writes(s)   == Concat(Sections(s))
Written(ws) == Concat(Map(LAMBDA w : w.toks, ws))
Full(s)     == Concat(Map(Written, Sections(s)))

Lengths(s) == {Len(s.env), Len(s.args), Len(s.caps), Len(s.gids), Len(s.mounts), Len(s.annotations)}

\* A single component is an annotation without "=": the length of its key,
\* taken from the failed search, is never below the buffer's.
Rejected(s) ==
    IF \E n \in Lengths(s) : n > FieldMax THEN "badarg"
    ELSE IF \E i \in DOMAIN s.annotations : Len(s.annotations[i]) = 1 THEN "json"
    ELSE "writing"

SInit ==
    /\ spec \in Specs
    /\ build = Rejected(spec)
    /\ cap \in IF build = "writing" THEN (Len(Full(spec)) - Slack)..(Len(Full(spec)) + Slack) ELSE {1}
    /\ todo = IF build = "writing" THEN Writes(spec) ELSE <<>>
    /\ StartParse(<<>>, [kind |-> "none", path |-> <<>>])

Room == cap - Len(doc)

jout_ch(w) == IF Room <= 1 THEN doc ELSE doc \o w.toks

\* A piece that does not fit is cut at the end of the buffer.
jout_raw(w) == doc \o SubSeq(w.toks, 1, IF Len(w.toks) >= Room THEN Room ELSE Len(w.toks))

Write ==
    /\ build = "writing" /\ todo # <<>>
    /\ doc' = IF Head(todo).whole THEN jout_raw(Head(todo)) ELSE jout_ch(Head(todo))
    /\ todo' = Tail(todo)
    /\ UNCHANGED <<want, pos, stack, path, mode, got, rc, spec, cap, build>>

Finish ==
    /\ build = "writing" /\ todo = <<>>
    /\ build' = IF Len(doc) >= cap THEN "toobig" ELSE "ok"
    /\ UNCHANGED <<jvars, spec, cap, todo>>

\* The fields a reader asks for, and what the field set says of each.
Fields(s) ==
    {[kind |-> "str", path |-> <<"process", "cwd">>, is |-> <<IF s.cwd = "" THEN "/" ELSE s.cwd>>],
     [kind |-> "int", path |-> <<"process", "user", "gid">>, is |-> <<s.gid>>],
     [kind |-> "strs", path |-> <<"process", "env">>, is |-> s.env],
     [kind |-> "strs", path |-> <<"process", "capabilities", "permitted">>, is |-> k_default_caps \o s.caps],
     [kind |-> "str", path |-> <<"hostname">>, is |-> When(s.hostname # "", <<s.hostname>>)],
     [kind |-> "str", path |-> <<"linux", "cgroupsPath">>, is |-> When(s.cgroups # "", <<s.cgroups>>)]}
      \cup {[kind |-> "str", path |-> <<"annotations", s.annotations[i][1]>>, is |-> <<s.annotations[i][2]>>] :
              i \in DOMAIN s.annotations}

Read ==
    /\ build = "ok"
    /\ \/ /\ want.kind = "none"
          /\ \E f \in Fields(spec) : want' = f
          /\ UNCHANGED <<doc, pos, stack, path, mode, got, rc>>
       \/ want.kind # "none" /\ Parse
    /\ UNCHANGED <<spec, cap, todo, build>>

SNext == Write \/ Finish \/ Read
SSpec == SInit /\ [][SNext]_svars

(* The spec is built exactly when it fits the buffer with its NUL, and then  *)
(* nothing of it is missing; a write past the end never goes unnoticed.      *)
BuildIsExact ==
    /\ Len(doc) <= cap
    /\ build = "ok" /\ want.kind = "none" => doc = Full(spec)
    /\ build = "toobig" => Len(Full(spec)) >= cap

(* A built spec is well formed, whatever fields are left out, and a reader   *)
(* finds every field of the field set under its name.                        *)
SpecReadsBack ==
    build = "ok" /\ mode = "done" =>
      /\ rc # "error" /\ pos = Len(doc) + 1
      /\ got = want.is
=============================================================================
