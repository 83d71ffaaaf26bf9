------------------------------ MODULE EnvFile -------------------------------
EXTENDS Integers, Sequences, SequencesExt

(***************************************************************************)
(* The environment file between the program that writes it                  *)
(* (-print-env-example of main.c, go_quote) and the one that reads it       *)
(* (source_env_file of envfile.c): lines in a fixed buffer, comments, blank  *)
(* lines, an export prefix and quotes.  A file is a sequence of characters;  *)
(* "export " and a name are one character each.                              *)
(***************************************************************************)

CONSTANTS Names, Settings,   \* the listings: sequences of [name, value, form]
          LINE_MAX           \* STRIM_ENV_LINE_MAX, the terminator included

VARIABLES listing, file, pos, env, rc

envVars == <<listing, file, pos, env, rc>>

Blank == {" ", "tab"}
NoValue == <<"unset">>

\* go_quote: a quote and a backslash are escaped.
go_quote(v) == FlattenSeq([i \in DOMAIN v |-> IF v[i] \in {"q", "bs"} THEN <<"bs", v[i]>> ELSE <<v[i]>>])

\* print_env_example, and what an editor leaves: a note, an export, an indent.
Line(s) == (CASE s.form = "note"   -> <<"#", s.name, "=", "nl">>
              [] s.form = "blank"  -> <<" ", "nl">>
              [] s.form = "export" -> <<"export", " ">>
              [] s.form = "indent" -> <<"tab">>
              [] OTHER             -> <<>>)
           \o <<s.name, "=", "q">> \o go_quote(s.value) \o <<"q">>
           \o (IF s.form = "crlf" THEN <<"cr">> ELSE <<>>) \o <<"nl">>
print_env_example(l) == FlattenSeq([i \in DOMAIN l |-> Line(l[i])])

EnvInit ==
    /\ listing \in Settings /\ file = print_env_example(listing)
    /\ pos = 1 /\ env = [n \in Names |-> NoValue] /\ rc = "reading"

\* fgets: up to the newline, at most LINE_MAX - 1 characters.
fgets ==
    LET rest == SubSeq(file, pos, Len(file))
        nl == SelectInSeq(rest, LAMBDA ch : ch = "nl")
        n == IF nl = 0 THEN Len(rest) ELSE nl
    IN  SubSeq(rest, 1, IF n < LINE_MAX THEN n ELSE LINE_MAX - 1)

RECURSIVE Left(_), Right(_, _)
Left(s) == IF s # <<>> /\ Head(s) \in Blank THEN Left(Tail(s)) ELSE s
Right(s, set) == IF s # <<>> /\ Last(s) \in set THEN Right(Front(s), set) ELSE s

\* The newline goes, then the quotes if both are there.
Unquote(v) ==
    LET w == Right(v, {"nl", "cr"})
    IN  IF Len(w) >= 2 /\ Head(w) = "q" /\ Last(w) = "q" THEN SubSeq(w, 2, Len(w) - 1) ELSE w

\* One line: skipped, refused, or a variable set.
source_env_file ==
    /\ rc = "reading" /\ pos <= Len(file)
    /\ LET line == fgets
           trimmed == Left(line)
           p  == IF trimmed # <<>> /\ Head(trimmed) = "export" THEN Left(Tail(trimmed)) ELSE trimmed
           eq == SelectInSeq(p, LAMBDA ch : ch = "=")
           name == Right(SubSeq(p, 1, eq - 1), Blank)
       IN  IF trimmed = <<>> \/ Head(trimmed) \in {"nl", "cr", "#"}
             THEN pos' = pos + Len(line) /\ UNCHANGED <<env, rc>>
             ELSE IF eq = 0 \/ name = <<>> THEN rc' = "malformed" /\ UNCHANGED <<pos, env>>
             ELSE /\ env' = IF Len(name) = 1 /\ name[1] \in Names
                              THEN [env EXCEPT ![name[1]] = Unquote(SubSeq(p, eq + 1, Len(p)))] ELSE env
                  /\ pos' = pos + Len(line) /\ UNCHANGED rc
    /\ UNCHANGED <<listing, file>>

Eof ==
    /\ rc = "reading" /\ pos > Len(file)
    /\ rc' = "ok" /\ UNCHANGED <<listing, file, pos, env>>

EnvNext == source_env_file \/ Eof
EnvSpec == EnvInit /\ [][EnvNext]_envVars

AllPlain == \A i \in DOMAIN listing : Range(listing[i].value) \cap {"q", "bs"} = {}
Fits == \A i \in DOMAIN listing : Len(Line(listing[i])) < LINE_MAX
Want(n) ==
    LET k == SelectLastInSeq(listing, LAMBDA s : s.name = n) IN IF k = 0 THEN NoValue ELSE listing[k].value

(* A listing of plain values whose lines fit the buffer is read back exactly: *)
(* every variable has the value last written for it, and notes set nothing.   *)
ListingReadsBack ==
    rc # "reading" /\ Fits /\ AllPlain =>
       rc = "ok" /\ \A n \in Names : env[n] = Want(n)

-----------------------------------------------------------------------------
(***************************************************************************)
(* expand_template_file (envfile.c): the template is read whole, then        *)
(* expanded character by character into the output outfile; a write may fail at *)
(* any point.  A template is put together from pieces whose meaning is       *)
(* known, so that the expansion can be compared with it.                     *)
(***************************************************************************)

CONSTANTS Pieces,      \* [text, means]
          MaxPieces,   \* bound: pieces of a template
          NAME_MAX     \* the length a name must stay below, 256 in the code

VARIABLES parts, buf, i, out, outfile

tmplVars == <<parts, buf, i, out, outfile>>

Start == {"A", "B"}
NameChars == Start \cup {"1"}
getenv(name) == IF name = <<"A">> THEN <<"v", "$", "B">> ELSE <<>>   \* only A is set

TmplInit ==
    /\ parts \in UNION {[1..n -> Pieces] : n \in 0..MaxPieces}
    /\ buf = FlattenSeq([k \in DOMAIN parts |-> parts[k].text])
    /\ i = 1 /\ out = <<>> /\ outfile = "open"

is_env_name_valid(name) == name # <<>> /\ name[1] \in Start /\ Range(name) \subseteq NameChars

\* The position behind the longest run of name characters from k on.
RECURSIVE RunEnd(_)
RunEnd(k) == IF k <= Len(buf) /\ buf[k] \in NameChars THEN RunEnd(k + 1) ELSE k
Brace == LET rest == SubSeq(buf, i + 2, Len(buf)) IN SelectInSeq(rest, LAMBDA ch : ch = "}")

\* What is written for the character at i, and how far it goes.
Expand ==
    IF buf[i] # "$" \/ i = Len(buf) THEN <<<<buf[i]>>, 1>>
    ELSE IF buf[i + 1] = "$" THEN <<<<"$">>, 2>>
    ELSE IF buf[i + 1] = "{"
      THEN LET name == SubSeq(buf, i + 2, i + Brace)
           IN  IF Brace # 0 /\ Len(name) < NAME_MAX /\ is_env_name_valid(name)
                 THEN <<getenv(name), Brace + 2>> ELSE <<<<"$">>, 1>>
    ELSE LET name == SubSeq(buf, i + 1, RunEnd(i + 1) - 1)
         IN  IF buf[i + 1] \in Start /\ Len(name) < NAME_MAX THEN <<getenv(name), 1 + Len(name)>> ELSE <<<<"$">>, 1>>

expand_step ==
    /\ outfile = "open" /\ i <= Len(buf)
    /\ LET e == Expand IN out' = out \o e[1] /\ i' = i + e[2]
    /\ UNCHANGED <<parts, buf, outfile>>

\* fputc, fputs or fclose fails: the output is removed.
WriteFails ==
    /\ outfile = "open"
    /\ outfile' = "removed" /\ out' = <<>> /\ UNCHANGED <<parts, buf, i>>

Finish ==
    /\ outfile = "open" /\ i > Len(buf)
    /\ outfile' = "left" /\ UNCHANGED <<parts, buf, i, out>>

TmplNext == expand_step \/ WriteFails \/ Finish
TmplSpec == TmplInit /\ [][TmplNext]_tmplVars

(* An output outfile that is left behind is the whole template with every       *)
(* reference replaced by its value: values are not expanded again, a         *)
(* reference of another form is untouched, and no half of it survives a      *)
(* failed write.                                                             *)
RenderedOrNone == outfile = "left" => out = FlattenSeq([k \in DOMAIN parts |-> parts[k].means])
=============================================================================
