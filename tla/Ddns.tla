-------------------------------- MODULE Ddns --------------------------------
EXTENDS Integers, Sequences, SequencesExt

(***************************************************************************)
(* strim-ddns check (src/tools/ddns/main.c, run_check): find the domain's    *)
(* nameservers with the resolver, their addresses with the resolver, then    *)
(* ask those addresses, and only those, for the record.  Every query is a    *)
(* run of c-ares attempts that may be answered, refused, time out, or end    *)
(* with the event loop.                                                      *)
(***************************************************************************)

CONSTANTS Names,          \* the nameservers' names
          Addrs,          \* the nameservers' addresses
          MaxAddrs,       \* bound: addresses of one name
          DNS_TRIES,      \* DDNS_DNS_TRIES
          DEFAULT_TRIES,  \* the attempts of a channel without options (c-ares)
          MAX_NS_IPS      \* DDNS_MAX_NS_IPS

VARIABLES opts,           \* the arguments and the two overrides
          pc, query,      \* query: the attempts made and allowed, and the source asked
          nslist, ns_ips, via, out, lines, rc

checkVars == <<opts, pc, query, nslist, ns_ips, via, out, lines, rc>>

Ports == {"unset", "good", "junk", "zero", "big"}
NoQuery == [made |-> 0, allowed |-> 0, from |-> "none"]

CheckInit ==
    /\ opts \in [args : BOOLEAN, resolver : [ip : {"unset", "good", "bad"}, port : Ports], port : Ports]
    /\ pc = "start" /\ query = NoQuery
    /\ nslist = <<>> /\ ns_ips = <<>> /\ via = "none" /\ out = <<>> /\ lines = 0 /\ rc = -1

\* Every failure prints its one line and returns.
Fail(code) == pc' = "done" /\ rc' = code /\ lines' = lines + 1 /\ query' = NoQuery /\ UNCHANGED <<opts, out>>

\* 0: no override, 1: "ip" or "ip:port", -1: refused.
parse_resolver_override(o) ==
    IF o.ip = "unset" THEN 0 ELSE IF o.ip = "good" /\ o.port \in {"unset", "good"} THEN 1 ELSE -1
parse_authoritative_port(p) == IF p \in {"unset", "good"} THEN 0 ELSE -1

\* The production channel has no options; the override's has both limits.
init_resolver_channel ==
    [made |-> 0, allowed |-> IF parse_resolver_override(opts.resolver) > 0 THEN DNS_TRIES ELSE DEFAULT_TRIES, from |-> "resolver"]
\* A channel without servers falls back to the system's resolver (c-ares).
init_authoritative_channel(ips) ==
    [made |-> 0, allowed |-> DNS_TRIES, from |-> IF ips = <<>> THEN "resolver" ELSE "authoritative"]

run_check ==
    /\ pc = "start"
    /\ IF ~opts.args \/ parse_resolver_override(opts.resolver) < 0 \/ parse_authoritative_port(opts.port) < 0
         THEN Fail(2) /\ UNCHANGED <<nslist, ns_ips, via>>
         ELSE /\ pc' = "ns" /\ query' = init_resolver_channel
              /\ UNCHANGED <<opts, nslist, ns_ips, via, out, lines, rc>>

Asking == pc \in {"ns", "addr", "auth"}
More == Asking /\ query.made < query.allowed

\* run_dns_query: an attempt times out and another one is made.
Timeout ==
    /\ More /\ query.made + 1 < query.allowed
    /\ query' = [query EXCEPT !.made = @ + 1]
    /\ UNCHANGED <<opts, pc, nslist, ns_ips, via, out, lines, rc>>

\* What a nameserver's name resolves to.
Replies == UNION {[1..n -> Addrs] : n \in 1..MaxAddrs}

NsAnswered ==
    /\ pc = "ns"
    /\ \E s \in SetToSeqs(Names) \cup {<<n>> : n \in Names} : nslist' = s
    /\ pc' = "addr" /\ query' = init_resolver_channel
    /\ UNCHANGED <<opts, ns_ips, via, out, lines, rc>>
\* Refused, the last attempt timed out, select failed, or the loop drained.
NsFailed ==
    /\ pc = "ns"
    /\ Fail(1) /\ UNCHANGED <<nslist, ns_ips, via>>

\* Mutant: only the loop over the names looks at the table's size.
AddAddrsAll(addrs) == ns_ips \o addrs
AddAddrs(addrs) == SubSeq(ns_ips \o addrs, 1, IF Len(ns_ips \o addrs) < MAX_NS_IPS THEN Len(ns_ips \o addrs) ELSE MAX_NS_IPS)

\* Behind the last name, or with a full table: the direct query.
Direct(ips) ==
    IF ips = <<>> THEN Fail(1)
    ELSE pc' = "auth" /\ query' = init_authoritative_channel(ips) /\ UNCHANGED <<opts, out, lines, rc>>
NextName(ips) ==
    IF Len(nslist) > 1 /\ Len(ips) < MAX_NS_IPS
      THEN pc' = "addr" /\ query' = init_resolver_channel /\ UNCHANGED <<opts, out, lines, rc>>
      ELSE Direct(ips)

AddrAnswered ==
    /\ pc = "addr"
    /\ \E addrs \in Replies :
          /\ ns_ips' = AddAddrs(addrs) /\ via' = IF via = "none" THEN Head(nslist) ELSE via
          /\ nslist' = Tail(nslist) /\ NextName(AddAddrs(addrs))
AddrFailed ==
    /\ pc = "addr"
    /\ nslist' = Tail(nslist) /\ NextName(ns_ips) /\ UNCHANGED <<ns_ips, via>>

\* The record, its first address: where it came from is what matters.
AuthAnswered ==
    /\ pc = "auth"
    /\ out' = <<query.from>> /\ lines' = lines + 1 /\ rc' = 0 /\ pc' = "done" /\ query' = NoQuery
    /\ UNCHANGED <<opts, nslist, ns_ips, via>>
\* No such name, refused, no address record, or no answer.
AuthFailed ==
    /\ pc = "auth"
    /\ Fail(1) /\ UNCHANGED <<nslist, ns_ips, via>>

Answered == NsAnswered \/ AddrAnswered \/ AuthAnswered
Failed == NsFailed \/ AddrFailed \/ AuthFailed
CheckNext == run_check \/ Timeout \/ Answered \/ Failed
CheckSpec == CheckInit /\ [][CheckNext]_checkVars /\ WF_checkVars(CheckNext)

(* Standard output holds one address, from an authoritative server, exactly   *)
(* when the check succeeds, and standard error one line in any case.          *)
OneAnswerOrNothing ==
    pc = "done" => lines = 1 /\ out = (IF rc = 0 THEN <<"authoritative">> ELSE <<>>)

(* The server asked directly is one the domain's own nameservers named, and   *)
(* the name reported is one that had an address.                              *)
NamedBeforeAsked == pc = "auth" => ns_ips # <<>> /\ via # "none" /\ Len(ns_ips) <= MAX_NS_IPS

-----------------------------------------------------------------------------
(***************************************************************************)
(* strim-ddns update (src/tools/ddns/main.c, run_update): the settings from  *)
(* the arguments or the environment, the password file, one request, and a   *)
(* reply that comes in pieces and is judged by its text.  The endpoint       *)
(* (external) answers in the classic form or as XML with NULs between the    *)
(* characters; a tag or a word is one character here.                        *)
(***************************************************************************)

CONSTANTS Settings,     \* how the program is called
          Outcomes      \* what the endpoint did and how it says so

VARIABLES set, outcome, wire, reply, upc, urc

updateVars == <<set, outcome, wire, reply, upc, urc>>

Space == {" "}
\* The reply's text: classic, or XML with white space around the count.
Text(o) ==
    IF o.form = "classic"
      THEN o.pad \o (CASE o.changed = "updated" -> <<"Good", "ip">> [] o.changed = "same" -> <<"No change">>
                       [] OTHER -> <<"Error", "Good">>) \o o.pad
      ELSE o.pad \o <<"xml", "ir", "Command", "ErrCount">> \o o.pad
             \o (IF o.changed = "failed" THEN <<o.errors>> ELSE <<"0">>) \o o.pad \o <<"/ErrCount", "/ir">>
Encode(o) == IF o.nul THEN FlattenSeq([i \in DOMAIN Text(o) |-> <<Text(o)[i], "NUL">>]) ELSE Text(o)

UpdateInit ==
    /\ set \in Settings /\ outcome \in Outcomes
    /\ wire = Encode(outcome) /\ reply = <<>> /\ upc = "start" /\ urc = -1

\* An argument that is given is taken, even an empty one; else the environment.
Setting(arg, env) == IF arg # "absent" THEN arg ELSE env
Given(v) == v \notin {"absent", ""}
read_password_file(f) == f = "password"     \* missing, empty and too large files are refused

run_update ==
    /\ upc = "start"
    /\ IF Given(Setting(set.arg, set.env)) /\ read_password_file(Setting(set.arg, set.env))
         THEN upc' = "transfer" /\ UNCHANGED urc ELSE upc' = "done" /\ urc' = 2
    /\ UNCHANGED <<set, outcome, wire, reply>>

reply_write_cb ==
    /\ upc = "transfer" /\ wire # <<>>
    /\ \E n \in 1..Len(wire) : reply' = reply \o SubSeq(wire, 1, n) /\ wire' = SubSeq(wire, n + 1, Len(wire))
    /\ UNCHANGED <<set, outcome, upc, urc>>

\* A transport or TLS error, or the 15 seconds are over.
TransferFails ==
    /\ upc = "transfer"
    /\ upc' = "failed" /\ urc' = 1 /\ UNCHANGED <<set, outcome, wire, reply>>

RECURSIVE SkipSpace(_)
SkipSpace(s) == IF s # <<>> /\ Head(s) \in Space THEN SkipSpace(Tail(s)) ELSE s

sanitize_reply(raw) ==
    Reverse(SkipSpace(Reverse(SkipSpace(SelectSeq(raw, LAMBDA ch : ch # "NUL")))))

\* The text behind the first tag t, or NoText.
NoText == <<"none">>
Behind(s, t) == LET k == SelectInSeq(s, LAMBDA ch : ch = t) IN IF k = 0 THEN NoText ELSE SubSeq(s, k + 1, Len(s))

ddns_reply_is_success(text) ==
    LET count == SkipSpace(Behind(text, "ErrCount"))
        rest  == IF count = <<>> THEN <<>> ELSE SkipSpace(Tail(count))
    IN  \/ text # <<>> /\ Head(text) \in {"Good", "OK", "No change"}
        \/ /\ Behind(text, "ir") # NoText /\ Behind(text, "ErrCount") # NoText
           /\ count # <<>> /\ Head(count) = "0" /\ rest # <<>> /\ Head(rest) = "/ErrCount"

TransferEnds ==
    /\ upc = "transfer" /\ wire = <<>>
    /\ upc' = "done" /\ urc' = IF ddns_reply_is_success(sanitize_reply(reply)) THEN 0 ELSE 1
    /\ UNCHANGED <<set, outcome, wire, reply>>

UpdateNext == run_update \/ reply_write_cb \/ TransferFails \/ TransferEnds
UpdateSpec == UpdateInit /\ [][UpdateNext]_updateVars

(* The exit code tells the record's fate: a reply that came whole counts as a *)
(* success exactly when the endpoint took the address or already had it.      *)
ExitTellsOutcome == upc = "done" /\ urc # 2 => (urc = 0 <=> outcome.changed # "failed")
=============================================================================
