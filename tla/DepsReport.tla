----------------------------- MODULE DepsReport -----------------------------
EXTENDS Integers, Sequences, FiniteSets, SequencesExt, FiniteSetsExt, TLC

(***************************************************************************)
(* What one run of the dependency checker makes of its pins: the           *)
(* classifier, the ignore rules, the report with its collapsed findings    *)
(* and counts, and the --strict verdict (classify.go, common/classify.go,  *)
(* ignore.go, output.go, main.go).  Versions are <<major, minor>>; their   *)
(* order is CompareSemver's.                                               *)
(***************************************************************************)

CONSTANTS Pins,        \* the pins a repository may hold, with what resolving them gives
          RuleSets,    \* the contents deps-ignore.json may have
          UnknownSets, \* the files extractors may have failed on
          Today,
          MaxPins

Failed == <<-1, -1>>    \* the resolver returned an error
NoVersion == <<-2, -2>> \* it returned no version
Offline == <<-3, -3>>   \* it was not asked
NoMajor == -4           \* a version without a number

VARIABLES pins, rules, unknowns, opts,   \* the inputs of the run
          pc, i,
          all,                           \* the resolved pins
          ignores,                       \* the rules that were loaded
          findings, inventory, integrity, unknownEntries, counts,
          strictError
reportVars == <<pins, rules, unknowns, opts, pc, i, all, ignores, findings, inventory, integrity, unknownEntries, counts, strictError>>
inputs == <<pins, rules, unknowns, opts>>

Statuses == {"update", "unknown", "hygiene", "skipped", "ok"}
NoCounts == [s \in Statuses \cup {"T1", "T2", "T3", "ignored", "total"} |-> 0]

ReportInit == /\ pins \in UNION {{s \in [1..n -> Pins] : IsInjective(s)} : n \in 1..MaxPins}
        /\ rules \in RuleSets /\ unknowns \in UnknownSets
        /\ opts \in SUBSET {"ignore", "strict", "all"}
        /\ pc = "resolve" /\ i = 1 /\ all = <<>> /\ ignores = {}
        /\ findings = <<>> /\ inventory = 0 /\ integrity = 0 /\ unknownEntries = {}
        /\ counts = NoCounts /\ strictError = FALSE

-----------------------------------------------------------------------------
(* The classifier *)

Newer(a, b) == a[1] > b[1] \/ (a[1] = b[1] /\ a[2] > b[2])
isBreakingBump(cur, latest) ==
  /\ cur[1] # NoMajor /\ latest[1] # NoMajor
  /\ IF cur[1] = 0 /\ latest[1] = 0 THEN latest[2] > cur[2] ELSE latest[1] > cur[1]
updateTier(resting, breaking) == IF resting = 1 THEN 1 ELSE IF breaking THEN 2 ELSE 3

As(status, tier) == [status |-> status, tier |-> tier]
classifyCIAction(p) ==
  CASE p.sha -> As("ok", p.tier)
    [] ~p.sha /\ (p.cur[1] = NoMajor \/ p.answer[1] = NoMajor) -> As("unknown", p.tier)
    [] ~p.sha /\ p.cur[1] # NoMajor /\ p.answer[1] > p.cur[1] -> As("update", 2)
    [] OTHER -> As("ok", p.tier)
classifyDateTag(p) ==
  CASE p.cur[1] = NoMajor \/ p.answer[1] = NoMajor -> As("unknown", p.tier)
    [] p.cur[1] # NoMajor /\ p.answer[1] # NoMajor /\ Newer(p.answer, p.cur) -> As("update", updateTier(p.tier, FALSE))
    [] OTHER -> As("ok", p.tier)
classifyAMI(p) == IF p.cur # p.answer THEN As("update", updateTier(p.tier, FALSE)) ELSE As("ok", p.tier)
classifySemver(p) == IF Newer(p.answer, p.cur) THEN As("update", updateTier(p.tier, isBreakingBump(p.cur, p.answer)))
                     ELSE As("ok", p.tier)

EmptyAnswer(p) == As(IF p.digest THEN "ok" ELSE "unknown", p.tier)

Classify(p) ==
  CASE p.integrity -> As("integrity", p.tier)
    [] ~p.integrity /\ p.answer = Offline -> As("skipped", p.tier)
    [] ~p.integrity /\ p.answer = Failed -> As("unknown", p.tier)
    [] ~p.integrity /\ p.answer = NoVersion -> EmptyAnswer(p)
    [] OTHER -> CASE p.cat = "base-image" /\ p.floating /\ ~p.digest -> As("hygiene", 2)
                  [] p.cat = "ci-action" -> classifyCIAction(p)
                  [] p.cat = "base-image" /\ p.name = "debian" /\ ~(p.floating /\ ~p.digest) -> classifyDateTag(p)
                  [] p.cat = "ami" -> classifyAMI(p)
                  [] OTHER -> classifySemver(p)

sectionFor(r) == CASE r.pin.integrity \/ r.status = "integrity" -> "integrity"
                   [] ~(r.pin.integrity \/ r.status = "integrity") /\ r.pin.inventory -> "inventory"
                   [] OTHER -> "finding"

\* resolveAll, as far as the report is concerned, and the loading of the rules.
Resolve == /\ pc = "resolve" /\ pc' = "route"
           /\ all' = [k \in DOMAIN pins |-> [pin |-> pins[k]] @@ Classify(pins[k])]
           /\ ignores' = IF "ignore" \in opts \/ "strict" \in opts THEN rules ELSE {}
           /\ UNCHANGED <<inputs, i, findings, inventory, integrity, unknownEntries, counts, strictError>>

-----------------------------------------------------------------------------
(* Ignore rules; until is a day, 0 for none and -1 for one that cannot be read *)

AnyFile == "any"
Live(rule) == rule.until # -1 /\ rule.reason /\ ~(rule.until > 0 /\ Today > rule.until)
isIgnoredOn(p, file) == \E rule \in ignores : /\ rule.cat = p.cat /\ rule.name = p.name /\ rule.arch = p.arch
                                            /\ rule.file \in {AnyFile, file} /\ Live(rule)
coversFile(file) == \E rule \in ignores : rule.file = file /\ Live(rule)

-----------------------------------------------------------------------------
(* buildReport *)

Rank == [s \in Statuses |-> CASE s = "update" -> 0 [] s = "unknown" -> 1 [] s = "hygiene" -> 2 [] s = "skipped" -> 4 [] s = "ok" -> 5]

\* One pass of the loop over the resolved pins.
Route ==
  /\ pc = "route" /\ i <= Len(all)
  /\ LET r == all[i]
         ign == isIgnoredOn(r.pin, r.pin.file)
     IN CASE sectionFor(r) = "integrity" -> integrity' = integrity + 1 /\ UNCHANGED <<findings, inventory, unknownEntries>>
          [] sectionFor(r) = "inventory" -> inventory' = inventory + 1 /\ UNCHANGED <<findings, integrity, unknownEntries>>
          [] OTHER -> /\ findings' = Append(findings, [key |-> <<r.pin.cat, r.pin.name>>, status |-> r.status, tier |-> r.tier,
                                                       ignored |-> ign, pins |-> {<<r.pin.file, r.pin.cur>>}])
                      /\ unknownEntries' = IF r.status = "unknown"
                                           THEN unknownEntries \cup {<<r.pin.name, r.pin.arch, r.pin.file, ign>>}
                                           ELSE unknownEntries
                      /\ UNCHANGED <<inventory, integrity>>
  /\ i' = i + 1 /\ UNCHANGED <<inputs, pc, all, ignores, counts, strictError>>

\* A tie goes to the smaller file name, which none of the fields kept here shows.
moreSevere(a, b) == \/ Rank[a.status] < Rank[b.status]
                    \/ Rank[a.status] = Rank[b.status] /\ a.tier < b.tier
mostSevere(members) == FoldLeft(LAMBDA best, m : IF moreSevere(m, best) THEN m ELSE best, members[1], members)
allIgnored(members) == \A k \in DOMAIN members : members[k].ignored
mergeFindings(members) ==
  [mostSevere(members) EXCEPT !.pins = UNION {members[k].pins : k \in DOMAIN members},
                              !.tier = Min({members[k].tier : k \in DOMAIN members}),
                              !.ignored = allIgnored(members)]
collapseFindings(fs) ==
  LET order == FoldLeft(LAMBDA ks, f : IF f.key \in {ks[k] : k \in DOMAIN ks} THEN ks ELSE Append(ks, f.key), <<>>, fs)
  IN [k \in DOMAIN order |-> LET members == SelectSeq(fs, LAMBDA f : f.key = order[k])
                             IN IF Len(members) = 1 THEN members[1] ELSE mergeFindings(members)]

accumulateFindingCounts(c, f) == [c EXCEPT !["T1"] = IF f.tier = 1 THEN @ + 1 ELSE @,
                                          !["T2"] = IF f.tier = 2 THEN @ + 1 ELSE @, !["T3"] = IF f.tier = 3 THEN @ + 1 ELSE @,
                                          ![f.status] = @ + 1, !["ignored"] = IF f.ignored THEN @ + 1 ELSE @]

Build == /\ pc = "route" /\ i > Len(all) /\ pc' = "strict"
         /\ LET collapsed == collapseFindings(findings)
            IN /\ counts' = [FoldLeft(accumulateFindingCounts, NoCounts, collapsed)
                             EXCEPT !["total"] = Len(collapsed) + inventory + integrity]
               /\ findings' = SelectSeq(collapsed, LAMBDA f : f.status # "ok" \/ "all" \in opts)
         /\ unknownEntries' = unknownEntries \cup {<<"extraction", "", f, coversFile(f)>> : f \in unknowns}
         /\ UNCHANGED <<inputs, i, all, ignores, inventory, integrity, strictError>>

Undetermined(r) == sectionFor(r) = "finding" /\ r.status = "unknown" /\ ~isIgnoredOn(r.pin, r.pin.file)
strictFailure == /\ pc = "strict" /\ pc' = "done"
                 /\ strictError' = ("strict" \in opts /\ (\/ \E f \in unknowns : ~coversFile(f)
                                                       \/ \E k \in DOMAIN all : Undetermined(all[k])))
                 /\ UNCHANGED <<inputs, i, all, ignores, findings, inventory, integrity, unknownEntries, counts>>

ReportNext == Resolve \/ Route \/ Build \/ strictFailure
ReportSpec == ReportInit /\ [][ReportNext]_reportVars

-----------------------------------------------------------------------------

(* A strict run fails exactly when its own report shows an unknown that no live
   rule covers: the verdict and the report cannot disagree. *)
StrictMatchesReport ==
  (pc = "done" /\ "strict" \in opts) => (strictError <=> \E u \in unknownEntries : ~u[4])

(* A strict run that passes can be trusted: every version pin was either compared
   with an upstream, pinned by a digest or a commit, deliberately not asked for,
   or is covered by a live rule for its own file. *)
StrictTrusted ==
  (pc = "done" /\ "strict" \in opts /\ ~strictError) =>
    \A k \in DOMAIN pins : LET p == pins[k]
      IN (~p.integrity /\ ~p.inventory /\ (p.answer = Failed \/ (p.answer = NoVersion /\ ~p.digest)))
         => \E rule \in rules : rule.cat = p.cat /\ rule.name = p.name /\ rule.file \in {AnyFile, p.file} /\ Live(rule)

(* No pin that needs attention is lost when the pins of one dependency are
   collapsed: the report lists a finding that names the pin, is not marked ignored,
   and has a status and a tier at least as severe as the pin's own. *)
NothingHidden ==
  pc = "done" => \A k \in DOMAIN all : LET r == all[k] p == r.pin
    IN (sectionFor(r) = "finding" /\ r.status # "ok" /\ ~isIgnoredOn(p, p.file)) =>
         \E n \in DOMAIN findings : LET f == findings[n]
           IN f.key = <<p.cat, p.name>> /\ <<p.file, p.cur>> \in f.pins /\ ~f.ignored
              /\ Rank[f.status] <= Rank[r.status] /\ f.tier <= r.tier

(* The counts of tiers and the counts of statuses both cover every finding, and
   with the two other sections they make up the total. *)
CountsCover ==
  pc = "done" => LET tiers == counts["T1"] + counts["T2"] + counts["T3"]
                 IN /\ tiers = counts["update"] + counts["unknown"] + counts["ok"] + counts["hygiene"] + counts["skipped"]
                    /\ counts["total"] = tiers + inventory + integrity
                    /\ counts["total"] <= Len(pins)

-----------------------------------------------------------------------------
(***************************************************************************)
(* The version order of the dependency checker (utilities/semver.go) and   *)
(* the loops that pick the latest of a listing with it (latestOf of        *)
(* scrapers.go and latestNonYanked of bcr.go).  A version is a sequence of *)
(* characters.                                                             *)
(***************************************************************************)

CONSTANTS Versions,      \* the versions a listing is made of
          MaxListing     \* the length of a listing

Digits == "0" :> 0 @@ "1" :> 1 @@ "2" :> 2
Letters == "a" :> 1 @@ "b" :> 2 @@ "v" :> 3
Separators == "+" :> 43 @@ "-" :> 45 @@ "." :> 46

VARIABLES listing, yanked, \* a registry's answer
          vi, latest
versionVars == <<listing, yanked, vi, latest>>

None == <<>>

VersionInit == /\ listing \in UNION {[1..n -> Versions] : n \in 1..MaxListing}
        /\ yanked \in {{}} \cup {{listing[k]} : k \in DOMAIN listing}
        /\ vi = 1 /\ latest = None

-----------------------------------------------------------------------------

Sign(x) == IF x < 0 THEN -1 ELSE IF x > 0 THEN 1 ELSE 0
IsDigit(c) == c \in DOMAIN Digits
IsLetter(c) == c \in DOMAIN Letters

\* The longest prefix of s whose characters all satisfy Is.
RunLength(s, Is(_)) == CHOOSE n \in 0..Len(s) : (\A k \in 1..n : Is(s[k])) /\ (n < Len(s) => ~Is(s[n + 1]))
LeadingDigits(s) == SubSeq(s, 1, RunLength(s, IsDigit))
leadingLetters(s) == SubSeq(s, 1, RunLength(s, IsLetter))
After(s, run) == SubSeq(s, Len(run) + 1, Len(s))
StripTagPrefix(s) == After(s, SubSeq(s, 1, RunLength(s, LAMBDA c : ~IsDigit(c))))

\* strings.Compare, byte by byte.
Compare(a, b, rank) ==
  LET shorter == IF Len(a) < Len(b) THEN Len(a) ELSE Len(b)
      differ == {k \in 1..shorter : a[k] # b[k]}
      first == CHOOSE k \in differ : \A m \in differ : k <= m
  IN IF differ # {} THEN Sign(rank[a[first]] - rank[b[first]]) ELSE Sign(Len(a) - Len(b))

TrimZeros(s) == After(s, SubSeq(s, 1, RunLength(s, LAMBDA c : c = "0")))
\* Without leading zeros the longer number is the greater one.
compareBigInt(a, b) ==
  LET x == TrimZeros(a) y == TrimZeros(b)
  IN IF Len(x) # Len(y) THEN Sign(Len(x) - Len(y)) ELSE Compare(x, y, Digits)

RECURSIVE CompareChunks(_, _)
CompareChunks(a, b) ==
  IF a = <<>> \/ b = <<>> THEN Sign(Len(a) - Len(b))
  ELSE LET an == LeadingDigits(a) bn == LeadingDigits(b)
           al == leadingLetters(a) bl == leadingLetters(b)
       IN IF an # <<>> \/ bn # <<>>
          THEN IF compareBigInt(an, bn) # 0 THEN compareBigInt(an, bn) ELSE CompareChunks(After(a, an), After(b, bn))
          ELSE IF al # <<>> \/ bl # <<>>
          THEN IF Compare(al, bl, Letters) # 0 THEN Compare(al, bl, Letters) ELSE CompareChunks(After(a, al), After(b, bl))
          ELSE IF a[1] # b[1] THEN Sign(Separators[a[1]] - Separators[b[1]])
          ELSE CompareChunks(Tail(a), Tail(b))

-----------------------------------------------------------------------------
(* Releases and prereleases *)

Before(s, c) == SubSeq(s, 1, RunLength(s, LAMBDA x : x # c))
SplitCoreAndPre(s) ==
  LET body == Before(StripTagPrefix(s), "+")
      core == Before(body, "-")
  IN [core |-> core, hasPre |-> core # body, pre |-> SubSeq(body, Len(core) + 2, Len(body))]

RECURSIVE SplitDots(_)
SplitDots(s) == LET head == Before(s, ".")
                IN IF head = s THEN <<s>> ELSE <<head>> \o SplitDots(SubSeq(s, Len(head) + 2, Len(s)))

IsAllDigits(s) == s # <<>> /\ LeadingDigits(s) = s
comparePrereleaseIdent(a, b) ==
  CASE IsAllDigits(a) /\ IsAllDigits(b) -> compareBigInt(a, b)
    [] IsAllDigits(a) /\ ~IsAllDigits(b) -> -1
    [] ~IsAllDigits(a) /\ IsAllDigits(b) -> 1
    [] OTHER -> CompareChunks(a, b)

comparePrerelease(a, b) ==
  LET as == SplitDots(a) bs == SplitDots(b)
      shorter == IF Len(as) < Len(bs) THEN Len(as) ELSE Len(bs)
      differ == {k \in 1..shorter : comparePrereleaseIdent(as[k], bs[k]) # 0}
      first == CHOOSE k \in differ : \A m \in differ : k <= m
  IN IF differ # {} THEN comparePrereleaseIdent(as[first], bs[first]) ELSE Sign(Len(as) - Len(bs))

CompareSemver(a, b) ==
  LET x == SplitCoreAndPre(a) y == SplitCoreAndPre(b) c == CompareChunks(x.core, y.core)
  IN CASE c # 0 -> c
       [] c = 0 /\ ~x.hasPre /\ y.hasPre -> 1
       [] c = 0 /\ x.hasPre /\ ~y.hasPre -> -1
       [] c = 0 /\ x.hasPre /\ y.hasPre -> comparePrerelease(x.pre, y.pre)
       [] OTHER -> 0

-----------------------------------------------------------------------------
(* latestNonYanked; latestOf is the same loop over a listing without yanks *)

LatestStep == /\ vi <= Len(listing)
              /\ latest' = IF listing[vi] \notin yanked /\ (latest = None \/ CompareSemver(listing[vi], latest) > 0)
                           THEN listing[vi] ELSE latest
              /\ vi' = vi + 1 /\ UNCHANGED <<listing, yanked>>

VersionNext == LatestStep
VersionSpec == VersionInit /\ [][VersionNext]_versionVars

-----------------------------------------------------------------------------

Offered == {listing[k] : k \in DOMAIN listing} \ yanked

\* A dotted number, and the numbers between its dots.
Plain(v) == LET p == SplitDots(v) IN \A k \in DOMAIN p : IsAllDigits(p[k])
Number(s) == FoldLeft(LAMBDA n, c : 10 * n + Digits[c], 0, s)
Older(a, b) == LET p == SplitDots(a) q == SplitDots(b)
               IN \/ \E k \in (DOMAIN p) \cap (DOMAIN q) : /\ Number(p[k]) < Number(q[k])
                                                         /\ \A m \in 1..(k - 1) : Number(p[m]) = Number(q[m])
                  \/ /\ Len(p) < Len(q) /\ \A k \in DOMAIN p : Number(p[k]) = Number(q[k])

(* Whatever the order of the listing, the version picked is one that is offered
   and none that is offered sorts after it, so the order is transitive where it
   matters; a release is never passed over for a prerelease of itself, and of
   two dotted numbers the one with the greater component wins. *)
LatestIsGreatest ==
  vi > Len(listing) =>
    /\ (latest = None) <=> (Offered = {})
    /\ latest # None =>
         /\ latest \in Offered
         /\ \A v \in Offered : CompareSemver(v, latest) <= 0 /\ CompareSemver(latest, v) >= 0
         /\ \A v \in Offered : v # latest => ~(Plain(v) /\ Plain(latest) /\ Older(latest, v))
=============================================================================
