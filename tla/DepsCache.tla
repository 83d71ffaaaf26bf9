----------------------------- MODULE DepsCache ------------------------------
(***************************************************************************)
(* Runs of the dependency checker against its cache file: loading it, the  *)
(* worker pool that resolves the dependencies through the shared guard,    *)
(* the fetches and their one retry, and saving (resolve.go, cache.go,      *)
(* common/client.go, main.go).  An upstream's answer is the time it was    *)
(* given at.                                                               *)
(***************************************************************************)
EXTENDS Integers, Sequences, FiniteSets

CONSTANTS Deps,        \* the dependencies, in input order
          Kind,        \* "net", "local" (digest and no-op resolvers) or "nomatch"
          Workers, TTL,
          MaxTime, MaxRuns, MaxCrashes   \* bounds

None == -1        \* no result yet
Unknown == -2     \* the version could not be determined
Skipped == -3     \* offline
Local == -4       \* answered without an upstream
Missing == -1     \* no cache file
Torn == -2        \* a cache file that is not whole

D == {Deps[k] : k \in DOMAIN Deps}

\* dedupe leaves every dependency once.
ASSUME DepsAssumption ==
  /\ Deps \in Seq(D) /\ Len(Deps) > 0
  /\ \A j, k \in DOMAIN Deps : Deps[j] = Deps[k] => j = k
  /\ Kind \in [D -> {"net", "local", "nomatch"}]
  /\ Workers \subseteq Nat /\ TTL \in Nat

VARIABLES now, runs, crashes,
          written, file,      \* the cache file: its stamp and its entries
          phase,              \* "idle", "feed", "wait", "save", "rename", "report", "refused"
          opts,               \* the options of the run
          width,              \* Options.MaxConcurrentFetches
          entries, changed,   \* the cacheGuard
          next,               \* the dependency the feeder is at
          worker,             \* <<step, dependency, answer>>
          results,
          fetched,            \* (history) what this run's fetch of a dependency gave
          loaded, saved       \* (history) the entries loaded; whether Save renamed
cacheVars == <<now, runs, crashes, written, file, phase, opts, width, entries, changed, next, worker, results, fetched, loaded, saved>>
guard == <<entries, changed>>
disk == <<written, file>>
world == <<now, runs, crashes>>
request == <<opts, width, loaded, saved>>

NoEntries == [d \in D |-> None]
Idle == <<"idle", Deps[1], None>>
Gone == <<"gone", Deps[1], None>>

CacheInit == /\ now = 0 /\ runs = 0 /\ crashes = 0
        /\ written = Missing /\ file = NoEntries
        /\ phase = "idle" /\ opts = {} /\ width = 1
        /\ entries = NoEntries /\ changed = FALSE
        /\ next = 1 /\ worker = [w \in Workers |-> Gone]
        /\ results = NoEntries /\ fetched = NoEntries /\ loaded = NoEntries /\ saved = FALSE

-----------------------------------------------------------------------------

\* Cache.Load: a file that is missing, torn or expired gives no entries.
Load == IF written < 0 \/ now - written > TTL THEN NoEntries ELSE file

WidthUsable(n) == n > 0

\* run, up to the feeder.
StartRun(o, n) ==
  /\ phase \in {"idle", "report", "refused"} /\ runs < MaxRuns
  /\ runs' = runs + 1 /\ opts' = o /\ width' = n
  /\ phase' = IF WidthUsable(n) THEN "feed" ELSE "refused"
  /\ loaded' = Load /\ entries' = Load /\ changed' = FALSE /\ saved' = FALSE /\ next' = 1
  /\ results' = NoEntries /\ fetched' = NoEntries
  /\ worker' = [w \in Workers |-> IF w <= n THEN Idle ELSE Gone]
  /\ UNCHANGED <<now, crashes, disk>>

Step(w, step, d, answer) == worker' = [worker EXCEPT ![w] = <<step, d, answer>>]

\* The feeder: an offline run answers for a network-backed resolver, every other
\* dependency is handed to a worker that is waiting for a job.
FeedSkip == /\ phase = "feed" /\ next <= Len(Deps)
            /\ "offline" \in opts /\ Kind[Deps[next]] = "net"
            /\ results' = [results EXCEPT ![Deps[next]] = Skipped] /\ next' = next + 1
            /\ UNCHANGED <<world, disk, phase, request, guard, worker, fetched>>
FeedJob(w) == /\ phase = "feed" /\ next <= Len(Deps)
              /\ ~("offline" \in opts /\ Kind[Deps[next]] = "net")
              /\ worker[w] = Idle
              /\ Step(w, "peek", Deps[next], None) /\ next' = next + 1
              /\ UNCHANGED <<world, disk, phase, request, guard, results, fetched>>
CloseJobs == /\ phase = "feed" /\ next > Len(Deps)
             /\ phase' = "wait"
             /\ UNCHANGED <<world, disk, request, guard, next, worker, results, fetched>>
\* The jobs channel is closed: a worker's range loop ends.
WorkerEnds(w) == /\ phase = "wait" /\ worker[w] = Idle
                 /\ worker' = [worker EXCEPT ![w] = Gone]
                 /\ UNCHANGED <<world, disk, phase, request, guard, next, results, fetched>>

Answered(d) == Kind[d] # "net" \/ ("fresh" \notin opts /\ entries[d] # None)

\* guard.peek, under the lock.
Peek(w) ==
  LET d == worker[w][2]
  IN /\ worker[w][1] = "peek"
     /\ IF Answered(d)
        THEN /\ results' = [results EXCEPT ![d] = CASE Kind[d] = "nomatch" -> Unknown
                                                    [] Kind[d] = "local" -> Local
                                                    [] OTHER -> entries[d]]
             /\ worker' = [worker EXCEPT ![w] = Idle]
        ELSE Step(w, "fetch", d, None) /\ UNCHANGED results
     /\ UNCHANGED <<world, disk, phase, request, guard, next, fetched>>

\* FetchBytes: a rate-limited attempt is made once more, anything else is final.
Fetch(w, answer) ==
  /\ worker[w][1] \in {"fetch", "again"}
  /\ Step(w, "commit", worker[w][2], answer)
  /\ fetched' = [fetched EXCEPT ![worker[w][2]] = answer]
  /\ UNCHANGED <<world, disk, phase, request, guard, next, results>>
FetchLimited(w) ==
  /\ worker[w][1] = "fetch" /\ Step(w, "again", worker[w][2], None)
  /\ UNCHANGED <<world, disk, phase, request, guard, next, results, fetched>>

\* Mutant: a failed fetch leaves the entry alone on every run.
EvictNever(d, answer) == [entries EXCEPT ![d] = IF answer # Unknown THEN answer ELSE @]
Committed(d, answer) ==
  [entries EXCEPT ![d] = IF answer # Unknown THEN answer ELSE IF "fresh" \in opts THEN None ELSE @]

\* guard.commit, under the lock.
Commit(w) ==
  LET d == worker[w][2] answer == worker[w][3]
  IN /\ worker[w][1] = "commit"
     /\ entries' = Committed(d, answer)
     /\ changed' = (changed \/ answer # Unknown \/ ("fresh" \in opts /\ entries[d] # None))
     /\ results' = [results EXCEPT ![d] = answer]
     /\ worker' = [worker EXCEPT ![w] = Idle]
     /\ UNCHANGED <<world, disk, phase, request, next, fetched>>

-----------------------------------------------------------------------------

\* wg.Wait has returned.
Waited == /\ phase = "wait" /\ \A w \in Workers : worker[w] = Gone
          /\ phase' = IF changed THEN "save" ELSE "report"
          /\ UNCHANGED <<world, disk, request, guard, next, worker, results, fetched>>

\* Save fills a temporary file next to the cache file.
SaveTemp == /\ phase = "save" /\ phase' = "rename"
            /\ UNCHANGED <<world, disk, request, guard, next, worker, results, fetched>>
\* Any step of Save may fail; it warns and the run goes on.
SaveFails == /\ phase \in {"save", "rename"} /\ phase' = "report"
             /\ UNCHANGED <<world, disk, request, guard, next, worker, results, fetched>>
Rename == /\ phase = "rename" /\ phase' = "report"
          /\ written' = now /\ file' = entries /\ saved' = TRUE
          /\ UNCHANGED <<world, opts, width, loaded, guard, next, worker, results, fetched>>

Crash == /\ phase \notin {"idle", "report", "refused"} /\ crashes < MaxCrashes
         /\ crashes' = crashes + 1 /\ phase' = "idle" /\ worker' = [w \in Workers |-> Gone]
         /\ UNCHANGED <<now, runs, disk, request, guard, next, results, fetched>>
Tick == /\ phase \in {"idle", "report"} /\ now < MaxTime /\ now' = now + 1
        /\ UNCHANGED <<runs, crashes, disk, phase, request, guard, next, worker, results, fetched>>

Work(w) == FeedJob(w) \/ WorkerEnds(w) \/ Peek(w) \/ Commit(w) \/ FetchLimited(w)
           \/ \E answer \in {now, Unknown} : Fetch(w, answer)
Run == FeedSkip \/ CloseJobs \/ Waited \/ SaveTemp \/ SaveFails \/ Rename
CacheNext == \/ \E o \in {{}, {"fresh"}, {"offline"}}, n \in 0..Cardinality(Workers) : StartRun(o, n)
        \/ Run \/ \E w \in Workers : Work(w)
        \/ Crash \/ Tick

\* The Go scheduler runs the main goroutine and every worker, and the HTTP
\* client's timeout ends every fetch.
CacheFairness == WF_cacheVars(Run) /\ \A w \in Workers : WF_cacheVars(Work(w))
CacheSpec == CacheInit /\ [][CacheNext]_cacheVars /\ CacheFairness

-----------------------------------------------------------------------------

(* Every dependency of a finished run is answered, and by the right party: a
   fresh run reports only what it fetched itself, an offline run asks nobody, a
   failed fetch is reported as unknown even where the cache file knew a version,
   and what was not fetched comes from the file as it was loaded. *)
AnswersEarned ==
  phase = "report" => \A d \in D :
    results[d] = CASE Kind[d] = "local" -> Local
                   [] Kind[d] = "nomatch" -> Unknown
                   [] OTHER -> IF "offline" \in opts THEN Skipped
                               ELSE IF "fresh" \in opts \/ loaded[d] = None THEN fetched[d] ELSE loaded[d]

(* After a save the file holds what this run learned: the versions it fetched, the
   versions it loaded and did not fetch, and nothing for a fetch that failed, so a
   failed --fresh run makes the next one ask again. *)
SavedIsLearned ==
  (phase = "report" /\ saved) =>
    /\ written >= 0
    /\ \A d \in D : file[d] = CASE fetched[d] = Unknown -> None
                                [] fetched[d] = None -> loaded[d]
                                [] OTHER -> fetched[d]

(* The cache file is whole whenever a run may load it, whatever was being saved
   when an earlier run stopped. *)
FileWhole == phase \in {"idle", "report", "refused"} => written # Torn

(* The cache can be relied on: answers are earned, what is saved was learned,
   and the file is whole, over any runs, interleavings and crashes. *)
CacheSound == AnswersEarned /\ SavedIsLearned /\ FileWhole

=============================================================================
