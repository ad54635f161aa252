-------------------------------- MODULE Trace --------------------------------
(***************************************************************************)
(* The trace tool (tools/radar-trace): runs of the command line for one    *)
(* company, one after another over some days, with the cache of results    *)
(* they share. A run refuses what is too dear, looks for anchors on the    *)
(* website, asks the adapters in two waves, a few at a time, and hands     *)
(* over a dossier. It may be killed, or fall over its own cache, at any    *)
(* point.                                                                  *)
(***************************************************************************)
EXTENDS TraceAdapters, FiniteSetsExt

CONSTANTS
  Settings,     \* where the runs may take place: a set of [menu, keys, founder, sites], the
                \* adapters that come into scope together, the keys the environment holds,
                \* whether a founder is given, and the sets of anchors the website may yield
  Concurrency,  \* --concurrency
  MaxRuns, MaxDays, MaxCrashes \* bounds: runs, midnights, crashes

ASSUME TraceAssumption ==
  /\ {MaxRuns, MaxDays, MaxCrashes} \subseteq Nat
  /\ \A e \in Settings : e.menu \subseteq AllAdapters /\ IsFiniteSet(e.menu)

VARIABLES
  env,     \* the setting, which stays as it is
  stage,   \* of the run: idle, anchors, wave 1, wave 2
  run,     \* its options and what it has found: [scope, skipped, linkedin, useCache, anchors, fee, day]
  task,    \* for each adapter in scope, where it is: waiting, asking, writing, done
  res,     \* and its result, once it has one
  cache,   \* for each day and adapter, the file written that day
  day,     \* today
  dossier, \* the last one handed over since the last start; ghost slack: what rounding may have moved
  bill, paid, torn, runs, crashes \* ghosts: money spent by the runs of a day; per adapter, how often
           \* a result was bought that no expiry or wipe has made buying again legitimate;
           \* the days on which a run died; runs and crashes so far

trace == <<env, stage, run, task, res, cache, day, dossier, bill, paid, torn, runs, crashes>>

Adapters == env.menu
Days == 0..MaxDays
NoFile == [kind |-> "none"]
Torn == [kind |-> "torn", fresh |-> TRUE]
File(r) == [kind |-> "file", fresh |-> TRUE, result |-> r]
NoResult == [status |-> "none"]
NoDossier == [handed |-> FALSE]
NoRun == [scope |-> {}]

Context == [keys |-> env.keys, founder |-> env.founder, linkedin |-> run.linkedin, anchors |-> run.anchors]
Stub == Plain("empty", FALSE)
Busy == {a \in run.scope : task[a] \in {"asking", "writing"}}
Wave == IF stage = "wave 1" THEN run.scope \ Gated ELSE run.scope \cap Gated
Done(S) == \A a \in S : task[a] = "done"
Spend(p) == bill' = [bill EXCEPT ![run.day] = @ + p]

TraceInit ==
  /\ env \in Settings
  /\ stage = "idle" /\ run = NoRun /\ day = 0 /\ dossier = NoDossier
  /\ task = <<>> /\ res = <<>>
  /\ cache = [d \in Days |-> [a \in Adapters |-> NoFile]]
  /\ bill = [d \in Days |-> 0] /\ paid = [a \in Adapters |-> 0] /\ torn = {}
  /\ runs = 0 /\ crashes = 0

-----------------------------------------------------------------------------
(* The command line.                                                       *)
\* The estimate is the sum of the worst cases, as if every gate would open.
Preflight(names) == MapThenSumSet(Estimate, names)
Ceilings == {2000, 100000}

Skipped(scope, skipPaid) == IF skipPaid THEN scope \cap Scrapers ELSE {}

Invoke(scope, linkedin, skipPaid, useCache, ceiling) ==
  LET skipped == Skipped(scope, skipPaid)
      names == scope \ skipped
  IN /\ stage = "idle" /\ runs < MaxRuns /\ runs' = runs + 1 /\ dossier' = NoDossier
     /\ IF Preflight(names) > ceiling THEN UNCHANGED <<stage, run, task, res>>
        ELSE /\ stage' = "anchors"
             /\ run' = [scope |-> names, skipped |-> skipped, linkedin |-> linkedin,
                        useCache |-> useCache, anchors |-> {}, fee |-> 0, day |-> day]
             /\ task' = [a \in names |-> "waiting"] /\ res' = [a \in names |-> NoResult]
     /\ UNCHANGED <<env, cache, day, bill, paid, torn, crashes>>

Start == \E scope \in SUBSET env.menu, linkedin \in {"none", "url", "junk"},
            skipPaid \in BOOLEAN, useCache \in BOOLEAN, ceiling \in Ceilings :
           scope # {} /\ Invoke(scope, linkedin, skipPaid, useCache, ceiling)

\* Nothing of it can fail: pages that do not load and a model that answers nonsense find
\* fewer anchors. The model is paid once it has answered, and asked only with a page in hand;
\* the fee is rounded when it is reported.
Fee == 23
Links == env.sites
DiscoverAnchors ==
  /\ stage = "anchors"
  /\ \E found \in Links, asked \in BOOLEAN :
       /\ asked => "GEMINI_API_KEY" \in env.keys
       /\ run' = [run EXCEPT !.anchors = found, !.fee = IF asked THEN Fee ELSE 0, !.day = day]
       /\ bill' = [bill EXCEPT ![day] = @ + IF asked THEN Fee ELSE 0]
  /\ stage' = "wave 1"
  /\ UNCHANGED <<env, task, res, cache, day, dossier, paid, torn, runs, crashes>>

ClearCache ==
  /\ stage = "idle" /\ runs < MaxRuns
  /\ cache' = [d \in Days |-> [a \in Adapters |-> NoFile]] /\ paid' = [a \in Adapters |-> 0]
  /\ runs' = runs + 1 /\ torn' = {}
  /\ UNCHANGED <<env, stage, run, task, res, day, dossier, bill, crashes>>

-----------------------------------------------------------------------------
(* The orchestrator.                                                       *)
Gate(a) ==
  LET Answered(name, tells) == name \in run.scope /\ res[name].status = "ok" /\ res[name].tells = tells
  IN CASE a = "directories.g2_capterra" -> Answered("operational.tech_stack", "saas")
       [] a = "directories.glassdoor_apify" -> Answered("directories.zaubacorp", "nothing")
       [] OTHER -> TRUE

\* Mutant: the date is left out of the file's name.
StoredAnyDay(a) ==
  LET written == {d \in 0..run.day : cache[d][a].kind # "none"}
  IN IF written = {} THEN NoFile ELSE cache[Max(written)][a]
\* What the file of the day says: nothing, an answer, or something that cannot be read.
Stored(a) == cache[run.day][a]
Readable(a) == run.useCache /\ Stored(a).kind # "none" /\ (a \in ShortLived => Stored(a).fresh)

Settle(a, r) == task' = [task EXCEPT ![a] = "done"] /\ res' = [res EXCEPT ![a] = r]

\* Mutant: an adapter whose gate is closed is put off, not answered.
BeginUngated(a) ==
  /\ stage \in {"wave 1", "wave 2"} /\ a \in Wave /\ task[a] = "waiting" /\ Gate(a)
  /\ Cardinality(Busy) < Concurrency
  /\ CASE Readable(a) -> Stored(a).kind = "file" /\ Settle(a, Stored(a).result)
       [] OTHER -> IF Required(a) \subseteq env.keys THEN task' = [task EXCEPT ![a] = "asking"] /\ UNCHANGED res
                   ELSE Settle(a, Plain("error", FALSE))
  /\ UNCHANGED <<env, stage, run, cache, day, dossier, bill, paid, torn, runs, crashes>>
Begin(a) ==
  /\ stage \in {"wave 1", "wave 2"} /\ a \in Wave /\ task[a] = "waiting"
  /\ Cardinality(Busy) < Concurrency
  /\ CASE ~Gate(a) -> Settle(a, Stub)
       [] Gate(a) /\ Readable(a) -> Stored(a).kind = "file" /\ Settle(a, Stored(a).result)
       [] OTHER -> IF Required(a) \subseteq env.keys THEN task' = [task EXCEPT ![a] = "asking"] /\ UNCHANGED res
                   ELSE Settle(a, Plain("error", FALSE))
  /\ UNCHANGED <<env, stage, run, cache, day, dossier, bill, paid, torn, runs, crashes>>

\* An answer that does not fit the adapter's schema is kept as a partial one.
Validated(r) == {r} \cup IF r.status = "ok" THEN {[r EXCEPT !.status = "partial"]} ELSE {}

\* Mutant: an error keeps its place in the queue.
AnswerErrorWaits(a) ==
  /\ stage \in {"wave 1", "wave 2"} /\ a \in Wave /\ task[a] = "asking"
  /\ \E o \in Outcomes(a, Context) : \E r \in Validated(o) :
       /\ res' = [res EXCEPT ![a] = r]
       /\ task' = [task EXCEPT ![a] = IF r.status = "error" THEN "waiting" ELSE "writing"]
       /\ Spend(r.spent)
  /\ UNCHANGED <<env, stage, run, cache, day, dossier, paid, torn, runs, crashes>>
\* Mutant: errors are kept too.
AnswerKeepsErrors(a) ==
  /\ stage \in {"wave 1", "wave 2"} /\ a \in Wave /\ task[a] = "asking"
  /\ \E o \in Outcomes(a, Context) : \E r \in Validated(o) :
       res' = [res EXCEPT ![a] = r] /\ task' = [task EXCEPT ![a] = "writing"] /\ Spend(r.spent)
  /\ UNCHANGED <<env, stage, run, cache, day, dossier, paid, torn, runs, crashes>>
Answer(a) ==
  /\ stage \in {"wave 1", "wave 2"} /\ a \in Wave /\ task[a] = "asking"
  /\ \E o \in Outcomes(a, Context) : \E r \in Validated(o) :
       /\ res' = [res EXCEPT ![a] = r]
       /\ task' = [task EXCEPT ![a] = IF r.status = "error" THEN "done" ELSE "writing"]
       /\ Spend(r.spent)
  /\ UNCHANGED <<env, stage, run, cache, day, dossier, paid, torn, runs, crashes>>

\* Mutant: an empty answer is not worth a file.
WriteFileNotEmpty(a) ==
  /\ stage \in {"wave 1", "wave 2"} /\ a \in Wave /\ task[a] = "writing"
  /\ cache' = IF res[a].status = "empty" THEN cache ELSE [cache EXCEPT ![run.day][a] = File(res[a])]
  /\ task' = [task EXCEPT ![a] = "done"]
  /\ paid' = [paid EXCEPT ![a] = IF run.useCache /\ res[a].spent > 0 /\ run.day = day THEN @ + 1 ELSE @]
  /\ UNCHANGED <<env, stage, run, res, day, dossier, bill, torn, runs, crashes>>
WriteFile(a) ==
  /\ stage \in {"wave 1", "wave 2"} /\ a \in Wave /\ task[a] = "writing"
  /\ cache' = [cache EXCEPT ![run.day][a] = File(res[a])]
  /\ task' = [task EXCEPT ![a] = "done"]
  /\ paid' = [paid EXCEPT ![a] = IF run.useCache /\ res[a].spent > 0 /\ run.day = day THEN @ + 1 ELSE @]
  /\ UNCHANGED <<env, stage, run, res, day, dossier, bill, torn, runs, crashes>>

\* The process is gone, with every file it was writing whole, cut short or not begun.
Dies ==
  /\ stage' = "idle" /\ run' = NoRun /\ task' = <<>> /\ res' = <<>>
  /\ \E hurt \in SUBSET {a \in run.scope : task[a] = "writing"} :
       /\ cache' = [cache EXCEPT ![run.day] = [a \in Adapters |-> IF a \in hurt THEN Torn ELSE @[a]]]
       /\ torn' = IF hurt = {} THEN torn ELSE torn \cup {run.day}
  /\ UNCHANGED <<env, day, dossier, bill, paid, runs>>

\* A file that cannot be read rejects the whole run, and the command line exits.
Reject(a) ==
  /\ stage \in {"wave 1", "wave 2"} /\ a \in Wave /\ task[a] = "waiting"
  /\ Cardinality(Busy) < Concurrency
  /\ Gate(a) /\ Readable(a) /\ Stored(a).kind = "torn"
  /\ Dies /\ UNCHANGED crashes

\* Mutant: the second wave does not wait for the first.
NextWaveAtOnce ==
  /\ stage = "wave 1" /\ stage' = "wave 2"
  /\ UNCHANGED <<env, run, task, res, cache, day, dossier, bill, paid, torn, runs, crashes>>
NextWave ==
  /\ stage = "wave 1" /\ Done(Wave)
  /\ stage' = "wave 2"
  /\ UNCHANGED <<env, run, task, res, cache, day, dossier, bill, paid, torn, runs, crashes>>

-----------------------------------------------------------------------------
(* The dossier.                                                            *)
Rounded(r) == Slack(r.apify + r.verify)
\* What the breakdown counts of a result, wherever it puts it: a rounded cost, and parts
\* that are not.
Attributed(a, r) ==
  LET sans == Max({0, r.cost - r.verify})
  IN r.verify + (CASE a \in ApifySerper -> r.apify + Max({0, sans - r.apify})
                   [] a \in Scrapers \ ApifySerper -> r.apify
                   [] a \in Metered -> sans
                   [] OTHER -> 0)

\* Mutant: the verifier's cost, which is part of the adapter's, is added to it.
ReportVerifyTwice ==
  LET all == [a \in run.scope \cup run.skipped |-> IF a \in run.scope THEN res[a] ELSE Stub]
  IN /\ stage = "wave 2" /\ Done(run.scope)
     /\ stage' = "idle" /\ run' = NoRun /\ task' = <<>> /\ res' = <<>>
     /\ dossier' = IF run.linkedin = "junk" THEN NoDossier
                   ELSE [handed |-> TRUE, day |-> run.day,
                         total |-> Round(run.fee) + MapThenSumSet(LAMBDA a : res[a].cost + res[a].verify, run.scope),
                         parts |-> Round(run.fee) + MapThenSumSet(LAMBDA a : Attributed(a, all[a]), DOMAIN all),
                         slack |-> Slack(run.fee) + MapThenSumSet(LAMBDA a : Rounded(res[a]), run.scope)]
     /\ UNCHANGED <<env, cache, day, bill, paid, torn, runs, crashes>>
Report ==
  LET all == [a \in run.scope \cup run.skipped |-> IF a \in run.scope THEN res[a] ELSE Stub]
  IN /\ stage = "wave 2" /\ Done(run.scope)
     /\ stage' = "idle" /\ run' = NoRun /\ task' = <<>> /\ res' = <<>>
     /\ dossier' = IF run.linkedin = "junk" THEN NoDossier \* it does not pass the dossier's own schema
                   ELSE [handed |-> TRUE, day |-> run.day,
                         total |-> Round(run.fee) + MapThenSumSet(LAMBDA a : res[a].cost, run.scope),
                         parts |-> Round(run.fee) + MapThenSumSet(LAMBDA a : Attributed(a, all[a]), DOMAIN all),
                         slack |-> Slack(run.fee) + MapThenSumSet(LAMBDA a : Rounded(res[a]), run.scope)]
     /\ UNCHANGED <<env, cache, day, bill, paid, torn, runs, crashes>>

-----------------------------------------------------------------------------
(* The world.                                                              *)
Crash == stage # "idle" /\ crashes < MaxCrashes /\ crashes' = crashes + 1 /\ Dies
Midnight ==
  /\ day < MaxDays /\ day' = day + 1
  /\ paid' = [a \in Adapters |-> 0]
  /\ UNCHANGED <<env, stage, run, task, res, cache, dossier, bill, torn, runs, crashes>>
\* Six hours go by.
Expire ==
  /\ \E a \in ShortLived \cap Adapters : cache[day][a].kind # "none" /\ cache[day][a].fresh
  /\ cache' = [cache EXCEPT ![day] = [a \in Adapters |->
                 IF a \in ShortLived /\ @[a].kind # "none" THEN [@[a] EXCEPT !.fresh = FALSE] ELSE @[a]]]
  /\ paid' = [a \in Adapters |-> IF a \in ShortLived THEN 0 ELSE paid[a]]
  /\ UNCHANGED <<env, stage, run, task, res, day, dossier, bill, torn, runs, crashes>>

RunStep == DiscoverAnchors \/ NextWave \/ Report
           \/ \E a \in Adapters : Begin(a) \/ Answer(a) \/ WriteFile(a) \/ Reject(a)
Next == Start \/ ClearCache \/ RunStep \/ Crash \/ Midnight \/ Expire
Spec == TraceInit /\ [][Next]_trace
\* Every call has a time limit, so a run keeps moving.
FairSpec == Spec /\ WF_trace(RunStep)

-----------------------------------------------------------------------------
Result == [status : Statuses, cost : Nat, apify : Nat, verify : Nat, spent : Nat,
           cut : BOOLEAN, tells : {"nothing", "saas", "India"}]

\* The run, the files and the ghosts stay in their domains; outside a run nothing is asked.
TraceTypeOK ==
  /\ stage \in {"idle", "anchors", "wave 1", "wave 2"} /\ run.scope \subseteq Adapters
  /\ task \in [run.scope -> {"waiting", "asking", "writing", "done"}]
  /\ DOMAIN res = run.scope
  /\ \A a \in run.scope : IF task[a] \in {"writing", "done"} THEN res[a] \in Result ELSE res[a] = NoResult
  /\ cache \in [Days -> [Adapters -> {NoFile} \cup [kind : {"torn"}, fresh : BOOLEAN]
                                        \cup [kind : {"file"}, fresh : BOOLEAN, result : Result]]]
  /\ day \in Days /\ torn \subseteq Days /\ runs \in 0..MaxRuns /\ crashes \in 0..MaxCrashes
  /\ stage = "idle" => run = NoRun

\* What is reported of an answer was spent on it, and what was spent is reported, to half a
\* paisa where a dollar price was rounded, but for what an adapter threw away with an error,
\* what a verifier that failed had used, and the rows of an actor beyond those kept.
Accounted == \A a \in run.scope : task[a] \in {"writing", "done"} =>
  /\ res[a].cost <= res[a].spent + Rounded(res[a])
  /\ res[a].cost + Rounded(res[a]) < res[a].spent =>
       \/ res[a].status = "error"
       \/ a \in Metered /\ res[a].cut /\ res[a].verify = 0
       \/ a \in Scrapers /\ res[a].apify = Cap * Row

\* A dossier never reports more than the runs of its day have spent, whatever it took
\* from their files, but for the rounding of its own answers.
BilledToday == dossier.handed => dossier.total <= bill[dossier.day] + dossier.slack

\* The parts of the cost add up to the total (at the default rate of exchange), but for
\* that rounding, which the parts do not share.
PartsAddUp == dossier.handed =>
  dossier.parts <= dossier.total + dossier.slack /\ dossier.total <= dossier.parts + dossier.slack

\* With the cache read, an answer once paid for and kept is not paid for again that day.
PaidOnce == \A a \in Adapters : paid[a] <= 1

\* The money of a trace: per answer, per dossier, in its parts, and over the runs of a day.
CostsAccounted == Accounted /\ BilledToday /\ PartsAddUp /\ PaidOnce

\* An outage is kept as "there is nothing" by seven adapters only.
Hushes == {"product.changelog", "product.sitemap", "customer.logos_current", "customer.wayback_diff",
           "operational.pagespeed", "operational.robots_txt", "directories.g2_capterra"}
OutageKeptAsNothing == \A d \in Days, a \in Adapters :
  cache[d][a].kind = "file" /\ cache[d][a].result.status \in {"empty", "error"} /\ cache[d][a].result.cut => a \in Hushes

\* A run falls over a file it cannot read only on a day on which another died writing.
RejectedOnlyAfterDeath == [][(\E a \in run.scope : Reject(a)) => run.day \in torn]_trace

\* Every run carries out the promise of a trace.
Promise == INSTANCE TracePromise WITH
  Names <- UNION {e.menu : e \in Settings}, Late <- Gated, open <- stage # "idle", scope <- run.scope,
  answered <- {a \in run.scope : task[a] = "done"}, handed <- dossier.handed
KeepsPromise == Promise!Spec

\* Every run comes to its end.
RunEnds == (stage # "idle") ~> (stage = "idle")
=============================================================================
