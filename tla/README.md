# Outreach-Bot: a verification development

TLA+ modules that model Outreach-Bot (Radar): its engines, its billing and run
locks, its trace tool, and the servers behind its dashboard; TLC
configurations that check them on small instances, and TLAPS proofs of the
main safety properties for every instance. Paths are relative to the
repository root; the legacy engines live in `src/engines`, the multi-tenant
API and its workers in `apps/api/src`.

## 1. The system

An organisation buys leads, mails them a cold text and up to four
follow-ups, reads the answers and stops. Its parts:

| Part | Code | State it keeps | Operations |
|---|---|---|---|
| Tables | `src/core/db/index.js`, `prisma/schema.prisma` | leads, emails, sequence_state, replies, reject_list, bounces, daily_metrics, config, cron_log | isRejected, todaySentCount, todayBounceRate, addToRejectList, bumpMetric |
| Lead discovery | `src/engines/findLeads.js` | an in-memory queue, dedup sets | 20 consumers, 5 producers, per-lead pipeline |
| Cold send | `src/engines/sendEmails.js` | a snapshot of ready leads | check, validate, send, record, bounce |
| Follow-ups | `src/engines/sendFollowups.js` | a snapshot of due sequences | check, generate, send, record |
| Replies | `src/engines/checkReplies.js`, `src/core/email/imap.js` | the fetched messages | fetch, deduplicate, classify, store, act |
| Health check, reports | `src/engines/healthCheck.js`, `dailyReport.js` | none | force daily_send_limit to 0 |
| Workers, scheduler | `apps/api/src/workers` | BullMQ queues | one job of a queue at a time; skip orgs that are locked |
| Dashboard mutations | `apps/api/src/graphql/resolvers` | none | lead status, bulk actions, reply rejection, config |
| Engine lock | `runEngine.ts`, `src/api/routes/runEngine.js`, `findLeads.worker.ts` | running rows of cron_log, the queue | trigger, sweep of stale rows, unlock, a run's own rows |
| Billing | `webhooks/razorpay.ts`, `routes/billing.ts`, `trialExpiry.worker.ts`, `enforcePlan.ts`, `admin.ts` | subscription, org status, event log | webhook, subscribe, expiry, plan gate, overrides |
| Sign-in, members | `otp.ts`, `google.ts`, `auth.ts`, `jwt.ts`, `tokenRevocation.ts`, `orgs.ts`, `admin.ts` | users, codes, orgs, memberships; revocation keys in Redis | codes, Google, invite, remove, role, suspend, reset, delete, impersonate, log out |
| Tenancy | `packages/shared/src/scopedPrisma.ts` and the resolvers and routes behind it | niches, saved views, offer, ICP profile, config, daily_metrics | reads and writes within an organisation |
| Bulk retry | `bulkRetry.ts`, `routes/leads/bulkRetry.js` | none | a stage again, lead by lead, for a batch |
| Lead list | `leads.ts`, `leadsFilter.ts`, `routes/leads.js` | none | list, count, cards |
| Page of engines | `apps/web/src/pages/Engines.jsx`, `api.js` | what is shown, the poll | run, unlock, follow a run |
| Page of leads | `apps/web/src/pages/Leads.jsx`, `components/radar/leads` | filter, rows, ticks, an open lead, a retry's progress | filter, turn, open, note, reject in bulk, retry in bulk |
| Trace tool | `tools/radar-trace` | a cache of files, one per day and adapter | preflight, anchors, two waves of adapters, a dossier with its cost |
| Signals | `src/core/signals` | signal rows | adapters with timeouts |

**How they interact.** Every send engine is a job of a BullMQ queue of its
own; each queue's worker has concurrency 1 and all of them live in one Node
process. So a run is alone of its kind, but a cold run, a follow-up run and a
reply run interleave at every `await`, and a run lasts hours: an engine
sleeps minutes between two mails. The dashboard runs in the API process. The
only thing they share is the database, which they use without transactions:
each decision is a read, then seconds to minutes of other work, then several
separate writes. The GraphQL API and the old Express dashboard are two more
processes on the same tables; in each, requests interleave at every `await`.
The gateway of payments delivers events to the API at least once and in any
order; a nightly job and every request write the same subscription. The page
of engines only knows what its polls bring, and the page of leads what its
requests were answered, in whatever order the answers come. The trace tool shares nothing with
the rest but files it leaves for its next run.

**What is hard.**

- *Limits on a shared counter.* Both engines compare `emails_sent` with the
  daily limit before a mail and add to it after the SMTP call.
- *Stale checks.* The reject list is read before the text is generated and
  the mail is sent; the follow-up's step comes from a snapshot; the daily
  limit is read once for a run.
- *Half-done records.* An accepted mail is followed by four writes, a bounce
  by five. Any can fail, or the worker may die in between; the next run
  decides by what was written.
- *Lost answers.* A connection that breaks after the server accepted the mail
  looks like one that was refused.
- *Messages read once.* IMAP messages are flagged `\Seen` as they are fetched,
  so an error later loses them.
- *Reactivation.* A "soft no" puts a sequence back to active whatever it was,
  also after an unsubscribe.
- *Events twice, late, cut off.* A webhook is recorded before its effects, and
  its statements overlap those of other events, of the plan check and the night.
- *A guard that looks and then inserts.* In the sign-in, in invitations, in the
  run lock, in the first save of an offer: two requests pass it together.
- *Revocation in whole seconds.* A token's times are seconds, the clock's are
  not, and a key in Redis expires.
- *Rows held by other transactions.* Two niches written for one day lock each
  other's rows.
- *Paid answers.* An adapter pays for a search and then fails; an answer kept
  for the day is used, and counted, by later runs; a run may die while it
  writes its file.

What makes each part right: the recipients' view of the daily limit; nobody
who bounced, unsubscribed or was rejected gets mail (but the one in flight);
no step twice, none out of order; complete References headers; runs that end;
unsubscribes that are honoured; every event applied once and the gateway's
order kept; no suspended organisation past the plan check; guesses, seats and founded
organisations within their limits; the revoked out for good; no organisation
in another's rows; every paid call accounted for. `PROJECT.json` lists the hazards by line.

## 2. The modules

| Module | Models | Notes |
|---|---|---|
| `OutreachDB` | the shared tables and their queries | a lead stands for its address; `delivered`, `late`, `acceptedToday`, `faults` are ghosts |
| `SendEmails` | `sendEmails.js` | `sPc` names the await the run is at |
| `SendFollowups` | `sendFollowups.js` | an item is a lead with the step computed at the snapshot |
| `CheckReplies` | `checkReplies.js`, `imap.js` | a message is a lead and a class |
| `Dashboard` | `leads.ts`, `replies.ts`, `healthCheck.js`, `config.ts` | one bulk call or rejectReply at a time |
| `Outreach` | the composition | adds crash, midnight, fairness and the properties |
| `MCOutreach` | instances for TLC | domain assignments, symmetry |
| `OutreachInvariants` | inductive invariants | each TLC-checked before it was proved |
| `OutreachProofs` | proofs of the safety properties | |
| `LeadWork` | what a lead discovery run promises | abstract: waiting, working, settled |
| `FindLeads` | `findLeads.js`, `concurrency.js` | producers, queue, consumers, tables, crashes |
| `MCFindLeads` | an instance for TLC | |
| `FindLeadsProofs` | proofs about `FindLeads` | refinement of `LeadWork` included |
| `Billing` | `razorpay.ts`, `billing.ts`, `enforcePlan.ts`, `trialExpiry.worker.ts`, the overrides of `admin.ts` | one organisation, the gateway's subscriptions, events |
| `EngineLock` | `runEngine.ts`, `routes/runEngine.js`, `scheduler.ts`, `findLeads.worker.ts`, `server.js` | the running rows of one engine, the queue |
| `Platform` | the two together | `MCPlatform` is its instance |
| `PlatformProofs` | proofs about `Platform` | every safety property of its run |
| `TraceAdapters` | the forty adapters | each as the set of results it can come back with |
| `Trace` | `cli.ts`, `orchestrator.ts`, `cache.ts`, `anchors.ts` | runs of one company, one after another; `MCTrace` is its instance |
| `TracePromise` | what a run promises | abstract: names, answered, handed over |
| `SetSums` | facts about sums over finite sets | `MapThenSumSet` by set induction |
| `TraceProofs` | proofs about `Trace` | every safety property of its run, and the promise |
| `Requests` | how a server interleaves its requests | a handler is the list of its awaits still to come |
| `Accounts` | `otp.ts`, `google.ts`, `auth.ts`, `jwt.ts`, `tokenRevocation.ts`, `orgs.ts`, `admin.ts` | extends `Requests` |
| `Tenancy` | `scopedPrisma.ts`, `context.ts`, niches, saved views, offer, ICP profile, config, metrics, of both servers | extends `Accounts` |
| `BulkRetry` | `bulkRetry.ts` of both servers, the sending engine beside it | extends `Tenancy` |
| `LeadList` | `leads.ts`, `leadsFilter.ts`, `routes/leads.js` | extends `BulkRetry` |
| `EnginePage` | `Engines.jsx`, `api.js` and the routes they call | extends `LeadList` |
| `LeadsPage` | `Leads.jsx` with its table, panel, bulk bar and hooks, and the routes they call | extends `EnginePage` |
| `Console` | all of these, requests of any of them under way at once | `MCConsole` is its instance |
| `AccountsProofs` | proofs about `Console` | the safety of sign-in, memberships and revocation |
| `ConsoleProofs` | proofs about `Console` | the safety of tables, bulk retries and the page of engines |
| `PagesProofs` | proofs about `Console` | the safety of the page of leads and its list |

**From code to actions.** One action stands for the code between two awaits
whose effects another process can see. In `SendEmails`, `SendStart` is lines
74-134 (flags, limits, the snapshot of at most `limit - sentToday` ready leads
with a pending step 0, in any order: the order by score is left open);
`SendStop` and `SendCheck` are the top of the loop; `SendSkip`/`SendTake` the
reject list; `SendValidated`/`SendContentRejected`/`SendRejectLead` the text
check with its one regeneration; `SendAccepted`, `SendNoAnswer`,
`SendSoftBounce`, `SendHardBounce` the outcomes of `sendMail`; then one action
for each write. `SendCallFails` is a database call that throws: inside the
inner try blocks it is logged and the loop goes on, elsewhere (in the catch
that records a bounce, too) it ends the run. `SendFollowups` has the same
shape, with two differences that matter: a bounce of a follow-up is only
logged, and the "completed" status is written over whatever the row says.
`checkReplies` stores a message before acting on it, so a failed write is not
repeated (its row makes the next copy a duplicate).

`FindLeads` is the memory of one run and the rows it inserts: a producer takes
batch numbers as `withConcurrency` hands them out, pushes what a batch found
and wakes the sleepers; a consumer's `cPc` names the await it is at, from
`extract` over `verify`, `score`, the two model calls (`hook`, `body`) to the
insert of the lead and of its email. What is between two awaits is one action,
because the event loop cannot switch there: the three look-ups of the dedup
and its two adds are `Deduplicate`. A call that throws is caught by the lead's
own handler (`LeadFails`); when the handler's database write throws as well,
the promise of the worker rejects. Before the last batch is done nobody awaits
that promise, so Node ends the process (`ConsumerRejects`, `MemoryLost`);
afterwards it fails the run, and the other workers go on unwatched.
`FindLeads` and the send engines share only `leads` rows that are complete, so
they are not composed: `OutreachDB` starts from what `CreateEmail` leaves.

`Billing`, `EngineLock` and the modules under `Console` share a form: a process
that serves requests holds, for each request, the program of its awaits
(`todo`); an action is the code between two of them, and it shortens the
program, replaces it (a branch), or ends the request (an early return, an
error). What a handler has read and will use later is in its record (`saw`,
`id`), so that staleness is in the model wherever it is in the code. A rejected
promise in an Express 4 route has no handler and ends the process
(`Requests!Thrown`): all requests die. In a resolver it is an answer. Rows that
a transaction holds make others wait (`Tenancy!Held`), and Postgres aborts one
of two that wait for each other (`AbortOne`).

In `Billing` the programs of an event (`Effects`) are the statements of
`razorpay.ts` in order, `children` stands for any row a foreign key protects
(all are RESTRICT), and the gateway (`Life`, `Gateway`) is modelled from how
the webhook treats it. `EngineLock` adds the running rows: a run of a worker
writes two, its own and the engine's, and each is closed by id.

In `Trace` an adapter is the set of results `Outcomes(a, context)`, each with
its status, the cost it reports, what it spent, and whether an outage is behind
it (`cut`). Actions are the command line's: preflight, anchors, begin, answer,
write, report. Time limits are a result like the others.

`Accounts` keeps half seconds, since `iat` and `exp` are whole seconds and the
keys in Redis are compared with both. `BulkRetry` has the sending engine's three
steps beside it: the queue it loads at once, the mail, the mark with the body
it had loaded. `LeadList` builds the where clause as the code does, bound by
bound, and the properties compare it with what the filter says.

`LeadsPage` is one browser. Its requests are handlers like any other, so an
answer meets the page as it is by then; `desk` is the page's React state.
Effects that run because a dependency changed are part of the action that
changes it (`TurnPage` asks for rows, `StreamEnds` unticks and asks for them).
A retry goes on as a batch of `BulkRetry`, whose events the page counts one by
one (`OnEvent`); `desk.stands` is whether the page has survived them.

**Simplifications.** In `FindLeads` the queue is a set, money is a number of
model calls, and a run starts only when the workers a failed run left behind are
at rest (`AtRest`); the code does not wait for that (hazard at
`findLeads.js:514`). In the send engines, `daily_metrics` is read twice in a row
at the top of each loop, for the bounce rate and for the count; the model reads
once. The two IMAP inboxes are one. Two messages of a lead with the same class
count as the same text, which is how duplicates occur. `nextSendDate` is reduced
to whether it has come. In `Platform` there is one organisation and one engine.
Left out in `Console`: texts and names, the order of niches, sorting and pages
and plain equality filters of the list, facets, changes of the thresholds, the
audit log, `updateOrg` (a rename), and the tokens of the pages' requests (but the
retry's). Half an hour, after which a running row counts as stale, may pass
between any two steps of `EnginePage`. Where a route of one server kills its
process, the requests of both end (`Requests!Thrown`), which only adds to what
may be cut off. A token of the old server's password (`Tenancy!Tokens`) comes
only in menus that name it, and only to the old server: the API's plan check has
no organisation to look up for it, and a socket of the API (`server.ts:157`)
opened with one is left out. Scores stand for their order, 0 for none; the lowest
a rescore writes may be the number 0. The two model calls of a new hook
(`regenerateHook.js:45`), one await, are one. A bound of 0 on the score is no
bound (`filterParser.js` takes an empty one for none, `leadsFilter.ts` a null; a 0
that is given leaves out the leads without a score). In `LeadsPage` a note is
known by the lead it was written for, the awaits of the list's resolver are taken
together, and the stages retried are `PageStages`. Left out in `Trace`: what a
parser finds on a page, the wording of prompts, and two command lines at once.
Costs, holidays, the send window, per-inbox counters and `max_per_inbox` (read
at `sendEmails.js:84` and never used) are left out; a run the window forbids is
a run that does not start, and no property needs one to start. The kill switch
is `ForceLimitZero` with an arbitrary verdict of the blacklist look-up;
`RestoreLimit` is the operator's edit of the config key.

## 3. Properties and runs

Safety, all in `Outreach`:

- `DailyLimitBound`: mails accepted since midnight never exceed the limit by
  more than 1, plus 2 for each fault. Both engines can pass the check on the
  last free place, hence the 1; a crash can lose the counts of both mails.
- `RejectBound`: after an address is rejected at most one mail reaches it.
- `AtMostOnce`: no step is delivered to a lead more than `1 + faults` times.
- `InOrder`: no step is delivered before those in front of it.
- `ThreadComplete`: a sequence at step k rests on a sent step 0 and recorded
  mails 1..k, so the References header is complete.
- `BouncedStaysOut`: a lead with a hard bounce on file has no sequence.
- `TypeOK`: every status an action writes is one the readers know.

Liveness (`FairSpec`): `RunsEnd` and `UnsubscribeHonoured`.

In `FindLeads`:

- `NobodySleepsThrough`: no consumer sleeps beside a lead that waits, or after
  the last batch.
- `OneRowPerEmail`: an address becomes one row, whichever batches and runs
  find it.
- `SpendBound`: the cap is passed by less than two calls per consumer.
- `FewStranded`: a ready lead without its email costs a fault, and a fault at
  most one such lead per consumer.
- `KeepsPromise`: the run implements `LeadWork`: a lead is worked on once and
  a success has settled everything found.
- `RunEnds` (`FairLeadSpec`): every run ends, whatever fails.

In `Platform`:

- `AppliedOnce`: an event's writes are made at most once, however often it is
  delivered, also to two handlers at once.
- `MirrorsGateway`: events that arrive in their order leave the subscription and
  the organisation as the gateway has them, once their handlers are through.
- `SuspendedNotAdmitted`: what gets past the plan check of the API or of the
  worker for a suspended organisation was under way before. Runs of the old
  dashboard (`server.js:99`, `runEngine.js:48`) and the API's sockets
  (`server.ts:157`) meet no plan check, so the property says nothing of them.
- `RunsBound`: one run of an engine, and one more for each trigger that met a
  run without a row, or a live run that lost its row to age or force.
- `TrialsEnd`, `LockReachesOrg` (`FairSpec`): an expired trial or grace period
  ends, and its organisation is locked, whatever fails at night.
- `PlatformTypeOK`.

In `Trace`:

- `CostsAccounted`: what is reported of an answer was spent on it, and what was
  spent is reported but for what an adapter threw away with an error, what a
  verifier that failed had used, and an actor's rows beyond those kept
  (`apify.ts:76`; `Accounted`); a dossier
  reports no more than its day has spent, whatever it took from files
  (`BilledToday`); its parts add up (`PartsAddUp`, at the default rate of
  exchange); an answer kept is not paid for again (`PaidOnce`). Money is in tenths
  of a paisa, and the first three hold to half a paisa for each result with a price
  in dollars, which is rounded in the result and not in the parts (`Slack`).
- `OutageKeptAsNothing`: seven adapters keep an outage as "nothing", no others.
- `RejectedOnlyAfterDeath`: a run falls over a file only on a day on which
  another died while writing.
- `KeepsPromise`: a run implements `TracePromise`: every adapter in scope is
  answered once, the gated ones after all others, then the dossier.
- `RunEnds` (`FairSpec`), `TraceTypeOK`.

In `Console`:

- `CodeGuesses`: at most `Attempts` wrong codes, and one more for every time two
  verifications overlapped or one was cut off before it had counted.
- `MembershipsSound`: one home per person but for overlapping first sign-ins
  (`OneHome`), no half-made organisation with members (`HomesComplete`), seats
  (`SeatBound`) and an owner (`OwnerRemains`), each with its exact exceptions.
- `StayOut`: tokens of a suspended or deleted organisation, and tokens that
  logged out, are never accepted again, through expiring keys and reopenings.
- `TablesKept`: a day has one niche but for overlapping transactions
  (`OneNichePerDay`), one offer (`OneOffer`), keys saved together
  (`SavedTogether`), no increment lost or mixed (`DayCounts`).
- `NichesKept`: a niche or a view changes by its own organisation's requests, a
  super-admin's to the API, or one with the token of the old server's password,
  which names no organisation (`StaysHome`), and loses its day to a niche that has
  it (`DayHandedOver`).
- `SentAsRecorded`: a sent mail has the body that was sent, unless a
  regeneration was open when it was marked.
- `BatchAccounted`: a batch that says done has told of every lead
  (`DoneToldAll`), and pays for the stage of one more lead at most once its client
  has left (`OneMoreLead`).
- `FilterKept`: the list is what the filter asks for (`ListExact`), and the
  cards divide the leads (`KpisFit`), when no lead is written meanwhile.
- `PagesTrue`: a panel that stopped polling shows how its run ended, unless an
  unlock, or the sweep of another trigger, closed its row while it ran, which then
  goes on and writes its end later (`PanelTrue`); rows that have settled are those of the filter and page shown,
  but for answers that met (`ShownAsAsked`); an open lead is shown with its own
  data and note (`DetailFits`); a retry's progress counts its events and the
  page survives them, but when two retries meet (`RetryCounts`).
- `UnlockFits`: an unlock closes rows of the engine that was refused, also when
  another engine is shown by then, and the sweep of a trigger those of its own.
- `ConsoleTypeOK`.

A property that bundles parts is violated by a mutant for each of its parts.

| Run | Instance | Shows |
|---|---|---|
| `SharedLimit` | 3 leads of one domain, limit 1, `LastStep` 1, 2 faults | `DailyLimitBound`, `BouncedStaysOut`; the two-bounces rule of a domain fires |
| `Sequence` | 1 lead, limit 1, the real 5 steps, unsubscribe and soft no, 1 fault | `AtMostOnce`, `RejectBound`, `InOrder`, `ThreadComplete` |
| `Operator` | 1 lead, the bulk actions, kill switch, inbox 2 off the outreach domain, hot and out-of-office replies | `TypeOK` |
| `Fair` | 1 lead, unsubscribe, reject and a status set by hand | `RunsEnd`, `UnsubscribeHonoured` |
| `LeadQueue` | 3 raw leads of 2 addresses, 2 batches, 2 producers, 2 consumers, cap 1, 1 fault | the properties of `FindLeads` |
| `Platform` | 2 handlers of the API, 2 of the dashboard, 3 events, 2 subscriptions, 3 calls, 1 job, 1 fault; seven menus | the properties of `Platform` |
| `Trace` | each of the forty adapters in some setting, alone or with one it shares a wave or a gate with, 2 at a time, 2 runs, a midnight, a crash | the properties of `Trace` |
| `Console` | 2 requests at a time, up to 4 in all, 1 fault; 23 menus | the properties of `Console` |
| `AnyReply`, `MarkedUnsubscribed`, `BounceStop`, `LimitZero` | small | four documented rules the code does not keep (section 5) |

**Bounds.** `Lead`, `DailyLimit`, `LastStep`, `Category`, `DashActions`,
`SetStatuses` and `MaxFaults` bound an instance; nothing else does: the number
of runs, days and replies is unbounded, as counters are reset by `NewDay` and a
fault budget limits crashes, failed writes and lost answers. Three leads are
the fewest at which two bounced leads stop a third of their domain. One lead
is enough for the properties about one lead's history, because another lead
acts on it only through the reject list (its domain) and the counters.
`BounceNum/BounceDen` is 1/50 as configured, and 1/1 where the stop has to be
reachable with three leads. The proofs lift the bounds.

In `FindLeads`, `Raw`, `Batches`, `Producer`, `Consumer`, `SpendCap`,
`StartSpend` and `MaxFaults` bound an instance. Two consumers and two
producers are the fewest that can race; two raw leads of one address meet in
the dedup, and the third lets one consumer work while the other sleeps or
rejects. `StartSpend` is a day that has cost nothing yet, or all of the cap.
Runs follow each other without bound. Deadlock is checked: a run can always be
started again.

In `Platform` and `Console` a behaviour chooses one of a few *menus*: the kinds
of requests that come in it. A menu holds the kinds that touch the same rows;
without menus the product of all kinds would be checked, most of it of requests
that never meet. `MCConsole` and `Platform.cfg` list them. Two requests at a
time are the fewest that overlap; a third or fourth comes after one has ended,
which is what a stale key, a wrong count or an empty seat needs. `Attempts` is
2 for 5 and `Seats` 3: reached within a menu's requests. A week is 3 seconds and
an hour 1, longer than the second whose rounding matters; `MaxNow` lets both
end. Scores are 0 (none) to 3, with a threshold at 2 and at 3, so that every
comparison has both sides and equality; six filters have every shape of the
where clause, a seventh is none. `PageSize` is 2 for 25, so that the three
leads fill more than a page; the page's filters are one that has them all, and
two that have fewer. Two retries meet in the menu of `again`, which reaches the page
that falls (`desk.stands` false). A menu with a long batch beside the list asks for
one or two of the filters. The page of engines has two menus: four requests
without its panel (choose an engine, run it, choose another, unlock) and three with
it. Runs die only in the second: to the other routes a dead run is one that does not
end. `MaxEvents` 3 gives two events in the wrong order and a third
after them. In `Trace`, two adapters at a time are enough to race, the second
run reads what the first has left, and each instance of `MCTrace` holds the
adapters that bring out one kind of result; prices in tenths of a paisa (30 for a
search, 500, 63 for a row, 27 for the verifier, 23 for the anchors) are so that some
are rounded up and some down, and no two sums agree by accident. An actor's rows are
kept up to `Cap`, here 1, and it may be paid for one more.

Deadlock is not checked in these three: the number of requests, events or runs
is bounded and a behaviour ends when they are used up.

**Fairness.** In `Platform`, weak fairness of the nightly job: `scheduler.ts:60`
enqueues it at every midnight, for ever; a night that finds nothing is left out.
In `Trace`, weak fairness of a run's steps: every call has a time limit.
`Console` assumes none, and claims no liveness.
`LeadFairness` is weak fairness of every producer, of every
consumer and of the end of a run: the event loop runs every continuation, and
every call returns or throws. Runs need not be started, crashes need not
happen. `Fairness` is weak fairness of the steps of a run that has
started (the event loop runs every continuation) and of the reply engine
together with its fetch (cron starts it three times a day, for ever). It
assumes nothing of triggers of send runs, arriving mails, operators or days.
`Fair` runs without faults; `UnsubscribeHonoured` says so in its conclusion.
Deadlock checking is off in these runs: when no lead is left, the limit is 0,
or nobody answers, the system rightly stops except for midnights.

## 4. Proofs

`OutreachProofs` proves `Typing` (`Spec => []TypeOK`), `DailyLimitHolds`,
`BouncedStaysOutHolds`, `ThreadCompleteHolds`, `RejectBoundHolds`,
`AtMostOnceHolds` and `InOrderHolds`, for any set of leads and domains, any
limit, sequence length, fault bound and flags, from the named assumptions of the
modules only.

The argument. `AsideFrame`, `FollowupFrame` and `SendFrame` say what a step of
one process leaves alone of the others. On them rest the inductive invariants
of `OutreachInvariants`:

- `LimitInv` counts the places of the day's limit: those counted and the one
  each engine holds from its check to its count. A sum alone would not be
  inductive: the fault term pays for counts lost in flight.
- `EmailInv` ties the step-0 email to what the cold run is doing: a queued or
  held lead is pending, every sequence rests on a sent email, every bounce on
  a bounced one. `BouncedStaysOut` follows since a row has one status.
- `FollowInv` says that what a follow-up run remembers stays true: nobody else
  moves `currentStep`, so the step is still one past the row's when the mail
  goes out. This makes the old snapshot harmless, and with it `ThreadComplete`.
- `RejectInv`: a late mail was the one in flight when its address was
  rejected, and it is no longer in flight. It needs `OneInFlight`, that the
  engines never have a mail of the same lead in flight, which the other two
  invariants give.
- `ColdInv` and `StepInv` count deliveries against the tables: what is
  recorded was delivered, what is not was delivered at most once per fault.
  `AtMostOnce` is a part of them; `InOrder` is inductive relative to them.

`FindLeadsProofs` proves `LeadTyping`, `NobodySleepsThroughHolds`,
`KeepsPromiseHolds`, `OneRowPerEmailHolds`, `SpendBoundHolds` and
`FewStrandedHolds` for any number of producers, consumers, raw leads and
batches, any cap and any fault bound. `LeadInv` adds to the types that a lead is
held by one consumer and is off the queue, and that a consumer who is gone while
the run is on has seen an empty queue after the last batch: without it a run
could not be shown to succeed with nothing waiting. The refinement maps the
queue to `waiting`, what the consumers hold to `working` and the rest of what
was found to `settled`. `RowInv` says that an address past deduplication is
known, has no row yet and belongs to one consumer; `SpendInv` adds to the spend
the calls of those past the gate, which is what stays constant while they make
them. For `FewStranded` a step either strands nobody, or costs a fault and
strands what the consumers hold at most.

`PlatformProofs` proves every safety property of the run `Platform`, for any
finite set of dashboard handlers, any set of handlers of the API, any number of
events (at least the three a subscription begins with), subscriptions, calls and
faults, and any menus: `PlatformTyping`, `SuspendedStaysOut`, `RunsAreBounded`,
`EventsAppliedOnce` and `GatewayIsMirrored`. The invariants, each on top of
those before it:

- `TypeInv` adds to the types which steps a handler of a kind may have left
  (`May`) and which may follow which (`Then`), so that what is left of a program
  is known from its head. `StepSpot` says where a handler is after a step, which
  the other invariants use instead of the programs.
- `SuspendedStaysOut` needs no more: `early` is all that is past the check.
- `BoundInv` counts the started runs of the dashboard that have lost their row:
  no more than slipped past the guard, and one started run beside them.
- `OnceInv`: what was written of an event and what its delivery has still to
  write are together no more than its writes; a delivery that writes has
  recorded the event, and no other delivery writes for it.
- `MirrorInv`: until something is muddled, the deliveries that are writing write
  for the last event known, and the rows are where its writes so far put them;
  when none is writing, the rows are as that event leaves them.

`TraceProofs` proves every safety property of the run `Trace` and that a run
implements `TracePromise`, for any settings (finite menus of the forty adapters,
any keys and anchors), any concurrency, any number of days, runs and crashes:
`TraceTypes`, `CostsAreAccounted`, `OutagesKept`, `RejectionsFollowDeaths` and
`RunsKeepPromise`. In three layers:

- The adapters. `OutcomesFit` goes through all forty and shows that whatever one
  comes back with is `Fitting` for it: a result, its parts the parts the
  breakdown counts (`Attributed`, to the rounding), its cost no more than what was
  spent and less only in the ways `Accounted` allows, silence about an outage only from the
  seven. Adapters are grouped by what they do (`Free`, `Heard`, `Paid`,
  `Searched`, `Acted`, `Verdicts`), so a new one is a line if it is of a kind
  already there. `ValidatedFit` carries it past the schema check.
- `Core`, the inductive invariant. `RunFits`: the run's options, and no dossier
  handed over while a run is on. `WavesInOrder`: before the second wave nothing
  gated has begun, in it everything else is done, which is what the refinement
  needs. `ResultsFit` and `FilesFit`: what is held and what is kept fits its
  adapter, a file never holds an error, a torn file has its day in `torn`.
  `PaidFor`: an answer paid for today has its file, and a call in progress that
  would pay again has none; `PaidOnce` follows.
- `Covered`, for `BilledToday`. A dossier's total adds up costs that several runs
  may have paid, so no single step pays for it. The invariant is a potential: on
  every day, the fee of the run of that day and the worth of everything in hand,
  an adapter's result or else its file, add up to no more than the day's bill.
  Answers move money from the bill into hands, files keep it, crashes and expiry
  only lose it. `DossierFits` is what is left of it once the dossier is written, and
  the halves of a paisa of its results beside it (`SumsAddUp`).

`AccountsProofs` proves every safety property `Console` inherits from
`Accounts`, of the whole console and not of `Accounts` alone: `RevokedForGood`,
`GuessesAreBounded` and `MembershipsStaySound` (all four parts with their exact
exceptions), for any finite set of handlers, any number of requests, faults and
hours, any plan and limit of guesses, and any menus. `AccountsAssumption` says
of a menu what holds of the database one starts from: organisations are
numbered from 1, each has an owner, and no more first persons than seats;
`RequestsAssumption`, that finitely many requests are under way at once.

- `CoreInvariant` carries the rest. `ProcInv` says that a handler is inside a
  program of `Accounts` (`Inside`: its steps are among those its kind `May`
  have, each one followed only by what comes `Then`) or takes no part (`Away`);
  `RowInv` types the rows; `RefInv` says that the code, organisation or token a
  handler holds on to is there. `Catalogued` then says of a step of the console
  that it is one of twenty-five that write rows, or leaves all but the clock as
  it was (`Still`): each proof below goes through those twenty-five and not
  through every action of the console.
- `Claims` are the steps before which a handler holds what an invariant counts. A
  step is `Calm` when nobody comes to one of them, and a handler's own step is
  named by the one it comes to (`NewOnly`). Most steps keep an invariant for
  that reason alone; the proofs are about the others.
- `TokenInv`, for `StayOut`: a key set at a suspension expires a week after it,
  a token no later than a week after the second it was signed in, a token that
  logged out no later than its key. A cut is in the second or after it, so the
  key is outlived only by what has expired.
- `CodeInv`, for `CodeGuesses`, is a potential: the guesses settled and the
  verifications between their read and their count are together no more than
  `Attempts` and one for every overlap, and what each of those verifications saw
  bounds it too. The second part is needed since a count is written from what
  was read, and may go back.
- `HomeInv` counts with the homes of a person the first sign-ins that are about
  to make one. `slips.home` pays for those that met.
- `MemberInv` has five parts that lean on each other. `FreshInv`: an
  organisation being founded has nobody in it and one founder. `CompleteInv`:
  whoever is let in, or about to be, finds a subscription or a deletion under
  way. `SeatInv` adds the invitations past the check of seats to the members.
  `UniqueInv`: one membership per person and organisation. `OwnerInv`: a
  settled organisation has an owner whom no removal under way is about to take
  (`Dropping`), unless a change of role or a deletion was there; without that
  clause the owner might be the one a removal, past its check, still drops.

`ConsoleProofs` goes on from `CoreInvariant` to the tables, the bulk retries and
the page of engines, again of the whole console and for any handlers, faults,
numbers of requests, organisations, rows, leads, runs, filters and any menus:
`SteadyInvariant`, `TablesStayKept`, `NichesStayKept`, `SentStaysRecorded`,
`BatchesAccounted`, `PanelStaysTrue` and `UnlocksFit`; and `PagesProofs` from
there to `PagesStayTrue` and `FilterStaysKept`. Beside those of `Requests` and
`Accounts` they rest on two assumptions: `TenancyAssumption`, that days are
numbers from 1 on (0 is no day); and `ListAssumption`, that the filters of the
menus are among `Queries`, rows of the fields the filter bar has, and that
scores and thresholds are naturals. `FilterStaysKept` also has a hypothesis,
`ThreshB <= ThreshA`: the code seeds 40 and 70, and saves whatever the
configuration page sends. With the thresholds the other way round the buckets do
not divide the leads.

- `FlowInv` is the frame. Every await of the console is of one of a few kinds
  (niches, configuration, metrics, the other tables, retries, the page of
  engines, the page of leads), and a request that is no sign-in has awaits of
  one kind left, one after another as `Comes` says. A step of one kind leaves
  every request of another alone (`Beside`), and what the invariant of a kind
  reads is written by steps of its own kind but for a few named ones. So each
  invariant goes through its own steps, and through one lemma for the rest
  (`Division`), instead of through all of `Next` each time.
- `NicheSafe`, for `OneNichePerDay` and `NichesKept`. For a transaction past its
  look for the day (`Past`), no more niches have that day beside those it is
  about to clear and its own than `raced` overlaps have been paid for (`Few`);
  two transactions about to commit hold different rows (`Disjoint`), which still
  have the day they were found by (`Locked`). `OneNichePerDay` alone is not
  inductive: a commit is only right for what its transaction saw.
- `BookSafe`, for `SentAsRecorded` and `BatchAccounted`. Every open retry has a
  batch of its own (`OneEach`), which is where the step ahead of it says
  (`BatchOK`): what it has told of, what it has in hand and what is still to come
  are together what it loaded. `MailSafe` keeps the queue of the sending engine
  to mails still pending, and the mail in its hands to the body it had loaded;
  `MailOK` says that the mail a regeneration is about to write is pending still,
  or was marked in the meantime and is in `clashes`.
- `PageSafe`, for `PanelTrue` and `UnlockFits`. What is settled of a run stays,
  but for one that was forced (`RunsFirm`); an answer the panel has not shown yet
  and the end it shows are of such a run (`PanelOK`); a conflict on its way to
  the page, or to an unlock, is about a run of an engine with a button, and a
  trigger past its sweep is for one (`PageOK`). Why only rows of that engine are
  closed is in `ClosedRightly`: an unlock closes running rows of an engine with
  a button, and there is one.
- `DeskSafe`, for `PagesTrue`. It says of every request the page of leads has
  under way what the page remembers of it (`DeskReq`). `RowsSafe`: at most one
  request for rows is unanswered, and it asks for the filter and page shown, or
  two answers have met. `DetailSafe`: what the panel of a lead shows, or is about
  to, is that lead's. `StreamSafe`: every dry run has a stream of its own that is
  off, the one that is on is counted, and its batch loads no more than was
  ticked, so the progress never passes its total. `NumSafe` keeps the numbers of
  requests and of batches apart. Rows shown are only right because answers that
  are late are dropped or have met: `ShownAsAsked` alone is not inductive.
- `ListSafe`, for `FilterKept`. Between its statements a request for the list
  carries the leads its sub-queries have left (`marks`). `LeadRows` and `TallyIs`
  say that those, and the totals, rows and cards counted so far, are what the
  sub-queries already made leave of the leads there are now, as long as no lead
  was written since it was asked (`saw = edits`). `FilterSelects` compares the
  clause the code builds with what the filter means, score by score; they differ
  only where a minimum score takes the place of a priority's lower bound.
- `TableSafe` is the rest. A single row is one row for good (`SinglesOK`); while
  a save of two keys is between them (`Putting`) it is the only one, or the
  values count as mixed (`ConfigSafe`); the day's counter equals what was counted
  for its organisation and for none (`MetricSafe`).

Trying to prove these changed the model in four places where it said more, or
other things, than the code: rows are held only by a request whose statement is
a transaction (`Tenancy!Held`; what a handler remembered of another table
counted as a lock); a stream can be closed only while its batch is at work
(`BulkRetry!InBatch`); the list also answers a super-admin with another
organisation's leads (`answer.staff`, `LeadList!Visible`); and the page of leads
takes notice when the process that was to answer it dies in a step of another
part (`LeadsPage!Meanwhile`).

`SetSums` has what the sums need. The theorems of the library that do induction
take an operator and cannot be instantiated; `SubsetInduction` states induction
over the subsets of a finite set with a set of subsets in its place, from the
well-foundedness of strict inclusion, and from it follow the rules for
`MapThenSumSet`, in which the totals are written, for `SumOver`, and for sums of
parts, each within its own bound (`SumParts`, `SumsAddUp`).

Only model-checked: of the safety properties `ConsoleTypeOK` alone, of which the
proofs use the parts they need (`RowInv`, `Steady`, `TableSafe`, `DeskSafe`); and
everything that needs fairness: `RunsEnd`,
`UnsubscribeHonoured`, both `RunEnds`, `TrialsEnd` and `LockReachesOrg` (ENABLED
and fairness are out of the prover's reach).

## 5. Where code and documents differ

- `AnyReply`: the design stops a sequence on any reply; the code does not for
  "other", "ooo" and "soft_no".
- `MarkedUnsubscribed`: a lead marked unsubscribed on the dashboard keeps its
  sequence; `sendFollowups` never looks at `leads.status`.
- `BounceStop`: the bounce rate of a day without a successful send counts as 0,
  so a day on which every mail bounces is never stopped.
- `LimitZero`: a limit set to 0 does not stop a run that has begun.

Met on the way and not made into runs.

Engines: a soft-bounced lead stays `ready` and
its email is never retried (`retry_after` has no reader); a step that throws
in regeneration leaves the lead `ready` with a rejected email; one rejected
address at a public mail provider rejects all of that provider's leads
(`isRejected` matches by domain); "completed" overwrites "unsubscribed" on the
last step.

Billing and locks: the comment at `admin.ts:300` says that Prisma cascades the
deletion of an organisation; every foreign key restricts, the two deletions are
not one transaction, and the second fails for any organisation with rows.
`razorpay.ts` calls itself fully idempotent, but the event is recorded before
its effects, so a crash in between loses them; the webhook of a subscription
nobody knows is acknowledged and dropped. `/cancel` sets `cancelAtPeriodEnd`,
which nothing reads. An override of the plan leaves the organisation locked, and
the scheduler skips it. A payment, and the stale expiry of `enforcePlan`,
overwrite `suspended`; no property catches it, for it is what the code does.
`OrgDetail.tsx:120` says a suspension revokes all sessions; the old dashboard
looks at neither the plan nor the revocation. `runEngine.js:46` says its guard keeps two runs from
racing; it looks first and inserts later. `findLeads` catches its own errors, so
the worker's row says success and BullMQ never retries.

Trace: the design (`2026-05-01-radar-trace-design.md`, lines 436-438, 504) says
errors are not cached and cached reads do not bill again; seven adapters cache
an outage as an empty answer, and the cost of a cached answer is added to the
next dossier. A `cacheTtlMs` above a day has no effect, since the file's name
has the date. The gate of `glassdoor_apify` asks for a result no adapter gives.
A bad `--linkedin` fails the final parse, after everything was paid for. A
half-written file rejects every later run of the day. The Apify client keeps
`maxResults` rows and reports the cost of those, though all were paid for, with
status `ok` (`apify.ts:76`). Adapters round a price in dollars to whole paise, the
breakdown does not (`cli.ts:272`): it puts what rounding left on Serper, or its parts
miss the total by half a paisa a result. The verifier and the anchors count 84 rupees
a dollar whatever `USD_INR_RATE` says.

Accounts: `Team.tsx:67` says a removed member's session is ended; nothing is
revoked. A change of role may take the last owner away. An invitation under way
while its organisation is deleted leaves a member and blocks the deletion. A
guess cut off by a crash is not counted. The old server knows no revocation, and
the socket of a subscription does not ask for the plan: a locked organisation
can run a bulk retry. `server.js:94` says that every request below gets a client that
injects its organisation; the token of the password login (`routes/auth.js:6`) names
none, and its client has no filter (`scopedPrisma.ts:14`): it reads and changes the rows
of every organisation, and what it creates is organisation 1's.

Tables: the upserts of `scopedPrisma` on keys without an organisation
(`config.key`, `daily_metrics.date`) write another organisation's row, or make
sure of it and then fail to increment it; only one organisation can ever save an
offer or an ICP profile (their id is 1 by default). A super-admin's writes go to
organisation 1, and clear the niche days of all. The "one-off" upgrade of the
ICP thresholds (`db/index.js:261`) runs at every start.

Leads and pages: re-extraction changes the address and keeps its verdict; what a
retry spends is in no counter or cap; the sending engine's mark writes back the
body it had loaded, over a regenerated one. A minimum score takes the place of a
single priority's lower bound; leads without a score come first in the default
order; cards and export ignore the filters on signals and technologies. On the
page of engines a 404 or a null id ends the polling, so that a run whose row is
late is never followed; "Run now" closes the row of a live run older than half an
hour and starts a second one, the panel of the first stops at "failed", and that run
writes "success" later (`runEngine.js:57`); the button of an old conflict acts on the engine shown
now; a panel's change against its start is always 0 (a stale closure, against
its comment at line 295).

Page of leads: a saved view is stored as `{}` (`createSavedView` in `api.js`
does not read the key `filtersJson` it is given), and applying one spreads the characters of a
string, so that all it does is to go to page 1. A change of the filter keeps the
page's number, which may be past the end, without buttons to leave it. The bulk
bar acts on ticked leads that are shown no more, and "select all" compares
numbers. The first of two retries to end clears the progress, and the next event
of the other reads it (`Leads.jsx:79`): the page is gone. `PaywallPage` leads to
`/settings/billing`, which is behind the same gate as the page it was shown for;
"Resend code" only starts the countdown again.

## 6. Not modelled

- *Signals* (`src/core/signals`): adapters with time-outs whose rows nothing but
  a prompt reads; a result is written or it is not.
- *Prompts, model and API clients, integrations*: their outcomes are choices in
  the modules that call them; their contents are text.
- *Other pages of the web application*: they load once and show what they got.
  Presentation is left out everywhere, and so are the facets, the columns and
  the export of the page of leads.
- *Reports, health check's look-ups, sequences and guardrails*: read-only, or one
  write of one row by one person.
- *Other tables behind the scoped client*: the same four operations as those
  modelled, on rows with an organisation of their own.

Hazards met and not covered by a property. The inbox of a mail is the parity of
a counter both engines bump (`sendEmails.js:216`); `max_per_inbox` is read and
never used, so there is no cap to state. A failed run of `findLeads` does not
wait for its workers, and one started at once may insert the same address
(`findLeads.js:514`); `FindLeads` starts the next run when they are at rest.
Answers of a trace are kept without the anchors they were got with
(`cache.ts:13`); the code does not say which is the right one. `imap.js:51` and
`scheduler.ts:54` are in the list with their reasons.

What could follow: two generations of workers in `FindLeads` and the two IMAP
inboxes of `CheckReplies`.
