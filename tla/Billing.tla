------------------------------ MODULE Billing ------------------------------
(***************************************************************************)
(* The subscription of one organisation, and everything that writes it:    *)
(* the payment gateway's webhook, the plan check in front of every GraphQL *)
(* request, the nightly expiry job, the owner's billing routes and the     *)
(* super-admin mutations.  A handler is a program: the sequence of its     *)
(* awaits, each one a step that another handler can run in front of.       *)
(* cancel_at_period_end and current_period_end are left out: they are      *)
(* written here and read by nothing but the billing page.                  *)
(***************************************************************************)
EXTENDS Naturals, Sequences, FiniteSets

CONSTANTS
  Api,        \* handlers that can be under way in the API process at once
  Dash,       \* the same for the legacy dashboard process
  MaxEvents,  \* bound: events the gateway emits
  MaxSubs,    \* bound: subscriptions opened at the gateway
  MaxCalls,   \* bound: handlers begun, the nightly job apart
  MaxFaults,  \* bound: crashes, failed calls and lost answers
  Menus       \* bound: the sets of kinds of calls that come together

Worker == 98
Night == 99
Nobody == 0
ASSUME BillingAssumption ==
  /\ {MaxEvents, MaxSubs, MaxCalls, MaxFaults} \subseteq Nat
  /\ MaxEvents >= 3    \* as many as a first month has
  /\ Api \cap Dash = {}
  /\ {Worker, Night} \cap (Api \cup Dash) = {}

VARIABLES
  menu,     \* the kinds of calls that come
  sub,      \* the row of org_subscriptions, or NoSub
  org,      \* orgs.status, "gone" when the row is deleted
  opened,   \* opened[r]: what the gateway knows of its subscription r
  emitted,  \* the gateway's events, in the order they happened
  due,      \* events the gateway still delivers: not answered with a 200
  seen,     \* razorpay_webhook_events: the events recorded
  children, \* leads, cron_log and other rows refer to the organisation
  proc,     \* proc[p]: the handler p is in, the steps it has left
  calls,    \* handlers begun so far
  faults,   \* faults so far
  done,     \* ghost: writes of an event carried out so far
  muddled,  \* ghost: something else than the events in their order touched the rows
  early     \* ghost: handlers that were under way when the organisation was suspended

billing == <<menu, sub, org, opened, emitted, due, seen, children>>
ghosts == <<done, muddled, early>>

Procs == Api \cup Dash \cup {Worker, Night}
NoSub == [status |-> "none", trial |-> "none", grace |-> "none", rzp |-> 0]
SubStatuses == {"trial", "active", "grace", "locked"}
Subs == [status : SubStatuses, trial : {"none", "ahead", "passed"},
         grace : {"none", "ahead", "passed"}, rzp : 0..MaxSubs]
OrgStatuses == {"trial", "active", "locked", "suspended"}
EventTypes == {"activated", "charged", "cancelled", "completed", "failed"}
Expired == \/ sub.status = "trial" /\ sub.trial = "passed"
           \/ sub.status = "grace" /\ sub.grace = "passed"
Idle == [op |-> "idle", ev |-> 0, todo |-> <<>>, saw |-> "nothing"]

(***************************************************************************)
(* What each event does, as the switch of the webhook.                     *)
(***************************************************************************)
\* Mutant: the end of a subscription is not passed on to the organisation.
EffectsOnSubOnly(type) == IF type = "completed" THEN <<"sub locked">> ELSE
  CASE type = "activated" -> <<"sub active", "org active">>
    [] type = "charged"   -> <<"sub charged", "org active">>
    [] type = "failed"    -> <<"sub grace">>
    [] OTHER              -> <<>>
Effects(type) ==
  CASE type = "activated" -> <<"sub active", "org active">>
    [] type = "charged"   -> <<"sub charged", "org active">>
    [] type = "completed" -> <<"sub locked", "org locked">>
    [] type = "failed"    -> <<"sub grace">>
    [] OTHER              -> <<>>

(***************************************************************************)
(* Single writes: the rows after one, and when it throws instead.          *)
(***************************************************************************)
Updates == {"sub active", "sub charged", "sub locked", "sub grace", "sub trial", "sub touched"}
SubWrites == Updates \cup {"subs locked", "lock trials", "lock graces", "sub upserted", "delete sub"}
OrgWrites == {"org active", "org locked", "org suspended", "org trial", "sync orgs", "delete org"}

\* Mutant: the nightly job compares the end of the trial for grace periods too.
SubAfterTrialsOnly(w) ==
  IF w = "lock graces" THEN IF sub.status = "grace" /\ sub.trial = "passed" THEN [sub EXCEPT !.status = "locked"] ELSE sub
  ELSE CASE w = "sub active"   -> [sub EXCEPT !.status = "active"]
         [] w = "sub charged"  -> [sub EXCEPT !.status = "active", !.grace = "none"]
         [] w = "sub grace"    -> [sub EXCEPT !.status = "grace", !.grace = "ahead"]
         [] w = "sub trial"    -> [sub EXCEPT !.status = "trial", !.trial = "ahead"]
         [] w = "sub upserted" -> [sub EXCEPT !.status = "active"]
         [] w = "delete sub"   -> NoSub
         [] \/ w = "sub locked"
            \/ w = "subs locked" /\ sub # NoSub
            \/ w = "lock trials" /\ sub.status = "trial" /\ sub.trial = "passed"
                               -> [sub EXCEPT !.status = "locked"]
         [] OTHER              -> sub
SubAfter(w) ==
  CASE w = "sub active"   -> [sub EXCEPT !.status = "active"]
    [] w = "sub charged"  -> [sub EXCEPT !.status = "active", !.grace = "none"]
    [] w = "sub locked"   -> [sub EXCEPT !.status = "locked"]
    [] w = "sub grace"    -> [sub EXCEPT !.status = "grace", !.grace = "ahead"]
    [] w = "sub trial"    -> [sub EXCEPT !.status = "trial", !.trial = "ahead"]
    [] w = "sub upserted" -> [sub EXCEPT !.status = "active"]
    [] w = "delete sub"   -> NoSub
    [] \/ w = "subs locked" /\ sub # NoSub
       \/ w = "lock trials" /\ sub.status = "trial" /\ sub.trial = "passed"
       \/ w = "lock graces" /\ sub.status = "grace" /\ sub.grace = "passed"
                          -> [sub EXCEPT !.status = "locked"]
    [] OTHER              -> sub
\* Mutant: the nightly sync looks at active organisations only.
OrgAfterActiveOnly(w, saw) ==
  CASE w = "org active"    -> "active"
    [] w = "org locked"    -> "locked"
    [] w = "org suspended" -> "suspended"
    [] w = "org trial"     -> "trial"
    [] w = "delete org"    -> "gone"
    [] w = "sync orgs" /\ saw = "locked" /\ org = "active" -> "locked"
    [] OTHER               -> org
OrgAfter(w, saw) ==
  CASE w = "org active"    -> "active"
    [] w = "org locked"    -> "locked"
    [] w = "org suspended" -> "suspended"
    [] w = "org trial"     -> "trial"
    [] w = "delete org"    -> "gone"
    [] w = "sync orgs" /\ saw = "locked" /\ org \notin {"suspended", "gone"} -> "locked"
    [] OTHER               -> org

\* update() and delete() throw on a missing row, and where a foreign key restricts:
\* an event points at its subscription, a subscription and all data at their organisation.
Throws(w) ==
  \/ w \in Updates /\ sub = NoSub
  \/ w \in {"org active", "org locked", "org suspended", "org trial"} /\ org = "gone"
  \/ w = "sub upserted" /\ org = "gone"
  \/ w = "delete sub" /\ sub # NoSub /\ seen # {}
  \/ w = "delete org" /\ (org = "gone" \/ sub # NoSub \/ children)

(***************************************************************************)
(* Handlers.                                                               *)
(***************************************************************************)
At(p, step) == proc[p].todo # <<>> /\ Head(proc[p].todo) = step
Busy == {p \in Procs : proc[p].todo # <<>>}
\* The handlers of a process are interchangeable: the first free one takes the call.
Peers(p) == CASE p \in Api -> Api [] p \in Dash -> Dash [] OTHER -> {p}
Begin(p, kind, op, ev, program) ==
  /\ kind \in menu
  /\ calls < MaxCalls /\ calls' = calls + 1
  /\ proc[p].todo = <<>> /\ \A q \in Peers(p) : proc[q].todo = <<>> => p <= q
  /\ proc' = [proc EXCEPT ![p] = [op |-> op, ev |-> ev, todo |-> program, saw |-> "nothing"]]
Last(p) == Len(proc[p].todo) = 1
Ended(p) == [proc EXCEPT ![p] = Idle]
Advance(p) == IF Last(p) THEN Ended(p) ELSE [proc EXCEPT ![p].todo = Tail(@)]
\* The API catches no rejection of an Express handler: the process ends with all its handlers.
ApiDead == [p \in Procs |-> IF p \in Api THEN Idle ELSE proc[p]]
\* A GraphQL resolver, and the route with a catch of its own, answer with an error instead.
Thrown(p) == IF proc[p].op \in {"hook", "check", "touch"} THEN ApiDead ELSE Ended(p)
StillEarly == early' = {p \in early : proc'[p].todo # <<>>}

Histories == {<<"activated", "charged", e>> : e \in EventTypes \ {"activated"}}
BillingInit ==
  /\ menu \in Menus
  \* Created by the first sign-in or by a super-admin; on trial, or at the checkout.
  /\ org \in {"trial", "active"}
  /\ \E r \in IF "hook" \in menu THEN {0, 1} \cap 0..MaxSubs ELSE {0} :
       /\ sub = [NoSub EXCEPT !.status = "trial", !.trial = "ahead", !.rzp = r]
       /\ IF r = 0 THEN emitted = <<>> /\ opened = [q \in 1..MaxSubs |-> "none"]
          ELSE \E h \in Histories :
                 /\ emitted = [i \in 1..Len(h) |-> [type |-> h[i], rzp |-> r]]
                 /\ opened = [q \in 1..MaxSubs |-> IF q = r THEN "over" ELSE "none"]
  /\ due = 1..Len(emitted) /\ seen = {} /\ children = FALSE
  /\ done = [k \in 1..MaxEvents |-> 0] /\ muddled = FALSE

(***************************************************************************)
(* The gateway: a subscription offered for checkout is paid, renewed,      *)
(* fails to be renewed, is cancelled and runs out.  Its events are         *)
(* delivered in any order, and again until a delivery is answered.         *)
(***************************************************************************)
Life == { [from |-> "offered", to |-> "live", types |-> <<"activated", "charged">>],
          [from |-> "live", to |-> "live", types |-> <<"charged">>],
          [from |-> "live", to |-> "live", types |-> <<"failed">>],
          [from |-> "live", to |-> "over", types |-> <<"cancelled">>],
          [from |-> "live", to |-> "over", types |-> <<"completed">>] }
Gateway ==
  \E r \in 1..MaxSubs, e \in Life :
    /\ opened[r] = e.from
    /\ Len(emitted) + Len(e.types) <= MaxEvents
    /\ opened' = [opened EXCEPT ![r] = e.to]
    /\ emitted' = emitted \o [i \in 1..Len(e.types) |-> [type |-> e.types[i], rzp |-> r]]
    /\ due' = due \cup (Len(emitted) + 1 .. Len(emitted) + Len(e.types))
    /\ UNCHANGED <<menu, sub, org, seen, children, proc, calls, faults, ghosts>>

Deliver(p) ==
  \E k \in due :
    /\ p \in Api /\ Begin(p, "hook", "hook", k, <<"find">>)
    /\ UNCHANGED <<billing, faults, ghosts>>

\* A 200, after which the gateway is done with the event unless the answer is lost.
Answered(k) ==
  \/ due' = due \ {k} /\ UNCHANGED faults
  \/ faults < MaxFaults /\ faults' = faults + 1 /\ UNCHANGED due

\* findFirst on the subscription, findUnique on the event.
FindEvent(p) ==
  LET k == proc[p].ev IN
  /\ At(p, "find")
  /\ IF sub = NoSub \/ sub.rzp # emitted[k].rzp \/ k \in seen
       THEN Answered(k) /\ proc' = Ended(p)
       ELSE UNCHANGED <<due, faults>> /\ proc' = [proc EXCEPT ![p].todo = <<"record">>]
  /\ StillEarly
  /\ UNCHANGED <<menu, sub, org, opened, emitted, seen, children, calls, done, muddled>>

\* Ahead of an earlier event, or in the middle of the effects of another one.
OutOfTurn(p, k) ==
  \/ \E j \in 1..k - 1 : j \notin seen
  \/ \E q \in Procs \ {p} : proc[q].op = "hook" /\ Head(proc[q].todo) \notin {"find", "record"}

\* Mutant: no unique key on the event.
RecordTwice(p) ==
  LET k == proc[p].ev
      effects == Effects(emitted[k].type) IN
  /\ At(p, "record")
  /\ seen' = seen \cup {k}
  /\ IF effects = <<>> THEN Answered(k) /\ proc' = Ended(p)
     ELSE UNCHANGED <<due, faults>> /\ proc' = [proc EXCEPT ![p].todo = effects]
  /\ StillEarly
  /\ UNCHANGED <<menu, sub, org, opened, emitted, children, calls, done, muddled>>
\* create: the unique key turns a second copy away, with an error.
RecordEvent(p) ==
  LET k == proc[p].ev
      effects == Effects(emitted[k].type) IN
  /\ At(p, "record")
  /\ \/ /\ k \in seen \/ sub = NoSub
        /\ proc' = ApiDead /\ muddled' = TRUE /\ UNCHANGED <<seen, due, faults>>
     \/ /\ k \notin seen /\ sub # NoSub
        /\ seen' = seen \cup {k}
        /\ muddled' = (muddled \/ OutOfTurn(p, k))
        /\ IF effects = <<>> THEN Answered(k) /\ proc' = Ended(p)
           ELSE UNCHANGED <<due, faults>> /\ proc' = [proc EXCEPT ![p].todo = effects]
  /\ StillEarly
  /\ UNCHANGED <<menu, sub, org, opened, emitted, children, calls, done>>

\* One write of any handler.
Write(p, w) ==
  LET k == proc[p].ev
      hook == proc[p].op = "hook" IN
  /\ At(p, w)
  /\ IF Throws(w)
       THEN proc' = Thrown(p) /\ muddled' = TRUE /\ UNCHANGED <<sub, org, due, faults, done>>
       ELSE /\ sub' = SubAfter(w) /\ org' = OrgAfter(w, proc[p].saw)
            /\ proc' = Advance(p)
            /\ IF hook /\ Last(p) THEN Answered(k) ELSE UNCHANGED <<due, faults>>
            /\ done' = IF hook THEN [done EXCEPT ![k] = @ + 1] ELSE done
            /\ muddled' = (muddled \/ (~hook /\ <<sub', org'>> # <<sub, org>>))
  /\ IF w = "org suspended" THEN early' = {q \in Busy \ {p} : proc'[q].todo # <<>>} ELSE StillEarly
  /\ UNCHANGED <<menu, opened, emitted, seen, children, calls>>

(***************************************************************************)
(* The plan check, in front of every GraphQL request.                      *)
(***************************************************************************)
ReadSub(p) ==
  /\ At(p, "read sub")
  /\ proc' = IF sub = NoSub \/ sub.status = "locked" THEN Ended(p)
             ELSE [proc EXCEPT ![p].todo = Tail(@), ![p].saw = IF Expired THEN "expired" ELSE "open"]
  /\ StillEarly
  /\ UNCHANGED <<billing, calls, faults, done, muddled>>
\* Mutant: only a locked organisation is turned away.
ReadOrgLockedOnly(p) ==
  /\ At(p, "read org")
  /\ proc' = IF org = "locked" THEN Ended(p) ELSE Advance(p)
  /\ StillEarly
  /\ UNCHANGED <<billing, calls, faults, done, muddled>>
ReadOrg(p) ==
  /\ At(p, "read org")
  /\ proc' = IF org = "suspended" THEN Ended(p)
             ELSE IF proc[p].op = "check" /\ proc[p].saw = "expired"
                    THEN [proc EXCEPT ![p].todo = <<"sub locked", "org locked">>]
                    ELSE Advance(p)
  /\ StillEarly
  /\ UNCHANGED <<billing, calls, faults, done, muddled>>

(***************************************************************************)
(* Owners and super-admins.                                                *)
(***************************************************************************)
Ask(p, kind, op, program) == Begin(p, kind, op, 0, program) /\ UNCHANGED <<billing, faults, ghosts>>
AdminPrograms == {<<"org suspended", "subs locked">>, <<"sub upserted">>,
                  <<"sub trial", "org trial">>, <<"delete sub", "delete org">>}
Admin(p) == p \in Api /\ \E program \in AdminPrograms : Ask(p, "admin", "admin", program)
Query(p) == p \in Api /\ Ask(p, "query", "check", <<"read sub", "read org">>)
Touch(p) == p \in Api /\ Ask(p, "touch", "touch", <<"sub touched">>)
Subscribe(p) == p \in Api /\ Ask(p, "subscribe", "subscribe", <<"open", "store">>)

\* The gateway opens a subscription; the id is stored, and offered with the answer.
OpenSub(p) ==
  /\ At(p, "open")
  /\ \E r \in 1..MaxSubs :
       /\ opened[r] = "none" /\ \A q \in 1..r - 1 : opened[q] # "none"
       /\ opened' = [opened EXCEPT ![r] = "created"]
       /\ proc' = [proc EXCEPT ![p].todo = Tail(@), ![p].ev = r]
  /\ UNCHANGED <<menu, sub, org, emitted, due, seen, children, calls, faults, ghosts>>
OpenFails(p) ==
  /\ At(p, "open") /\ faults < MaxFaults /\ faults' = faults + 1
  /\ proc' = Ended(p) /\ StillEarly
  /\ UNCHANGED <<billing, calls, done, muddled>>
StoreSub(p) ==
  LET r == proc[p].ev IN
  /\ At(p, "store")
  /\ IF sub = NoSub THEN UNCHANGED <<sub, opened>>
     ELSE sub' = [sub EXCEPT !.rzp = r] /\ opened' = [opened EXCEPT ![r] = "offered"]
  /\ proc' = Ended(p) /\ StillEarly
  /\ muddled' = (muddled \/ seen # {})
  /\ UNCHANGED <<menu, org, emitted, due, seen, children, calls, faults, done>>

(***************************************************************************)
(* The nightly job and the clock.                                          *)
(***************************************************************************)
Nightfall ==
  /\ proc[Night].todo = <<>> /\ (Expired \/ sub.status = "locked")
  /\ proc' = [proc EXCEPT ![Night].op = "night",
       ![Night].todo = <<"lock trials", "lock graces", "find locked", "sync orgs">>]
  /\ UNCHANGED <<billing, calls, faults, ghosts>>
\* Mutant: the job reads the subscription whatever its status.
FindUnfiltered ==
  /\ At(Night, "find locked")
  /\ proc' = [proc EXCEPT ![Night].todo = Tail(@), ![Night].saw = sub.status]
  /\ UNCHANGED <<billing, calls, faults, ghosts>>
FindLocked ==
  /\ At(Night, "find locked")
  /\ proc' = [proc EXCEPT ![Night].todo = Tail(@),
                          ![Night].saw = IF sub.status = "locked" THEN "locked" ELSE "open"]
  /\ UNCHANGED <<billing, calls, faults, ghosts>>
TimePasses ==
  /\ "clock" \in menu
  /\ \/ sub.trial = "ahead" /\ sub' = [sub EXCEPT !.trial = "passed"]
     \/ sub.grace = "ahead" /\ sub' = [sub EXCEPT !.grace = "passed"]
  /\ UNCHANGED <<menu, org, opened, emitted, due, seen, children, proc, calls, faults, ghosts>>

ApiCrash ==
  /\ faults < MaxFaults /\ faults' = faults + 1
  /\ Busy \cap Api # {}
  /\ proc' = ApiDead /\ muddled' = TRUE /\ StillEarly
  /\ UNCHANGED <<billing, calls, done>>
=============================================================================
