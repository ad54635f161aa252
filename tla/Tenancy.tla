------------------------------ MODULE Tenancy -------------------------------
(***************************************************************************)
(* The tables every organisation edits: niches, saved views, the offer and *)
(* the ICP profile, the configuration and the day's metrics.  A request    *)
(* sees the rows of its token's organisation; a super-admin's to the API   *)
(* sees all, and so does one to the old server with the token of its own   *)
(* password login, which names no organisation.  Texts and the order of    *)
(* niches are left out.                                                    *)
(***************************************************************************)
EXTENDS Accounts

CONSTANT Days   \* the days of the week a niche may have; 0 is no day
ASSUME TenancyAssumption == Days \subseteq Nat \ {0}

VARIABLES
  niches,   \* niches, by id: [org, day, alive]
  views,    \* saved_views, by id: [org, alive]
  singles,  \* the tables offer and icp_profile: the organisations of their rows
  config,   \* two keys saved together: the organisation of each row and the request that wrote
            \* it; ghosts: saves half done, saves that began during another
  daily,    \* today's row of daily_metrics: its organisation and a counter; ghost own: who counted
  raced     \* ghost: commits of a niche's day while another such transaction was open

tenancy == <<niches, views, singles, config, daily, raced>>

Tables == {"offer", "icp"}
Keys == {"a", "b"}
NicheDays == Days \cup {0}
\* Seeds, or rows an organisation saved before.
TenancyInit ==
  /\ niches = <<[org |-> 1, day |-> 1, alive |-> TRUE], [org |-> 1, day |-> 2, alive |-> TRUE],
                [org |-> 2, day |-> 1, alive |-> TRUE]>>
  /\ views = <<[org |-> 1, alive |-> TRUE]>>
  /\ IF "single" \in menu.kinds THEN singles \in [Tables -> {<<>>, <<1>>}] ELSE singles = [t \in Tables |-> <<>>]
  /\ config = [row |-> [k \in Keys |-> [org |-> 0, by |-> 0]], open |-> 0, mixed |-> FALSE]
  /\ daily = [org |-> 0, count |-> 0, own |-> [o \in 0..2 |-> 0]]
  /\ raced = 0

(***************************************************************************)
(* The scoped client: where gets the organisation, and so does what is     *)
(* created; without one there is no filter, and the column's default is    *)
(* the first organisation.                                                 *)
(***************************************************************************)
Unscoped(p) == proc[p].by = 0 \/ (proc[p].op # "legacy" /\ sessions[proc[p].by].staff)
Sees(p, row) == Unscoped(p) \/ row.org = proc[p].org
OrgOfNew(p) == IF Unscoped(p) THEN 1 ELSE proc[p].org

\* Whose token a request carries: a session's, which both servers take, or 0, one that the
\* old server signs for the dashboard's password; the API's plan check has no organisation
\* to look up for it.
Tokens == DOMAIN sessions \cup {s \in {0} : "password" \in menu.kinds}
OrgOf(s) == IF s = 0 THEN 0 ELSE sessions[s].org
\* A request of either server for the organisation of its token.
Edit(p, kind, id, day, program) == \E s \in Tokens :
  LET request(op, first) == [Idle EXCEPT !.op = op, !.by = s, !.org = OrgOf(s),
                                         !.id = id, !.who = day, !.todo = first \o program] IN
  /\ \/ s # 0 /\ Begin(p, kind, request(kind, <<"enter", "context">>))
     \/ Begin(p, kind, request("legacy", <<"token">>))
  /\ UNCHANGED <<accounts, tenancy>>
\* The old server verifies the token, and nothing else.  A password's may be of any age.
Token(p) ==
  LET s == proc[p].by IN
  /\ At(p, "token")
  /\ \/ (s # 0 => Second(now) < sessions[s].exp) /\ proc' = Advance(p)
     \/ (s # 0 => Second(now) >= sessions[s].exp) /\ proc' = Ended(p)
  /\ Going /\ UNCHANGED <<accounts, tenancy>>

(***************************************************************************)
(* Niches.  A transaction (read committed) takes the day from the niches   *)
(* that have it, then writes its own; who = the day, id = the niche.       *)
(* marks: the rows a statement has found; locks: the rows it holds.        *)
(***************************************************************************)
Transaction(p) == proc[p].op \in {"niche", "legacy"} /\ Awaits(p, "commit")
Held(p, rows) == \E q \in Others(p) : Transaction(q) /\ proc[q].locks \cap rows # {}
Wants(p) == CASE At(p, "lock day") -> proc[p].marks
              [] At(p, "write") \/ At(p, "delete niche") -> {proc[p].id}
              [] OTHER -> {}
Clearing(day) == IF day = 0 THEN <<>> ELSE <<"mark day", "lock day">>
CreateNiche(p) == \E d \in NicheDays :
  Edit(p, "niche", 0, d, <<"begin">> \o Clearing(d) \o <<"commit">>)
UpdateNiche(p) == \E i \in DOMAIN niches, d \in NicheDays :
  Edit(p, "niche", i, d, <<"find niche", "begin">> \o Clearing(d) \o <<"write", "commit">>)
DeleteNiche(p) == \E i \in DOMAIN niches :
  Edit(p, "niche", i, 0, <<"find niche", "delete niche">>)

FindNiche(p) ==
  LET row == niches[proc[p].id] IN
  /\ At(p, "find niche")
  /\ proc' = IF row.alive /\ Sees(p, row) THEN Advance(p) ELSE Ended(p)
  /\ Going /\ UNCHANGED <<accounts, tenancy>>
\* BEGIN, and for a new niche the highest order.
BeginTransaction(p) ==
  /\ At(p, "begin") /\ proc' = Advance(p)
  /\ Going /\ UNCHANGED <<accounts, tenancy>>
OnDay(p) == {i \in DOMAIN niches : niches[i].alive /\ niches[i].day = proc[p].who}
MarkedDay(p, rows) ==
  /\ At(p, "mark day")
  /\ proc' = [proc EXCEPT ![p].todo = Tail(@), ![p].marks = rows]
  /\ Going /\ UNCHANGED <<accounts, tenancy>>
\* Mutant: the niche itself is looked for, not the others.
MarkDayOfItself(p) == MarkedDay(p, {i \in OnDay(p) : Sees(p, niches[i]) /\ i = proc[p].id})
\* Mutant: updateMany is missing from the scoped operations.
MarkDayAnywhere(p) == MarkedDay(p, {i \in OnDay(p) : i # proc[p].id})
MarkDay(p) == MarkedDay(p, {i \in OnDay(p) : Sees(p, niches[i]) /\ i # proc[p].id})
\* Mutant: the day is cleared outside the transaction.
ClearDayAtOnce(p) ==
  /\ At(p, "lock day") /\ ~Held(p, proc[p].marks)
  /\ niches' = [i \in DOMAIN niches |-> IF i \in proc[p].marks THEN [niches[i] EXCEPT !.day = 0] ELSE niches[i]]
  /\ proc' = [proc EXCEPT ![p].todo = Tail(@), ![p].marks = {}]
  /\ Going /\ UNCHANGED <<accounts, views, singles, config, daily, raced>>
\* Waits for the rows another transaction holds, then looks at their day again.
LockDay(p) ==
  /\ At(p, "lock day") /\ ~Held(p, proc[p].marks)
  /\ proc' = [proc EXCEPT ![p].todo = Tail(@), ![p].marks = {}, ![p].locks = @ \cup (proc[p].marks \cap OnDay(p))]
  /\ Going /\ UNCHANGED <<accounts, tenancy>>
WriteNiche(p) ==
  LET i == proc[p].id IN
  /\ At(p, "write") /\ ~Held(p, {i})
  /\ proc' = IF niches[i].alive THEN [proc EXCEPT ![p].todo = Tail(@), ![p].locks = @ \cup {i}]
             ELSE Thrown(p)
  /\ Going /\ UNCHANGED <<accounts, tenancy>>
\* The other transactions that have looked for the day and not yet ended.
Racing(p) == {q \in Others(p) : /\ Transaction(q) /\ ~Awaits(q, "begin") /\ ~Awaits(q, "mark day")
                                /\ proc[q].who = proc[p].who /\ proc[q].who # 0}
Commit(p) ==
  LET i == proc[p].id
      d == proc[p].who
      cleared == [j \in DOMAIN niches |->
        IF j = i THEN [niches[j] EXCEPT !.day = d]
        ELSE IF j \in proc[p].locks THEN [niches[j] EXCEPT !.day = 0] ELSE niches[j]] IN
  /\ At(p, "commit")
  /\ niches' = IF i = 0 THEN Append(cleared, [org |-> OrgOfNew(p), day |-> d, alive |-> TRUE]) ELSE cleared
  /\ raced' = raced + Cardinality(Racing(p))
  /\ proc' = Ended(p)
  /\ Going /\ UNCHANGED <<accounts, views, singles, config, daily>>
RemoveNiche(p) ==
  LET i == proc[p].id IN
  /\ At(p, "delete niche") /\ ~Held(p, {i})
  /\ IF niches[i].alive THEN niches' = [niches EXCEPT ![i].alive = FALSE] /\ proc' = Ended(p)
     ELSE proc' = Thrown(p) /\ UNCHANGED niches
  /\ Going /\ UNCHANGED <<accounts, views, singles, config, daily, raced>>
\* Two transactions that wait for each other: Postgres aborts one.
Deadlocked(p, q) == Wants(p) \cap proc[q].locks # {} /\ Wants(q) \cap proc[p].locks # {}
AbortOne(p) ==
  /\ \E q \in Others(p) : Deadlocked(p, q)
  /\ proc' = Thrown(p)
  /\ Going /\ UNCHANGED <<accounts, tenancy>>

(***************************************************************************)
(* Saved views: written by id, within the organisation.                    *)
(***************************************************************************)
CreateView(p) == Edit(p, "view", 0, 0, <<"create view">>)
ChangeView(p) == \E i \in DOMAIN views, step \in {"update view", "delete view"} : Edit(p, "view", i, 0, <<step>>)
WriteView(p) ==
  LET i == proc[p].id IN
  /\ \/ /\ At(p, "create view")
        /\ views' = Append(views, [org |-> OrgOfNew(p), alive |-> TRUE]) /\ proc' = Ended(p)
     \/ /\ At(p, "update view") \/ At(p, "delete view")
        /\ IF views[i].alive /\ Sees(p, views[i])
             THEN views' = [views EXCEPT ![i].alive = ~At(p, "delete view")] /\ proc' = Ended(p)
             ELSE proc' = Thrown(p) /\ UNCHANGED views
  /\ Going /\ UNCHANGED <<accounts, niches, singles, config, daily, raced>>

(***************************************************************************)
(* The offer and the ICP profile: found, then updated or created; the id   *)
(* of a new row is 1.                                                      *)
(***************************************************************************)
Finds(t) == IF t = "offer" THEN "find offer" ELSE "find icp"
Creates(t) == IF t = "offer" THEN "create offer" ELSE "create icp"
Updates(t) == IF t = "offer" THEN "update offer" ELSE "update icp"
Seeds(t) == IF t = "offer" THEN "seed offer" ELSE "seed icp"
SaveSingle(p) == \E step \in {"find offer", "find icp"} : Edit(p, "single", 0, 0, <<step>>)
Found(p, t) == {i \in DOMAIN singles[t] : Unscoped(p) \/ singles[t][i] = proc[p].org}
FindSingle(p) == \E t \in Tables :
  /\ At(p, Finds(t))
  /\ proc' = IF Found(p, t) = {} THEN Goes(p, <<Creates(t)>>) ELSE Goes(p, <<Updates(t)>>)
  /\ Going /\ UNCHANGED <<accounts, tenancy>>
UpdateSingle(p) == \E t \in Tables :
  /\ At(p, Updates(t))
  /\ proc' = Ended(p)
  /\ Going /\ UNCHANGED <<accounts, tenancy>>
\* Mutant: the ids of the table count up.
CreateSingleAgain(p) == \E t \in Tables :
  /\ At(p, Creates(t))
  /\ singles' = [singles EXCEPT ![t] = Append(@, OrgOfNew(p))] /\ proc' = Ended(p)
  /\ Going /\ UNCHANGED <<accounts, niches, views, config, daily, raced>>
CreateSingle(p) == \E t \in Tables :
  /\ At(p, Creates(t))
  /\ IF singles[t] # <<>> THEN proc' = Thrown(p) /\ UNCHANGED singles
     ELSE singles' = [singles EXCEPT ![t] = Append(@, OrgOfNew(p))] /\ proc' = Ended(p)
  /\ Going /\ UNCHANGED <<accounts, niches, views, config, daily, raced>>
\* The old server's start: the empty rows of the first organisation, if there is no row.
Boot(p) ==
  /\ Begin(p, "boot", [Idle EXCEPT !.op = "boot", !.todo = <<"seed offer", "seed icp">>])
  /\ UNCHANGED <<accounts, tenancy>>
Seed(p) == \E t \in Tables :
  /\ At(p, Seeds(t))
  /\ singles' = IF singles[t] = <<>> THEN [singles EXCEPT ![t] = <<1>>] ELSE singles
  /\ proc' = Advance(p)
  /\ Going /\ UNCHANGED <<accounts, niches, views, config, daily, raced>>

(***************************************************************************)
(* Configuration: the keys of a save are validated, then written one after *)
(* another, whoever's row a key is.  id 1 marks a save whose second value  *)
(* is not valid.                                                           *)
(***************************************************************************)
Puts(k) == IF k = "a" THEN "put a" ELSE "put b"
SaveConfig(p) == \E bad \in {0, 1} : Edit(p, "config", bad, 0, <<"validate", "put a", "put b">>)
\* Mutant: each value is validated when its turn comes.
ValidateInTurn(p) ==
  /\ At(p, "validate")
  /\ proc' = IF proc[p].id = 1 THEN Goes(p, <<"put a">>) ELSE Advance(p)
  /\ Going /\ UNCHANGED <<accounts, tenancy>>
Validate(p) ==
  /\ At(p, "validate")
  /\ proc' = IF proc[p].id = 1 THEN Ended(p) ELSE Advance(p)
  /\ Going /\ UNCHANGED <<accounts, tenancy>>
Put(p) == \E k \in Keys :
  /\ At(p, Puts(k))
  /\ config' = [row |-> [config.row EXCEPT ![k] =
                           [org |-> IF @.org = 0 THEN OrgOfNew(p) ELSE @.org, by |-> proc[p].no]],
                open |-> (config.open + (IF k = "a" THEN 1 ELSE 0)) - (IF Len(proc[p].todo) = 1 THEN 1 ELSE 0),
                mixed |-> config.mixed \/ (k = "a" /\ config.open > 0)]
  /\ proc' = Advance(p)
  /\ Going /\ UNCHANGED <<accounts, niches, views, singles, daily, raced>>

(***************************************************************************)
(* The day's counters: an engine makes sure of the row, then increments it *)
(* within its organisation; the scheduler of the old stack has none.       *)
(***************************************************************************)
CountMetric(p) == \E o \in 0..2 :
  /\ Begin(p, "metric", [Idle EXCEPT !.op = "metric", !.org = o, !.todo = <<"ensure", "bump">>])
  /\ UNCHANGED <<accounts, tenancy>>
Ensure(p) ==
  /\ At(p, "ensure")
  /\ daily' = IF daily.org # 0 THEN daily ELSE [daily EXCEPT !.org = IF proc[p].org = 0 THEN 1 ELSE proc[p].org]
  /\ proc' = Advance(p)
  /\ Going /\ UNCHANGED <<accounts, niches, views, singles, config, raced>>
Bumped(p, mine) ==
  LET o == proc[p].org IN
  /\ At(p, "bump")
  /\ IF mine THEN daily' = [daily EXCEPT !.count = @ + 1, !.own[o] = @ + 1] /\ proc' = Ended(p)
     ELSE proc' = Thrown(p) /\ UNCHANGED daily
  /\ Going /\ UNCHANGED <<accounts, niches, views, singles, config, raced>>
\* Mutant: update is not scoped.
BumpAny(p) == Bumped(p, TRUE)
Bump(p) == Bumped(p, proc[p].org \in {0, daily.org})

TenancyStep(p) ==
  \/ CreateNiche(p) \/ UpdateNiche(p) \/ DeleteNiche(p)
  \/ FindNiche(p) \/ BeginTransaction(p) \/ MarkDay(p) \/ LockDay(p) \/ WriteNiche(p) \/ Commit(p)
  \/ RemoveNiche(p) \/ AbortOne(p)
  \/ CreateView(p) \/ ChangeView(p) \/ WriteView(p)
  \/ SaveSingle(p) \/ FindSingle(p) \/ UpdateSingle(p) \/ CreateSingle(p) \/ Boot(p) \/ Seed(p)
  \/ SaveConfig(p) \/ Validate(p) \/ Put(p)
  \/ CountMetric(p) \/ Ensure(p) \/ Bump(p)

-----------------------------------------------------------------------------
\* An organisation has one niche a day, and one more for every time two transactions for
\* the same day overlapped.
OneNichePerDay == \A o \in DOMAIN orgs, d \in Days :
  Cardinality({i \in DOMAIN niches : niches[i].alive /\ niches[i].org = o /\ niches[i].day = d}) <= 1 + raced

\* A niche or a view changes by a request of its own organisation, of a super-admin, or
\* with the password's token, whose client filters nothing.
FromHome(row) == \E p \in Busy : proc'[p] # proc[p] /\ (Unscoped(p) \/ proc[p].org = row.org)
StaysHome == [][/\ \A i \in DOMAIN niches : niches'[i] # niches[i] => FromHome(niches[i])
                /\ \A i \in DOMAIN views : views'[i] # views[i] => FromHome(views[i])]_<<niches, views, proc>>

\* A niche loses its day to another one that has it from then on, or by its own update: a
\* transaction that is aborted or cut off takes nothing away.
DayHandedOver == [][\A i \in DOMAIN niches :
  niches[i].day # 0 /\ niches'[i].alive /\ niches'[i].day = 0 =>
    \/ \E p \in Busy : At(p, "commit") /\ proc[p].id = i
    \/ \E j \in DOMAIN niches' : niches'[j].alive /\ niches'[j].day = niches[i].day]_<<niches, proc>>

\* An organisation has one offer and one ICP profile, also when two first saves overlap.
OneOffer == \A t \in Tables, o \in DOMAIN orgs :
  Cardinality({i \in DOMAIN singles[t] : singles[t][i] = o}) <= 1

\* Values saved together stay together, but for saves that overlapped or were cut off.
SavedTogether == config.open = 0 /\ ~config.mixed => config.row["a"].by = config.row["b"].by

\* The day's counter counts what its organisation, and the old scheduler, counted: no
\* increment is lost, and none of another organisation is mixed in.
DayCounts == daily.count = daily.own[0] + (IF daily.org = 0 THEN 0 ELSE daily.own[daily.org])

\* The tables an organisation edits keep what its saves mean together, under overlapping
\* transactions, first saves, validated saves and counts.
TablesKept == OneNichePerDay /\ OneOffer /\ SavedTogether /\ DayCounts

\* No request scoped to an organisation changes another's niche or view, and no day gets
\* lost on the way.
NichesKept == StaysHome /\ DayHandedOver
=============================================================================
