------------------------------ MODULE LeadList ------------------------------
(***************************************************************************)
(* The dashboard's list of leads and the cards above it, of either server: *)
(* a filter becomes a where clause, sub-queries narrow it to ids, and the  *)
(* counts are queries of their own while stages rewrite the leads.  Plain  *)
(* equality filters, search, sorting and pages are left out, and so are    *)
(* the thresholds' changes.                                                *)
(***************************************************************************)
EXTENDS BulkRetry

CONSTANTS
  Queries,           \* bound: the filters asked for: [prio, min, max, mode, signals, tech]; 0 is no bound
  ThreshA, ThreshB   \* icp_threshold_a, icp_threshold_b

QueryRow ==
  [prio : SUBSET {"A", "B", "C"}, min : Nat, max : Nat, mode : {"all", "hide", "only"}, signals : Nat, tech : BOOLEAN]
ASSUME ListAssumption ==
  /\ Queries \in Seq(QueryRow) /\ \A m \in Menus : m.filters \subseteq DOMAIN Queries
  /\ Scores \subseteq Nat /\ ThreshA \in Nat /\ ThreshB \in Nat

VARIABLES
  tally,   \* what each request has counted and found
  answer   \* the last answer; since: the writes to leads before it was asked; ghost staff:
           \* an unscoped request's

lists == <<tally, answer>>

Cards == <<"total", "A", "B", "C">>
NoTally == [total |-> 0, A |-> 0, B |-> 0, C |-> 0, ids |-> {}]
ListInit ==
  /\ tally = [p \in Handlers |-> NoTally]
  /\ answer = [kind |-> "none", query |-> 1, org |-> 1, staff |-> FALSE, found |-> NoTally, since |-> 0]

(***************************************************************************)
(* parseLeadFilter.  A criterion on the score is a set of bounds, some of  *)
(* gte, lt and lte; without any it is no criterion, with one a lead        *)
(* without a score (null) fails it.                                        *)
(***************************************************************************)
NoBound == <<>>
PriorityToRange(p) ==
  CASE p = "A" -> [gte |-> ThreshA]
    [] p = "B" -> [gte |-> ThreshB, lt |-> ThreshA]
    [] p = "C" -> [lt |-> ThreshB]
Bounded(name, bound, range) ==
  IF bound = 0 THEN range ELSE [n \in DOMAIN range \cup {name} |-> IF n = name THEN bound ELSE range[n]]
\* Mutant: each of several priorities is assigned to the criterion, the last one stays.
ParseLastPriority(q) ==
  LET last == CHOOSE p \in q.prio : TRUE
      range == IF q.prio = {} THEN NoBound ELSE PriorityToRange(last) IN
  [score |-> Bounded("lte", q.max, Bounded("gte", q.min, range)), any |-> {}, mode |-> q.mode]
\* One priority is a range of its own; several are alternatives.
ParseLeadFilter(q) ==
  LET one == Cardinality(q.prio) = 1
      range == IF one THEN PriorityToRange(CHOOSE p \in q.prio : TRUE) ELSE NoBound IN
  [score |-> Bounded("lte", q.max, Bounded("gte", q.min, range)),
   any |-> IF one THEN {} ELSE {PriorityToRange(p) : p \in q.prio},
   mode |-> q.mode]
Within(range, score) ==
  range # NoBound => /\ score # 0
                     /\ \A name \in DOMAIN range :
                          CASE name = "gte" -> score >= range[name]
                            [] name = "lt" -> score < range[name]
                            [] name = "lte" -> score <= range[name]
Shown(mode, lead) == mode = "all" \/ (lead.rejected <=> mode = "only")
\* The leads a where clause selects for the organisation of request p.
Matching(p, where) == {l \in DOMAIN leads :
  /\ Sees(p, [org |-> 1])
  /\ Within(where.score, leads[l].score)
  /\ where.any # {} => \E range \in where.any : Within(range, leads[l].score)
  /\ Shown(where.mode, leads[l])}

Query(p) == Queries[proc[p].id]
AskFor(p, kind, i, ids, program) == \E s \in Tokens :
  LET request(op, first) == [Idle EXCEPT !.op = op, !.by = s, !.org = OrgOf(s), !.id = i,
                                         !.saw = edits, !.marks = ids, !.todo = first \o program] IN
  /\ \/ s # 0 /\ Begin(p, kind, request(kind, <<"enter", "context">>))
     \/ Begin(p, kind, request("legacy", <<"token">>))
  /\ tally' = [tally EXCEPT ![p] = NoTally]
  /\ UNCHANGED <<accounts, tenancy, book, answer>>

(***************************************************************************)
(* The list.  marks: the ids the sub-queries leave.  The total and the     *)
(* rows are asked together, and answered in any order.                     *)
(***************************************************************************)
ListLeads(p) == \E i \in menu.filters, both \in {<<"count rows", "find rows">>, <<"find rows", "count rows">>} :
  LET q == Queries[i] IN
  AskFor(p, "list", i, DOMAIN leads,
       (IF q.signals > 0 THEN <<"signals">> ELSE <<>>) \o (IF q.tech THEN <<"tech">> ELSE <<>>) \o both \o <<"answer list">>)
\* groupBy of the signals of each lead; the raw query of the JSON arrays, which only
\* looks at the organisation of the token, of an unscoped request too.
Narrow(p) ==
  LET left == IF At(p, "signals") THEN {l \in DOMAIN leads : leads[l].signals >= Query(p).signals /\ Sees(p, [org |-> 1])}
                                  ELSE {l \in DOMAIN leads : leads[l].tech /\ proc[p].org = 1} IN
  /\ At(p, "signals") \/ At(p, "tech")
  /\ proc' = [proc EXCEPT ![p].todo = Tail(@), ![p].marks = @ \cap left]
  /\ Going /\ UNCHANGED <<accounts, tenancy, book, lists>>
Selected(p) == Matching(p, ParseLeadFilter(Query(p))) \cap proc[p].marks
CountLeads(p) ==
  /\ At(p, "count rows")
  /\ tally' = [tally EXCEPT ![p].total = Cardinality(Selected(p))]
  /\ proc' = Advance(p)
  /\ Going /\ UNCHANGED <<accounts, tenancy, book, answer>>
FindRows(p) ==
  /\ At(p, "find rows")
  /\ tally' = [tally EXCEPT ![p].ids = Selected(p)]
  /\ proc' = Advance(p)
  /\ Going /\ UNCHANGED <<accounts, tenancy, book, answer>>

(***************************************************************************)
(* The cards.  marks: the counts still to come, in any order.  A card puts *)
(* its range in the place of the filter's own criterion on the score; the  *)
(* sub-queries are not made.                                               *)
(***************************************************************************)
LeadKpis(p) == \E i \in menu.filters : AskFor(p, "kpis", i, DOMAIN Cards, <<"cards", "answer kpis">>)
\* Mutant: lt threshA is missing.
CardWithoutTop(card, where) ==
  [where EXCEPT !.score = CASE card = "total" -> @ [] card = "B" -> [gte |-> ThreshB] [] OTHER -> PriorityToRange(card)]
Card(card, where) ==
  [where EXCEPT !.score = IF card = "total" THEN @ ELSE PriorityToRange(card)]
Summarize(p) == \E i \in proc[p].marks :
  LET card == Cards[i] IN
  /\ At(p, "cards")
  /\ tally' = [tally EXCEPT ![p][card] = Cardinality(Matching(p, Card(card, ParseLeadFilter(Query(p)))))]
  /\ proc' = [proc EXCEPT ![p].marks = @ \ {i}, ![p].todo = IF proc[p].marks = {i} THEN Tail(@) ELSE @]
  /\ Going /\ UNCHANGED <<accounts, tenancy, book, answer>>
Answers(kind) == IF kind = "list" THEN "answer list" ELSE "answer kpis"
Answer(p) == \E kind \in {"list", "kpis"} :
  /\ At(p, Answers(kind))
  /\ answer' = [kind |-> kind, query |-> proc[p].id, org |-> proc[p].org, staff |-> Unscoped(p),
                found |-> tally[p], since |-> proc[p].saw]
  /\ tally' = [tally EXCEPT ![p] = NoTally]
  /\ proc' = Ended(p)
  /\ Going /\ UNCHANGED <<accounts, tenancy, book>>

ListStep(p) ==
  \/ ListLeads(p) \/ Narrow(p) \/ CountLeads(p) \/ FindRows(p)
  \/ LeadKpis(p) \/ Summarize(p) \/ Answer(p)

-----------------------------------------------------------------------------
\* What a filter asks for, criterion by criterion.
Bucket(score) == IF score >= ThreshA THEN "A" ELSE IF score >= ThreshB THEN "B" ELSE "C"
Scored(q, l) == q.prio = {} \/ (leads[l].score # 0 /\ Bucket(leads[l].score) \in q.prio)
Between(q, l) == q.min # 0 \/ q.max # 0 =>
  leads[l].score # 0 /\ leads[l].score >= q.min /\ (q.max # 0 => leads[l].score <= q.max)
\* The leads are those of organisation 1; an unscoped request sees them too, the raw query
\* apart.
Visible(q) == answer.org = 1 \/ (answer.staff /\ ~q.tech)
Wanted(q) == {l \in DOMAIN leads :
  /\ Visible(q) /\ Shown(q.mode, leads[l]) /\ Scored(q, l) /\ Between(q, l)
  /\ leads[l].signals >= q.signals /\ (q.tech => leads[l].tech)}
\* A lower bound takes the place of the one a single priority has.
Widened(q) == Cardinality(q.prio) = 1 /\ q.min # 0

\* No lead was written since the answer was asked for.
Quiet == answer.since = edits

\* A list made while no lead was written misses no lead its filter asks for, has no other
\* but when a lower bound widens its priority, counts what it shows, and shows no
\* organisation the leads of another, but to an unscoped request: a super-admin's, or one with
\* the token of the old server's password.
ListExact == answer.kind = "list" /\ Quiet =>
  LET q == Queries[answer.query]
      wanted == Wanted(q) IN
  /\ wanted \subseteq answer.found.ids /\ (~Widened(q) => answer.found.ids = wanted)
  /\ answer.found.total = Cardinality(answer.found.ids)
  /\ answer.org # 1 /\ ~answer.staff => answer.found.ids = {}

\* The cards made while no lead was written divide the scored leads of the filter, its
\* bounds on the score and its sub-queries apart: each is on one card.
KpisFit == answer.kind = "kpis" /\ Quiet =>
  LET q == Queries[answer.query]
      wide == [q EXCEPT !.min = 0, !.max = 0, !.signals = 0, !.tech = FALSE, !.prio = IF Cardinality(@) = 1 THEN {} ELSE @] IN
  answer.found.A + answer.found.B + answer.found.C = Cardinality({l \in Wanted(wide) : leads[l].score # 0})

\* The list and the cards above it are what the filter asks for.
FilterKept == ListExact /\ KpisFit
=============================================================================
