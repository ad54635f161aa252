----------------------------- MODULE LeadsPage ------------------------------
(***************************************************************************)
(* The dashboard's page of leads, in one browser, and the routes of the    *)
(* old server it calls: the filter in its address, its pages of rows, the  *)
(* leads ticked, the panel of one lead with its note, a bulk rejection and *)
(* a bulk retry whose stream it counts.  A request is answered late, and   *)
(* with what the page was when it was asked.  Columns, facets and exports  *)
(* are left out, and so are the tokens of the requests but the retry's.    *)
(***************************************************************************)
EXTENDS EnginePage

CONSTANTS
  PageSize,     \* PAGE_SIZE
  PageFilters,  \* bound: the filters chosen on the page, by their place in Queries
  PageStages    \* bound: the stages retried from the page, by their place in Stages

VARIABLES
  desk,     \* what the page holds; ghosts loaded: the filter and page its rows are of,
            \* met: what was asked while another answer of its sort was to come
  noted,    \* the leads that have a note
  streams   \* the bulk retries asked for: [no, asked, on, read]

leadsPage == <<desk, noted, streams>>
lookOn == <<accounts, tenancy, lists, engines>>

NoRetry == [total |-> 0, done |-> 0]
DeskInit == \E f \in PageFilters :
  /\ f = Min(PageFilters)
  /\ desk = [filter |-> f, page |-> 1, shown |-> {1, 3}, notes |-> {}, total |-> 2, picked |-> {},
             lead |-> 0, note |-> 0, data |-> 0, retry |-> NoRetry, stands |-> TRUE,
             loaded |-> <<f, 1>>, met |-> {}]
  /\ noted = {} /\ streams = {}

Asked == <<desk.filter, desk.page>>
TotalPages == Max({1, (desk.total + PageSize - 1) \div PageSize})
Awaited(ops) == {q \in Busy : proc[q].op \in ops}
\* What becomes of the ghost when a request of a sort is made while others may be under way.
Meets(sort, others) == IF others THEN desk.met \cup {sort} ELSE desk.met \ {sort}
Browser(op, i, program) ==
  [Idle EXCEPT !.op = op, !.by = 1, !.org = 1, !.id = i, !.todo = program]

(***************************************************************************)
(* The rows.  id: the filter, who: the page.  A change of the filter leaves*)
(* the number of the page; nothing tells an old answer from a new one.     *)
(***************************************************************************)
RowsOf(asked) == [Browser("rows", asked[1], <<"serve rows", "rows">>) EXCEPT !.who = asked[2]]
FetchLeads(p, asked) == Begin(p, "leads page", RowsOf(asked))
ChooseFilter(p) == \E f \in PageFilters \ {desk.filter} :
  /\ desk.stands /\ FetchLeads(p, <<f, desk.page>>)
  /\ desk' = [desk EXCEPT !.filter = f, !.met = Meets("rows", Awaited({"rows"}) # {})]
  /\ UNCHANGED <<lookOn, book, noted, streams>>
TurnsTo(p, n) ==
  /\ desk.stands /\ TotalPages > 1
  /\ desk' = [desk EXCEPT !.page = n, !.met = Meets("rows", Awaited({"rows"}) # {})]
  /\ UNCHANGED <<lookOn, book, noted, streams>>
Turned == {n \in 1..desk.page + 1 : n + 1 = desk.page \/ (n = desk.page + 1 /\ desk.page < TotalPages)}
\* Mutant: the page is not among the dependencies of the query.
TurnOnly(p) == \E n \in Turned :
  TurnsTo(p, n) /\ UNCHANGED requests
TurnPage(p) == \E n \in Turned :
  TurnsTo(p, n) /\ FetchLeads(p, <<desk.filter, n>>)
\* A view's filters are merged as the characters of a text, which name no filter: page 1 is all it sets.
ApplyView(p) ==
  /\ desk.stands /\ FetchLeads(p, <<desk.filter, 1>>)
  /\ desk' = [desk EXCEPT !.page = 1, !.met = Meets("rows", Awaited({"rows"}) # {})]
  /\ UNCHANGED <<lookOn, book, noted, streams>>
\* The list of the old server, its awaits taken together; saw: the total, locks: the notes.
Slice(found, n) == {l \in found : Cardinality({k \in found : k < l}) \div PageSize = n - 1}
ServeRows(p) ==
  LET q == Query(p)
      found == {l \in Matching(p, ParseLeadFilter(q)) :
                 leads[l].signals >= q.signals /\ (q.tech => leads[l].tech)}
      rows == Slice(found, proc[p].who) IN
  /\ At(p, "serve rows")
  /\ proc' = [proc EXCEPT ![p].todo = Tail(@), ![p].marks = rows, ![p].locks = rows \cap noted,
                          ![p].saw = Cardinality(found)]
  /\ Going /\ UNCHANGED <<lookOn, book, leadsPage>>
Rows(p) ==
  /\ At(p, "rows")
  /\ desk' = [desk EXCEPT !.shown = proc[p].marks, !.notes = proc[p].locks, !.total = proc[p].saw,
                          !.loaded = <<proc[p].id, proc[p].who>>]
  /\ proc' = Ended(p)
  /\ Going /\ UNCHANGED <<lookOn, book, noted, streams>>
\* An answer is lost; the rows that are there stay, whatever they are of.
AnswerLost(p) ==
  /\ At(p, "rows") \/ At(p, "detail") \/ At(p, "note saved") \/ At(p, "rejected") \/ At(p, "confirm")
  /\ faults < MaxFaults /\ faults' = faults + 1
  /\ desk' = [desk EXCEPT !.data = IF At(p, "detail") THEN 0 ELSE @,
                          !.met = IF At(p, "rows") THEN @ \cup {"rows"} ELSE @]
  /\ streams' = {s \in streams : s.no # proc[p].no}
  /\ proc' = Ended(p)
  /\ UNCHANGED <<menu, calls, lookOn, book, noted>>

(***************************************************************************)
(* The panel of one lead.  Its first fields are those of the row, the rest *)
(* is asked for; a note is saved when its field is left.  A note is known  *)
(* by the lead it was written for.                                         *)
(***************************************************************************)
Opening(p, l, data) ==
  /\ desk.stands /\ desk.lead = 0
  /\ Begin(p, "leads page", Browser("detail", l, <<"serve detail", "detail">>))
  /\ desk' = [desk EXCEPT !.lead = l, !.note = IF l \in desk.notes THEN l ELSE 0, !.data = data,
                          !.met = Meets("detail", Awaited({"detail", "note"}) # {})]
  /\ UNCHANGED <<lookOn, book, noted, streams>>
\* Mutant: what was read of the lead before is not cleared.
OpenOver(p) == \E l \in desk.shown : Opening(p, l, desk.data)
OpenDetail(p) == \E l \in desk.shown : Opening(p, l, 0)
ServeDetail(p) ==
  /\ At(p, "serve detail") /\ proc' = Advance(p)
  /\ Going /\ UNCHANGED <<lookOn, book, leadsPage>>
Detail(p) ==
  /\ At(p, "detail")
  /\ desk' = [desk EXCEPT !.data = proc[p].id]
  /\ proc' = Ended(p)
  /\ Going /\ UNCHANGED <<lookOn, book, noted, streams>>
CloseDetail ==
  /\ desk.stands /\ desk.lead # 0
  /\ desk' = [desk EXCEPT !.lead = 0, !.data = 0, !.note = 0]
  /\ UNCHANGED <<requests, lookOn, book, noted, streams>>
HandleBlur(p) ==
  /\ desk.stands /\ desk.lead # 0 /\ desk.note # desk.lead
  /\ Begin(p, "leads page", Browser("note", desk.lead, <<"find lead", "patch", "note saved">>))
  /\ UNCHANGED <<lookOn, book, leadsPage>>
PatchLead(p) ==
  /\ At(p, "find lead") \/ At(p, "patch")
  /\ noted' = IF At(p, "patch") THEN noted \cup {proc[p].id} ELSE noted
  /\ proc' = Advance(p)
  /\ Going /\ UNCHANGED <<lookOn, book, desk, streams>>
\* Into the lead that is open by then.
OnSavedNote(p) ==
  /\ At(p, "note saved")
  /\ desk' = [desk EXCEPT !.note = IF desk.lead = 0 THEN @ ELSE proc[p].id]
  /\ proc' = Ended(p)
  /\ Going /\ UNCHANGED <<lookOn, book, noted, streams>>

(***************************************************************************)
(* Leads ticked, and what is done with them: also with those the page      *)
(* shows no more.  Ticking all compares numbers only.                      *)
(***************************************************************************)
Toggle == \E l \in desk.shown :
  /\ menu.kinds \cap {"bulk", "again"} # {} /\ desk.stands
  /\ desk' = [desk EXCEPT !.picked = IF l \in @ THEN @ \ {l} ELSE @ \cup {l}]
  /\ UNCHANGED <<requests, lookOn, book, noted, streams>>
ToggleAll ==
  LET all == Cardinality(desk.picked) = Cardinality(desk.shown) /\ desk.shown # {} IN
  /\ menu.kinds \cap {"bulk", "again"} # {} /\ desk.stands
  /\ desk' = [desk EXCEPT !.picked = IF all THEN {} ELSE desk.shown]
  /\ UNCHANGED <<requests, lookOn, book, noted, streams>>
\* The rows asked for afterwards are those of the page as it was (id, who).
BulkReject(p) ==
  /\ desk.stands /\ desk.picked # {}
  /\ Begin(p, "bulk", [Browser("bulk", desk.filter, <<"reject", "rejected", "serve rows", "rows">>)
                        EXCEPT !.who = desk.page, !.marks = desk.picked])
  /\ UNCHANGED <<lookOn, book, leadsPage>>
\* Lead by lead; one that bounced or replied, or has no address, is skipped.
BulkStatus(p) == \E l \in proc[p].marks, written \in BOOLEAN :
  /\ At(p, "reject")
  /\ leads' = [leads EXCEPT ![l].rejected = @ \/ written]
  /\ edits' = IF written THEN edits + 1 ELSE edits
  /\ proc' = [proc EXCEPT ![p].marks = @ \ {l}, ![p].todo = IF proc[p].marks = {l} THEN Tail(@) ELSE @]
  /\ Going /\ UNCHANGED <<lookOn, mails, sender, mailed, clashes, batches, leadsPage>>
Bulked(p) ==
  LET late == <<proc[p].id, proc[p].who>> # Asked IN
  /\ At(p, "rejected")
  /\ desk' = [desk EXCEPT !.picked = {}, !.met = Meets("rows", late \/ Awaited({"rows"}) # {})]
  /\ proc' = [proc EXCEPT ![p].op = "rows", ![p].todo = Tail(@)]
  /\ Going /\ UNCHANGED <<lookOn, book, noted, streams>>

(***************************************************************************)
(* A bulk retry: estimated, confirmed, then counted event by event; its    *)
(* end, however it came, unticks all and asks for the rows.                *)
(***************************************************************************)
RetryPicked(p) == \E i \in PageStages :
  /\ desk.stands /\ desk.picked # {}
  /\ Begin(p, "again", [Browser("dry", i, <<"dry run", "confirm">>) EXCEPT !.marks = desk.picked])
  /\ streams' = streams \cup {[no |-> calls + 1, asked |-> Asked, on |-> FALSE, read |-> 0]}
  /\ UNCHANGED <<lookOn, book, desk, noted>>
EstimateCost(p) ==
  /\ At(p, "dry run") /\ proc' = Advance(p)
  /\ Going /\ UNCHANGED <<lookOn, book, leadsPage>>
Streamed(p) == CHOOSE s \in streams : s.no = proc[p].no
Declined(p) ==
  /\ At(p, "confirm") /\ streams' = streams \ {Streamed(p)} /\ proc' = Ended(p)
  /\ Going /\ UNCHANGED <<lookOn, book, desk, noted>>
Confirms(p, retry) ==
  /\ At(p, "confirm") /\ desk.stands
  /\ desk' = [desk EXCEPT !.retry = retry,
                          !.met = IF \E s \in streams : s.on THEN @ \cup {"retry"} ELSE @]
  /\ streams' = (streams \ {Streamed(p)}) \cup {[Streamed(p) EXCEPT !.on = TRUE]}
  /\ proc' = [proc EXCEPT ![p].op = "legacy", ![p].todo = <<"token", "load">>]
  /\ Going /\ UNCHANGED <<lookOn, book, noted>>
\* Mutant: the progress is not set before the stream is read.
ConfirmOnly(p) == Confirms(p, desk.retry)
Confirmed(p) == Confirms(p, [total |-> Cardinality(proc[p].marks), done |-> 0])
ToldTo(s) == UNION {batches[b].told : b \in {k \in DOMAIN batches : batches[k].of = s.no}}
\* An event of a retry whose progress another's end has taken away: the page is gone.
OnEvent == \E s \in streams :
  /\ desk.stands /\ s.on /\ s.read < Cardinality(ToldTo(s))
  /\ streams' = (streams \ {s}) \cup {[s EXCEPT !.read = @ + 1]}
  /\ desk' = IF desk.retry = NoRetry THEN [desk EXCEPT !.stands = FALSE]
                                     ELSE [desk EXCEPT !.retry.done = @ + 1]
  /\ UNCHANGED <<requests, lookOn, book, noted>>
StreamEnds(p) == \E s \in streams :
  /\ desk.stands /\ s.on /\ s.read = Cardinality(ToldTo(s)) /\ \A q \in Busy : proc[q].no # s.no
  /\ p \notin Busy /\ \A q \in Handlers \ Busy : p <= q
  /\ proc' = [proc EXCEPT ![p] = RowsOf(s.asked)] /\ Going
  /\ desk' = [desk EXCEPT !.retry = NoRetry, !.picked = {},
                          !.met = Meets("rows", s.asked # Asked \/ Awaited({"rows"}) # {})]
  /\ streams' = streams \ {s}
  /\ UNCHANGED <<lookOn, book, noted>>

LeadsPageStep ==
  \/ \E p \in Handlers :
       \/ ChooseFilter(p) \/ TurnPage(p) \/ ApplyView(p) \/ ServeRows(p) \/ Rows(p) \/ AnswerLost(p)
       \/ OpenDetail(p) \/ ServeDetail(p) \/ Detail(p) \/ HandleBlur(p) \/ PatchLead(p) \/ OnSavedNote(p)
       \/ BulkReject(p) \/ BulkStatus(p) \/ Bulked(p)
       \/ RetryPicked(p) \/ EstimateCost(p) \/ Declined(p) \/ Confirmed(p) \/ StreamEnds(p)
  \/ CloseDetail \/ Toggle \/ ToggleAll \/ OnEvent

\* A step of the rest of the console: rows whose process it ends were asked for in vain.
Meanwhile ==
  /\ desk' = [desk EXCEPT !.met = IF Awaited({"rows"}) # {} /\ Awaited({"rows"})' = {} THEN @ \cup {"rows"} ELSE @]
  /\ UNCHANGED <<noted, streams>>

-----------------------------------------------------------------------------
\* Rows that have settled are those of the filter and the page shown, unless they were
\* asked for while others were to come, for a page left meanwhile, or in vain.
ShownAsAsked == Awaited({"rows"}) = {} /\ "rows" \notin desk.met => desk.loaded = Asked

\* The panel shows no data and no note of another lead, unless it was opened before the
\* answers for that one had come.
DetailFits == desk.lead # 0 /\ "detail" \notin desk.met =>
  desk.data \in {0, desk.lead} /\ desk.note \in {0, desk.lead}

\* The progress of a retry is the number of its events, never more than the leads ticked,
\* and the page survives them, unless two retries met.
RetryCounts == "retry" \notin desk.met =>
  /\ desk.stands
  /\ \A s \in streams : s.on => desk.retry.done = s.read /\ s.read <= desk.retry.total
=============================================================================
