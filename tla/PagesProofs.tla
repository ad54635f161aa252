----------------------------- MODULE PagesProofs -----------------------------
(***************************************************************************)
(* The page of leads and the list it asks for.  DeskSafe says of every     *)
(* request of the page what the page remembers of it, ListSafe of every    *)
(* request for the list which leads and counts it carries; both lean on    *)
(* what ConsoleProofs says of the awaits and the tables.                   *)
(***************************************************************************)
EXTENDS ConsoleProofs

-----------------------------------------------------------------------------
(* The page of leads shows what was answered to what it asked *)

DeskFields == {"filter", "page", "shown", "notes", "total", "picked", "lead", "note", "data", "retry", "stands", "loaded", "met"}
DeskOps == {"rows", "detail", "note", "bulk", "dry"}
(* The awaits of each of its requests.                                     *)
Suits(op, w) ==
  /\ op = "rows" => w \in {"serve rows", "rows"}
  /\ op = "detail" => w \in {"serve detail", "detail"}
  /\ op = "note" => w \in {"find lead", "patch", "note saved"}
  /\ op = "bulk" => w \in {"reject", "rejected", "serve rows", "rows"}
  /\ op = "dry" => w \in {"dry run", "confirm"}
DeskOK(q) ==
  /\ proc[q].op \in DeskOps /\ \A w \in Ahead(q) : Suits(proc[q].op, w)
  /\ "serve rows" \in Ahead(q) \/ "rejected" \in Ahead(q) => "rows" \in Ahead(q)
  /\ proc[q].op = "bulk" => "rejected" \in Ahead(q)
  /\ IsFiniteSet(proc[q].marks)
LEMMA DeskOpsAre == Serving("desk") = DeskOps /\ DeskOps \cap AccountOps = {}
  BY DEF Serving, DeskOps, AccountOps
LEMMA DeskOnly == \A k \in Kinds : \A op \in DeskOps : op \in Serving(k) => k = "desk"
<1>1. \A k \in Kinds : k \in {"niche", "config", "metric", "retry", "list", "engine", "desk", "other"}
  BY DEF Kinds
<1>2. \A op \in DeskOps : /\ op \notin Serving("niche") /\ op \notin Serving("config") /\ op \notin Serving("metric")
                          /\ op \notin Serving("retry") /\ op \notin Serving("list") /\ op \notin Serving("engine")
                          /\ op \notin Serving("other")
  BY DEF DeskOps, Serving
<1> QED BY <1>1, <1>2
LEMMA DeskBeside ==
  ASSUME ProcInv, FlowInv, Beside("desk"), NEW q \in Handlers, Has(proc'[q], "desk")
  PROVE  proc'[q] = proc[q] /\ Has(proc[q], "desk")
<1>1. Clanned(proc[q], "desk") /\ Has(proc[q], "desk") /\ (proc'[q] = proc[q] \/ LetIn(q))
  BY BesideSame, KindsAre DEF Beside
<1>2. ASSUME LetIn(q) PROVE FALSE
  <2>1. Head(proc[q].todo) \in Doors /\ Head(proc[q].todo) \in Kin("desk")
    BY <1>1, <1>2, WordsOf DEF LetIn, Clanned
  <2> QED BY <2>1, DoorKind, NoDoor, KindsAre DEF Kin
<1> QED BY <1>1, <1>2
LEMMA OpsDesk ==
  ASSUME ProcInv, FlowInv, NEW q \in Handlers, proc[q].todo # <<>>, proc[q].op \in DeskOps
  PROVE  Has(proc[q], "desk")
<1>1. Away(proc[q])
  BY DeskOpsAre DEF ProcInv, Inside
<1>2. PICK k \in Kinds : Clanned(proc[q], k)
  BY <1>1 DEF FlowInv
<1>3. k = "desk"
  BY <1>2, DeskOnly DEF Clanned
<1>4. Head(proc[q].todo) \in Words(proc[q].todo) /\ Head(proc[q].todo) \in Kin("desk")
  BY <1>2, <1>3, WordsOf DEF Clanned
<1> QED BY <1>4 DEF Kin, Has
LEMMA OpsDeskNext == ProcInv' /\ FlowInv' => \A q \in Handlers : proc'[q].todo # <<>> /\ proc'[q].op \in DeskOps => Has(proc'[q], "desk")
<1> DEFINE I == ProcInv /\ FlowInv => \A q \in Handlers : proc[q].todo # <<>> /\ proc[q].op \in DeskOps => Has(proc[q], "desk")
<1>1. I
  BY OpsDesk
<1>2. I'
  BY <1>1, PTL
<1> QED BY <1>2
(* What p does next goes with its request.                                 *)
LEMMA DeskOp ==
  ASSUME ProcInv, FlowInv, NEW p \in Handlers, NEW s \in DeskWords, At(p, s), DeskOK(p)
  PROVE  Suits(proc[p].op, s) /\ proc[p].op \in DeskOps /\ s \in Ahead(p) /\ Has(proc[p], "desk") /\ p \in Busy
<1>1. s \in Ahead(p) /\ Kind(s) = "desk"
  BY DeskAt
<1> QED BY <1>1, BusyIs DEF DeskOK, Has, Ahead
LEMMA DeskPass ==
  ASSUME NEW p \in Handlers, NEW s, DeskOK(p), s \notin {"rejected", "rows"}, Passes(p, s), proc'[p].op = proc[p].op, IsFiniteSet(proc'[p].marks)
  PROVE  DeskOK(p)'
<1>1. \A w \in Ahead(p)' : w \in Ahead(p)
  BY DEF Passes
<1>2. "rows" \in Ahead(p) => "rows" \in Ahead(p)'
  BY DEF Passes
<1>3. "rejected" \in Ahead(p) => "rejected" \in Ahead(p)'
  BY DEF Passes
<1> QED BY <1>1, <1>2, <1>3 DEF DeskOK
LEMMA DeskBegins ==
  ASSUME NEW p \in Handlers, NEW op \in DeskOps, NEW id, NEW who, NEW marks, NEW no, NEW ws, Asking(p, op, id, who, marks, no, ws),
         \A w \in ws : Suits(op, w), "serve rows" \in ws \/ "rejected" \in ws => "rows" \in ws, op = "bulk" => "rejected" \in ws,
         IsFiniteSet(marks)
  PROVE  DeskOK(p)'
<1>1. proc'[p].op = op /\ proc'[p].marks = marks /\ Ahead(p)' = ws
  BY DEF Asking
<1>2. \A w \in Ahead(p)' : Suits(proc'[p].op, w)
  BY <1>1
<1>3. IsFiniteSet(proc'[p].marks) /\ proc'[p].op \in DeskOps
  BY <1>1
<1>4. ("serve rows" \in Ahead(p)' \/ "rejected" \in Ahead(p)' => "rows" \in Ahead(p)') /\ (proc'[p].op = "bulk" => "rejected" \in Ahead(p)')
  BY <1>1
<1> QED BY <1>2, <1>3, <1>4, Zenon DEF DeskOK
(* What a step of another part does to the page: it may end requests of it. *)
Neighbourly == Beside("desk") /\ UNCHANGED <<noted, streams>> /\ (Meanwhile \/ (proc' = proc /\ desk' = desk))
LEMMA DeskDeed ==
  ASSUME FlowInv, NEW p \in Handlers, NEW k \in Kinds \ {"desk"}, Deed(p, k)
  PROVE  Beside("desk")
<1>1. "desk" \in Kinds \ {k}
  BY KindsAre
<1> QED BY <1>1, DeedFlow
LEMMA DeskRest ==
  ASSUME Core, Steady, [Next]_vars
  PROVE  LeadsPageStep \/ Neighbourly
<1>1. ProcInv /\ FlowInv /\ NicheSafe /\ BookSafe /\ PageSafe
  BY DEF Core, Steady
<1>2. LeadsPageStep \/ Meanwhile \/ UNCHANGED vars
  BY DEF Next, Admitted, Request, World
<1>3. UNCHANGED vars => proc' = proc /\ UNCHANGED <<desk, noted, streams>>
  BY DEF vars, requests, leadsPage
<1>4. Meanwhile => UNCHANGED <<noted, streams>>
  BY DEF Meanwhile
<1>5. LeadsPageStep \/ Beside("desk")
  <2>1. ASSUME Elsewhere PROVE Beside("desk")
    BY <2>1, KindsAre DEF Elsewhere
  <2>2. ASSUME NEW p \in Handlers, TenancyStep(p) PROVE Beside("desk")
    <3>1. NicheWork(p) \/ OtherWork(p) \/ ConfigWork(p) \/ MetricWork(p)
      BY <2>2, TenancyWork
    <3>2. Deed(p, "niche") \/ Deed(p, "other") \/ Deed(p, "config") \/ Deed(p, "metric")
      BY <1>1, <3>1, NicheWorks, OtherDeed, ConfigDeed, MetricDeed
    <3> QED BY <1>1, <3>2, DeskDeed, KindsAre, NicheIs
  <2>3. ASSUME NEW p \in Handlers, ListStep(p) PROVE Beside("desk")
    <3>1. Deed(p, "list")
      BY <1>1, <2>3, ListWorks
    <3> QED BY <1>1, <3>1, DeskDeed, KindsAre
  <2>4. ASSUME BookStep PROVE Beside("desk")
    <3>1. (\E p \in Handlers : Deed(p, "retry")) \/ proc' = proc
      BY <1>1, <2>4, BookWorks
    <3> QED BY <1>1, <3>1, DeskDeed, SameFlow, KindsAre
  <2>5. ASSUME PageStep PROVE Beside("desk")
    <3>1. (\E p \in Handlers : Deed(p, "engine")) \/ proc' = proc
      BY <1>1, <2>5, PageWorks
    <3> QED BY <1>1, <3>1, DeskDeed, SameFlow, KindsAre
  <2> QED BY <1>1, <2>1, <2>2, <2>3, <2>4, <2>5, Division
<1> QED BY <1>2, <1>3, <1>4, <1>5 DEF Neighbourly

(* Leads are written by a batch and by a bulk rejection, and by nobody else. *)
LEMMA LeadsWritten ==
  ASSUME Core, Steady, [Next]_vars
  PROVE  UNCHANGED <<leads, edits>> \/ \E p \in Handlers : WriteLead(p) \/ BulkStatus(p)
<1>1. ProcInv /\ FlowInv /\ NicheSafe /\ BookSafe /\ PageSafe
  BY DEF Core, Steady
<1>2. UNCHANGED book => UNCHANGED <<leads, edits>>
  BY DEF book
<1>3. ASSUME BookStep PROVE UNCHANGED <<leads, edits>> \/ \E p \in Handlers : WriteLead(p)
  <2>1. ASSUME NEW p \in Handlers, Retry(p) \/ Load(p) \/ NextLead(p) \/ FindMail(p) \/ CallModel(p) \/ Rewrite(p) \/ Close(p)
        PROVE  UNCHANGED <<leads, edits>>
    BY <2>1 DEF Retry, Load, NextLead, NextOf, FindMail, MailFor, CallModel, Rewrite, Close, book
  <2>2. ASSUME LoadQueue \/ SendMail \/ MarkSent PROVE UNCHANGED <<leads, edits>>
    BY <2>2 DEF LoadQueue, SendMail, MarkSent, book
  <2> QED BY SMTT(30), <1>3, <2>1, <2>2 DEF BookStep
<1>4. ASSUME LeadsPageStep PROVE UNCHANGED book \/ \E p \in Handlers : BulkStatus(p)
  <2>1. ASSUME NEW p \in Handlers,
               \/ ChooseFilter(p) \/ TurnPage(p) \/ ApplyView(p) \/ ServeRows(p) \/ Rows(p) \/ AnswerLost(p)
               \/ OpenDetail(p) \/ ServeDetail(p) \/ Detail(p) \/ HandleBlur(p) \/ PatchLead(p) \/ OnSavedNote(p)
        PROVE  UNCHANGED book
    BY <2>1 DEF ChooseFilter, TurnPage, TurnsTo, ApplyView, ServeRows, Rows, AnswerLost, OpenDetail, Opening, ServeDetail,
         Detail, HandleBlur, PatchLead, OnSavedNote
  <2>2. ASSUME NEW p \in Handlers,
               \/ BulkReject(p) \/ Bulked(p) \/ RetryPicked(p) \/ EstimateCost(p) \/ Declined(p) \/ Confirmed(p) \/ StreamEnds(p)
        PROVE  UNCHANGED book
    BY <2>2 DEF BulkReject, Bulked, RetryPicked, EstimateCost, Declined, Confirmed, Confirms, StreamEnds
  <2>3. ASSUME CloseDetail \/ Toggle \/ ToggleAll \/ OnEvent PROVE UNCHANGED book
    BY <2>3 DEF CloseDetail, Toggle, ToggleAll, OnEvent
  <2> QED BY SMTT(30), <1>4, <2>1, <2>2, <2>3 DEF LeadsPageStep
<1>5. ASSUME NEW p \in Handlers, ListStep(p) PROVE UNCHANGED book
  BY <1>1, <1>5, ListWorks
<1>6. ASSUME PageStep PROVE UNCHANGED book
  BY <1>1, <1>6, PageWorks
<1> QED BY <1>1, <1>2, <1>3, <1>4, <1>5, <1>6, Division DEF Elsewhere
LEMMA LeadsStay ==
  ASSUME Core, Steady, [Next]_vars
  PROVE  DOMAIN leads' = DOMAIN leads
<1>1. ASSUME NEW p \in Handlers, WriteLead(p) \/ BulkStatus(p) PROVE DOMAIN leads' = DOMAIN leads
  BY <1>1 DEF WriteLead, BulkStatus
<1> QED BY <1>1, LeadsWritten

(* Whoever has a request of the page open.                                 *)
Open(q, ops) == proc[q].todo # <<>> /\ proc[q].op \in ops
LEMMA AwaitedIs == \A ops : Awaited(ops) = {q \in Handlers : Open(q, ops)}
  BY DEF Awaited, Busy, Open
LEMMA AwaitedNext == \A ops : Awaited(ops)' = {q \in Handlers : Open(q, ops)'}
  BY DEF Awaited, Busy, Open
(* What a step of the page does to the page: it sets some fields.          *)
Sets(fs) == DOMAIN desk' = DeskFields /\ \A f \in DeskFields \ fs : desk'[f] = desk[f]
(* And to the requests: one is new, ends, or goes on as it was.            *)
Fresh(p, op, id, who) == Only(p) /\ p \notin Busy /\ proc'[p].todo # <<>> /\ proc'[p].op = op /\ proc'[p].id = id /\ proc'[p].who = who
Leaves(p) == Only(p) /\ p \in Busy /\ proc'[p] = Idle
Lasts(p) ==
  /\ Only(p) /\ p \in Busy /\ proc'[p].op = proc[p].op /\ proc'[p].id = proc[p].id /\ proc'[p].who = proc[p].who
  /\ proc'[p].no = proc[p].no
LEMMA AskedFresh ==
  ASSUME NEW p, NEW op, NEW id, NEW who, NEW marks, NEW no, NEW ws, Asking(p, op, id, who, marks, no, ws), ws # {}, p \notin Busy
  PROVE  Fresh(p, op, id, who) /\ proc'[p].no = no
<1>1. proc'[p].todo # <<>>
  BY OrderedShort DEF Asking, Ahead
<1> QED BY <1>1 DEF Asking, Fresh
AskedRows(p) == \E f, n :
  /\ Fresh(p, "rows", f, n) /\ Sets({"filter", "page", "met"}) /\ desk'.filter = f /\ desk'.page = n
  /\ desk'.met = Meets("rows", Awaited({"rows"}) # {}) /\ UNCHANGED <<noted, streams>>
  /\ proc'[p].no = calls + 1 /\ calls' = calls + 1
LEMMA AskedRowsDone ==
  ASSUME ProcInv, DOMAIN desk = DeskFields, NEW p \in Handlers, ChooseFilter(p) \/ TurnPage(p) \/ ApplyView(p)
  PROVE  AskedRows(p)
<1> DEFINE m == Meets("rows", Awaited({"rows"}) # {})
<1>1. PICK f, n : /\ FetchLeads(p, <<f, n>>) /\ UNCHANGED <<noted, streams>>
                  /\ \/ desk' = [desk EXCEPT !.filter = f, !.met = m] /\ n = desk.page
                     \/ desk' = [desk EXCEPT !.page = n, !.met = m] /\ f = desk.filter
  <2>1. CASE ChooseFilter(p)
    BY <2>1 DEF ChooseFilter
  <2>2. CASE TurnPage(p)
    BY <2>2 DEF TurnPage, TurnsTo
  <2>3. CASE ApplyView(p)
    BY <2>3 DEF ApplyView
  <2> QED BY <2>1, <2>2, <2>3
<1> HIDE DEF m
<1>2. Asking(p, "rows", f, n, {}, calls + 1, RowsWords) /\ p \notin Busy /\ calls' = calls + 1
  <2>1. \A asked : FetchLeads(p, asked) => Asking(p, "rows", asked[1], asked[2], {}, calls + 1, RowsWords)
    BY FetchLeadsMove
  <2>2. <<f, n>>[1] = f /\ <<f, n>>[2] = n
    OBVIOUS
  <2>3. \A asked : FetchLeads(p, asked) => p \notin Busy /\ calls' = calls + 1
    BY DEF FetchLeads, Begin
  <2> QED BY <1>1, <2>1, <2>2, <2>3, Zenon
<1>3. Fresh(p, "rows", f, n) /\ proc'[p].no = calls + 1
  BY <1>2, AskedFresh DEF RowsWords
<1>4. Sets({"filter", "page", "met"}) /\ desk'.filter = f /\ desk'.page = n /\ desk'.met = m
  BY <1>1 DEF Sets, DeskFields
<1> QED BY <1>1, <1>2, <1>3, <1>4 DEF AskedRows, m
LEMMA AfterRows == ~Comes("rows", "rejected") /\ ~Comes("serve rows", "rejected") /\ "rows" # "rejected" /\ "serve rows" # "rejected"
  BY DEF Comes
LEMMA AheadOf ==
  ASSUME ProcInv, FlowInv, NEW p \in Handlers, NEW s \in DeskWords, At(p, s), NEW w \in Ahead(p), w # s
  PROVE  Comes(s, w)
<1>1. Clanned(proc[p], "desk") /\ proc[p].todo # <<>> /\ Head(proc[p].todo) = s
  BY DeskKin, KindsAre, AtKind
<1>2. /\ Words(proc[p].todo) = {s} \cup Words(Tail(proc[p].todo))
      /\ \A v \in Words(Tail(proc[p].todo)) : Comes(s, v)
  BY <1>1, OrderedTail DEF Clanned
<1> QED BY <1>2 DEF Ahead
LEMMA AtOps ==
  ASSUME ProcInv, FlowInv, NEW p \in Handlers, DeskOK(p)
  PROVE  /\ At(p, "serve rows") \/ At(p, "rows") => proc[p].op = "rows"
         /\ At(p, "serve detail") \/ At(p, "detail") => proc[p].op = "detail"
         /\ At(p, "find lead") \/ At(p, "patch") \/ At(p, "note saved") => proc[p].op = "note"
         /\ At(p, "reject") \/ At(p, "rejected") => proc[p].op = "bulk"
         /\ At(p, "dry run") \/ At(p, "confirm") => proc[p].op = "dry"
<1>1. ASSUME NEW s \in DeskWords, At(p, s) PROVE Suits(proc[p].op, s) /\ proc[p].op \in {"rows", "detail", "note", "bulk", "dry"}
  BY <1>1, DeskOp DEF DeskOps
<1>2. ASSUME NEW s \in {"rows", "serve rows"}, At(p, s) PROVE proc[p].op # "bulk"
  <2>1. s \in DeskWords /\ ~Comes(s, "rejected") /\ s # "rejected"
    BY <1>2, DeskIn, AfterRows
  <2>2. "rejected" \notin Ahead(p)
    BY <1>2, <2>1, AheadOf
  <2> QED BY <2>2 DEF DeskOK
<1>3. \A s \in {"rows", "serve rows"}, op \in {"rows", "detail", "note", "bulk", "dry"} : Suits(op, s) /\ op # "bulk" => op = "rows"
  BY DEF Suits
<1>4. \A s \in {"serve detail", "detail"}, op \in {"rows", "detail", "note", "bulk", "dry"} : Suits(op, s) => op = "detail"
  BY DEF Suits
<1>5. \A s \in {"find lead", "patch", "note saved"}, op \in {"rows", "detail", "note", "bulk", "dry"} : Suits(op, s) => op = "note"
  BY DEF Suits
<1>6. \A s \in {"reject", "rejected"}, op \in {"rows", "detail", "note", "bulk", "dry"} : Suits(op, s) => op = "bulk"
  BY DEF Suits
<1>7. \A s \in {"dry run", "confirm"}, op \in {"rows", "detail", "note", "bulk", "dry"} : Suits(op, s) => op = "dry"
  BY DEF Suits
<1> QED BY <1>1, <1>2, <1>3, <1>4, <1>5, <1>6, <1>7, DeskIn, ZenonT(60)

StreamEnded(p) == \E s \in streams :
  /\ s.on /\ s.read = Cardinality(ToldTo(s)) /\ desk.stands /\ streams' = streams \ {s} /\ noted' = noted /\ calls' = calls
  /\ Fresh(p, "rows", s.asked[1], s.asked[2]) /\ Sets({"retry", "picked", "met"}) /\ desk'.retry = NoRetry /\ desk'.picked = {}
  /\ desk'.met = Meets("rows", s.asked # Asked \/ Awaited({"rows"}) # {}) /\ proc'[p].no = 0
LEMMA StreamEndedDone ==
  ASSUME ProcInv, DOMAIN desk = DeskFields, NEW p \in Handlers, StreamEnds(p)
  PROVE  StreamEnded(p)
<1>1. PICK s \in streams :
        /\ s.on /\ s.read = Cardinality(ToldTo(s)) /\ desk.stands /\ streams' = streams \ {s} /\ noted' = noted /\ calls' = calls
        /\ p \notin Busy /\ proc' = [proc EXCEPT ![p] = RowsOf(s.asked)]
        /\ desk' = [desk EXCEPT !.retry = NoRetry, !.picked = {}, !.met = Meets("rows", s.asked # Asked \/ Awaited({"rows"}) # {})]
  BY DEF StreamEnds, Going
<1>2. Asking(p, "rows", s.asked[1], s.asked[2], {}, 0, RowsWords)
  BY <1>1, StreamEndsMove
<1>3. Fresh(p, "rows", s.asked[1], s.asked[2]) /\ proc'[p].no = 0
  BY <1>1, <1>2, AskedFresh DEF RowsWords, Asking
<1>4. /\ Sets({"retry", "picked", "met"}) /\ desk'.retry = NoRetry /\ desk'.picked = {}
      /\ desk'.met = Meets("rows", s.asked # Asked \/ Awaited({"rows"}) # {})
  <2> DEFINE m == Meets("rows", s.asked # Asked \/ Awaited({"rows"}) # {})
             n == NoRetry
  <2>1. desk' = [desk EXCEPT !.retry = n, !.picked = {}, !.met = m]
    BY <1>1
  <2> HIDE DEF m, n
  <2>2. Sets({"retry", "picked", "met"}) /\ desk'.retry = n /\ desk'.picked = {} /\ desk'.met = m
    BY <2>1 DEF Sets, DeskFields
  <2> QED BY <2>2 DEF m, n
<1> QED BY <1>1, <1>3, <1>4 DEF StreamEnded
Opened(p) == \E l \in desk.shown :
  /\ desk.lead = 0 /\ Fresh(p, "detail", l, 0) /\ Sets({"lead", "note", "data", "met"})
  /\ desk'.lead = l /\ desk'.note \in {0, l} /\ desk'.data = 0 /\ desk'.met = Meets("detail", Awaited({"detail", "note"}) # {})
  /\ UNCHANGED <<noted, streams>> /\ proc'[p].no = calls + 1 /\ calls' = calls + 1
LEMMA OpenedDone ==
  ASSUME ProcInv, DOMAIN desk = DeskFields, NEW p \in Handlers, OpenDetail(p)
  PROVE  Opened(p)
<1>1. PICK l \in desk.shown : Opening(p, l, 0) /\ Asking(p, "detail", l, 0, {}, calls + 1, {"serve detail", "detail"})
  BY DetailMove
<1> DEFINE m == Meets("detail", Awaited({"detail", "note"}) # {})
           n == IF l \in desk.notes THEN l ELSE 0
<1>2. /\ desk.lead = 0 /\ p \notin Busy /\ calls' = calls + 1 /\ UNCHANGED <<noted, streams>>
      /\ desk' = [desk EXCEPT !.lead = l, !.note = n, !.data = 0, !.met = m]
  BY <1>1 DEF Opening, Begin
<1>3. n \in {0, l}
  OBVIOUS
<1>4. Fresh(p, "detail", l, 0) /\ proc'[p].no = calls + 1
  BY <1>1, <1>2, AskedFresh
<1> HIDE DEF m, n
<1>5. Sets({"lead", "note", "data", "met"}) /\ desk'.lead = l /\ desk'.note = n /\ desk'.data = 0 /\ desk'.met = m
  BY <1>2 DEF Sets, DeskFields
<1> QED BY <1>2, <1>3, <1>4, <1>5 DEF Opened, m
Noting(p) == Fresh(p, "note", desk.lead, 0) /\ UNCHANGED leadsPage /\ proc'[p].no = calls + 1 /\ calls' = calls + 1
Rejecting(p) == Fresh(p, "bulk", desk.filter, desk.page) /\ UNCHANGED leadsPage /\ proc'[p].no = calls + 1 /\ calls' = calls + 1
Picking(p) ==
  /\ Only(p) /\ p \notin Busy /\ proc'[p].todo # <<>> /\ proc'[p].op = "dry" /\ proc'[p].no = calls + 1 /\ proc'[p].marks = desk.picked
  /\ UNCHANGED <<desk, noted>> /\ calls' = calls + 1 /\ desk.picked # {}
  /\ streams' = streams \cup {[no |-> calls + 1, asked |-> Asked, on |-> FALSE, read |-> 0]}
LEMMA BeginsDone ==
  ASSUME ProcInv, NEW p \in Handlers
  PROVE  /\ HandleBlur(p) => Noting(p)
         /\ BulkReject(p) => Rejecting(p)
         /\ RetryPicked(p) => Picking(p)
<1>1. ASSUME HandleBlur(p) PROVE Noting(p)
  <2>1. Asking(p, "note", desk.lead, 0, {}, calls + 1, {"find lead", "patch", "note saved"})
    BY <1>1, BlurMove
  <2>2. p \notin Busy /\ calls' = calls + 1 /\ UNCHANGED leadsPage
    BY <1>1 DEF HandleBlur, Begin
  <2> DEFINE ws == {"find lead", "patch", "note saved"}
             no == calls + 1
  <2>3. Asking(p, "note", desk.lead, 0, {}, no, ws) /\ ws # {}
    BY <2>1
  <2> HIDE DEF ws, no
  <2>4. Fresh(p, "note", desk.lead, 0) /\ proc'[p].no = no
    BY <2>2, <2>3, AskedFresh
  <2> QED BY <2>2, <2>4 DEF Noting, no
<1>2. ASSUME BulkReject(p) PROVE Rejecting(p)
  <2>1. Asking(p, "bulk", desk.filter, desk.page, desk.picked, calls + 1, {"reject", "rejected", "serve rows", "rows"})
    BY <1>2, RejectMove
  <2>2. p \notin Busy /\ calls' = calls + 1 /\ UNCHANGED leadsPage
    BY <1>2 DEF BulkReject, Begin
  <2> DEFINE ws == {"reject", "rejected", "serve rows", "rows"}
             no == calls + 1
  <2>3. Asking(p, "bulk", desk.filter, desk.page, desk.picked, no, ws) /\ ws # {}
    BY <2>1
  <2> HIDE DEF ws, no
  <2>4. Fresh(p, "bulk", desk.filter, desk.page) /\ proc'[p].no = no
    BY <2>2, <2>3, AskedFresh
  <2> QED BY <2>2, <2>4 DEF Rejecting, no
<1>3. ASSUME RetryPicked(p) PROVE Picking(p)
  <2>1. PICK i \in PageStages : Asking(p, "dry", i, 0, desk.picked, calls + 1, {"dry run", "confirm"})
    BY <1>3, PickedMove
  <2>2. /\ p \notin Busy /\ calls' = calls + 1 /\ UNCHANGED <<desk, noted>> /\ desk.picked # {}
        /\ streams' = streams \cup {[no |-> calls + 1, asked |-> Asked, on |-> FALSE, read |-> 0]}
    BY <1>3 DEF RetryPicked, Begin
  <2>3. Fresh(p, "dry", i, 0) /\ proc'[p].no = calls + 1 /\ proc'[p].marks = desk.picked
    BY <2>1, <2>2, AskedFresh DEF Asking
  <2> QED BY <2>2, <2>3 DEF Picking, Fresh
<1> QED BY <1>1, <1>2, <1>3

Working(p) ==
  /\ Lasts(p) \/ Leaves(p)
  /\ proc[p].op = "rows" => Lasts(p) /\ proc'[p].todo # <<>>
  /\ proc[p].op = "dry" /\ Lasts(p) => proc'[p].marks = proc[p].marks
  /\ UNCHANGED <<desk, streams>> /\ calls' = calls /\ Has(proc[p], "desk")
Landed(p) ==
  /\ Leaves(p) /\ proc[p].op = "rows" /\ UNCHANGED <<noted, streams>> /\ calls' = calls
  /\ Sets({"shown", "notes", "total", "loaded"}) /\ desk'.loaded = <<proc[p].id, proc[p].who>> /\ desk'.shown = proc[p].marks
Lost(p) ==
  /\ Leaves(p) /\ calls' = calls /\ Has(proc[p], "desk")
  /\ Sets({"data", "met"}) /\ desk'.data \in {0, desk.data}
  /\ desk'.met = desk.met \/ desk'.met = desk.met \cup {"rows"}
  /\ proc[p].op = "rows" => "rows" \in desk'.met
  /\ streams' = {s \in streams : s.no # proc[p].no}
Detailed(p) ==
  /\ Leaves(p) /\ proc[p].op = "detail" /\ UNCHANGED <<noted, streams>> /\ calls' = calls
  /\ Sets({"data"}) /\ desk'.data = proc[p].id
NoteSaved(p) ==
  /\ Leaves(p) /\ proc[p].op = "note" /\ UNCHANGED <<noted, streams>> /\ calls' = calls
  /\ Sets({"note"}) /\ desk'.note = IF desk.lead = 0 THEN desk.note ELSE proc[p].id
RowsAgain(p) ==
  /\ Only(p) /\ p \in Busy /\ proc[p].op = "bulk" /\ proc'[p].op = "rows" /\ proc'[p].todo # <<>>
  /\ proc'[p].id = proc[p].id /\ proc'[p].who = proc[p].who /\ proc'[p].no = proc[p].no /\ Has(proc[p], "desk")
  /\ UNCHANGED <<noted, streams>> /\ calls' = calls /\ Sets({"picked", "met"}) /\ desk'.picked = {}
  /\ desk'.met = Meets("rows", <<proc[p].id, proc[p].who>> # Asked \/ Awaited({"rows"}) # {})
Refusing(p) ==
  /\ Leaves(p) /\ proc[p].op = "dry" /\ UNCHANGED <<desk, noted>> /\ calls' = calls /\ Has(proc[p], "desk")
  /\ streams' = streams \ {Streamed(p)}
Streaming(p) ==
  /\ Only(p) /\ p \in Busy /\ proc[p].op = "dry" /\ proc'[p].op = "legacy" /\ Has(proc[p], "desk")
  /\ proc'[p].no = proc[p].no /\ proc'[p].marks = proc[p].marks /\ Ahead(p)' = {"token", "load"}
  /\ UNCHANGED noted /\ calls' = calls /\ desk.stands
  /\ Sets({"retry", "met"}) /\ desk'.retry = [total |-> Cardinality(proc[p].marks), done |-> 0]
  /\ desk'.met = IF \E s \in streams : s.on THEN desk.met \cup {"retry"} ELSE desk.met
  /\ streams' = (streams \ {Streamed(p)}) \cup {[Streamed(p) EXCEPT !.on = TRUE]}
Shutting == proc' = proc /\ UNCHANGED <<noted, streams, calls>> /\ Sets({"lead", "data", "note"}) /\ desk'.lead = 0
Ticking == proc' = proc /\ UNCHANGED <<noted, streams, calls>> /\ Sets({"picked"})
Telling == \E s \in streams :
  /\ proc' = proc /\ UNCHANGED <<noted, calls>> /\ desk.stands /\ s.on /\ s.read < Cardinality(ToldTo(s))
  /\ streams' = (streams \ {s}) \cup {[s EXCEPT !.read = @ + 1]}
  /\ IF desk.retry = NoRetry THEN Sets({"stands"})
     ELSE Sets({"retry"}) /\ desk'.retry = [desk.retry EXCEPT !.done = @ + 1]
LEMMA AlterLasts ==
  ASSUME NEW p \in Handlers, NEW fs, Alters(p, fs), fs \cap {"op", "id", "who", "no"} = {}, p \in Busy
  PROVE  Lasts(p)
<1>1. Only(p) /\ \A f \in Fields \ fs : proc'[p][f] = proc[p][f]
  BY DEF Alters
<1>2. "op" \in Fields \ fs /\ "id" \in Fields \ fs /\ "who" \in Fields \ fs /\ "no" \in Fields \ fs
  BY DEF Fields
<1> QED BY <1>1, <1>2 DEF Lasts
LEMMA WorkingDone ==
  ASSUME ProcInv, FlowInv, NEW p \in Handlers, DeskOK(p),
         ServeRows(p) \/ BulkStatus(p) \/ ServeDetail(p) \/ PatchLead(p) \/ EstimateCost(p)
  PROVE  Working(p)
<1>1. UNCHANGED <<desk, streams>> /\ calls' = calls
  BY DEF ServeRows, BulkStatus, ServeDetail, PatchLead, EstimateCost, leadsPage, Going
<1>2. \E s \in DeskWords : At(p, s)
  BY DeskIn, ZenonT(40) DEF ServeRows, BulkStatus, ServeDetail, PatchLead, EstimateCost
<1>3. p \in Busy /\ Has(proc[p], "desk")
  BY <1>2, DeskAt, BusyIs DEF Has, Ahead
<1>4. CASE ServeRows(p)
  <2>1. Alters(p, {"todo", "marks", "locks", "saw"})
    BY <1>4, ServeRowsMove
  <2>2. {"todo", "marks", "locks", "saw"} \cap {"op", "id", "who", "no"} = {}
    OBVIOUS
  <2>3. "rows" \in Ahead(p)'
    <3>1. "serve rows" \in Ahead(p) /\ Passes(p, "serve rows")
      BY <1>4, ServeRowsMove, DeskAt, DeskIn
    <3>2. "rows" \in Ahead(p) /\ "rows" # "serve rows"
      BY <3>1 DEF DeskOK
    <3> QED BY <3>1, <3>2 DEF Passes
  <2>4. proc'[p].todo # <<>>
    BY <2>3, OrderedShort DEF Ahead
  <2>5. proc[p].op = "rows"
    BY <1>4, AtOps DEF ServeRows
  <2> QED BY <1>1, <1>3, <2>1, <2>2, <2>4, <2>5, AlterLasts DEF Working
<1>5. CASE BulkStatus(p)
  <2>1. Alters(p, {"todo", "marks"})
    BY <1>5, BulkStatusMove
  <2>2. {"todo", "marks"} \cap {"op", "id", "who", "no"} = {}
    OBVIOUS
  <2>3. proc[p].op = "bulk"
    BY <1>5, AtOps DEF BulkStatus
  <2> QED BY <1>1, <1>3, <2>1, <2>2, <2>3, AlterLasts DEF Working
<1>6. CASE ServeDetail(p) \/ PatchLead(p) \/ EstimateCost(p)
  <2>1. Only(p) /\ (proc'[p] = Idle \/ Alters(p, {"todo"}))
    BY <1>6, DeskGoes
  <2>2. {"todo"} \cap {"op", "id", "who", "no"} = {}
    OBVIOUS
  <2>3. Lasts(p) \/ Leaves(p)
    BY <1>3, <2>1, <2>2, AlterLasts DEF Leaves
  <2>4. proc[p].op \in {"detail", "note", "dry"}
    BY <1>6, AtOps DEF ServeDetail, PatchLead, EstimateCost
  <2>5. proc[p].op = "dry" /\ Lasts(p) => proc'[p].marks = proc[p].marks
    <3>1. Lasts(p) /\ proc'[p] = Idle => proc[p].op # "dry"
      BY DEF Lasts, Idle
    <3>2. Alters(p, {"todo"}) => proc'[p].marks = proc[p].marks
      BY AllFields DEF Alters
    <3> QED BY <2>1, <3>1, <3>2
  <2> QED BY <1>1, <1>3, <2>3, <2>4, <2>5 DEF Working
<1> QED BY <1>4, <1>5, <1>6
LEMMA EndingDone ==
  ASSUME ProcInv, FlowInv, DOMAIN desk = DeskFields, NEW p \in Handlers, DeskOK(p)
  PROVE  /\ Rows(p) => Landed(p)
         /\ AnswerLost(p) => Lost(p)
         /\ Detail(p) => Detailed(p)
         /\ OnSavedNote(p) => NoteSaved(p)
         /\ Declined(p) => Refusing(p)
<1>1. ASSUME NEW s \in DeskWords, At(p, s), proc' = Ended(p) PROVE Leaves(p) /\ Has(proc[p], "desk")
  BY <1>1, DeskEnds, DeskOp DEF Leaves
<1>2. ASSUME Rows(p) PROVE Landed(p)
  <2>1. At(p, "rows") /\ proc' = Ended(p) /\ UNCHANGED <<noted, streams>> /\ calls' = calls
    BY <1>2 DEF Rows, Going
  <2>2. desk' = [desk EXCEPT !.shown = proc[p].marks, !.notes = proc[p].locks, !.total = proc[p].saw, !.loaded = <<proc[p].id, proc[p].who>>]
    BY <1>2 DEF Rows
  <2>3. Sets({"shown", "notes", "total", "loaded"}) /\ desk'.loaded = <<proc[p].id, proc[p].who>> /\ desk'.shown = proc[p].marks
    BY <2>2 DEF Sets, DeskFields
  <2> QED BY <1>1, <2>1, <2>3, AtOps, DeskIn DEF Landed
<1>3. ASSUME AnswerLost(p) PROVE Lost(p)
  <2>1. /\ At(p, "rows") \/ At(p, "detail") \/ At(p, "note saved") \/ At(p, "rejected") \/ At(p, "confirm")
        /\ proc' = Ended(p) /\ calls' = calls /\ streams' = {s \in streams : s.no # proc[p].no}
    BY <1>3 DEF AnswerLost
  <2>2. Leaves(p) /\ Has(proc[p], "desk")
    BY <1>1, <2>1, DeskIn
  <2> DEFINE d == IF At(p, "detail") THEN 0 ELSE desk.data
             m == IF At(p, "rows") THEN desk.met \cup {"rows"} ELSE desk.met
  <2>3. desk' = [desk EXCEPT !.data = d, !.met = m]
    BY <1>3 DEF AnswerLost
  <2>4. d \in {0, desk.data} /\ (m = desk.met \/ m = desk.met \cup {"rows"}) /\ (At(p, "rows") => "rows" \in m)
    OBVIOUS
  <2> HIDE DEF d, m
  <2>5. Sets({"data", "met"}) /\ desk'.data = d /\ desk'.met = m
    BY <2>3 DEF Sets, DeskFields
  <2>6. proc[p].op = "rows" => At(p, "rows")
    BY <2>1, AtOps
  <2> QED BY <2>1, <2>2, <2>4, <2>5, <2>6 DEF Lost
<1>4. ASSUME Detail(p) PROVE Detailed(p)
  <2>1. At(p, "detail") /\ proc' = Ended(p) /\ UNCHANGED <<noted, streams>> /\ calls' = calls
    BY <1>4 DEF Detail, Going
  <2>2. desk' = [desk EXCEPT !.data = proc[p].id]
    BY <1>4 DEF Detail
  <2>3. Sets({"data"}) /\ desk'.data = proc[p].id
    BY <2>2 DEF Sets, DeskFields
  <2> QED BY <1>1, <2>1, <2>3, AtOps, DeskIn DEF Detailed
<1>5. ASSUME OnSavedNote(p) PROVE NoteSaved(p)
  <2>1. At(p, "note saved") /\ proc' = Ended(p) /\ UNCHANGED <<noted, streams>> /\ calls' = calls
    BY <1>5 DEF OnSavedNote, Going
  <2>2. desk' = [desk EXCEPT !.note = IF desk.lead = 0 THEN @ ELSE proc[p].id]
    BY <1>5 DEF OnSavedNote
  <2>3. Sets({"note"}) /\ desk'.note = IF desk.lead = 0 THEN desk.note ELSE proc[p].id
    BY <2>2 DEF Sets, DeskFields
  <2> QED BY <1>1, <2>1, <2>3, AtOps, DeskIn DEF NoteSaved
<1>6. ASSUME Declined(p) PROVE Refusing(p)
  <2>1. At(p, "confirm") /\ proc' = Ended(p) /\ UNCHANGED <<desk, noted>> /\ calls' = calls /\ streams' = streams \ {Streamed(p)}
    BY <1>6 DEF Declined, Going
  <2> QED BY <1>1, <2>1, AtOps, DeskIn DEF Refusing
<1> QED BY <1>2, <1>3, <1>4, <1>5, <1>6
LEMMA BulkedDone ==
  ASSUME ProcInv, FlowInv, DOMAIN desk = DeskFields, NEW p \in Handlers, DeskOK(p), Bulked(p)
  PROVE  RowsAgain(p)
<1> DEFINE m == Meets("rows", <<proc[p].id, proc[p].who>> # Asked \/ Awaited({"rows"}) # {})
<1>1. At(p, "rejected") /\ UNCHANGED <<noted, streams>> /\ calls' = calls /\ desk' = [desk EXCEPT !.picked = {}, !.met = m]
  BY DEF Bulked, Going
<1>2. Alters(p, {"op", "todo"}) /\ proc'[p].op = "rows" /\ Passes(p, "rejected")
  BY BulkedMove
<1>3. proc[p].op = "bulk" /\ p \in Busy /\ "rejected" \in Ahead(p) /\ Has(proc[p], "desk")
  BY <1>1, AtOps, DeskOp, DeskIn
<1>4. "rows" \in Ahead(p)'
  <2>1. "rows" \in Ahead(p)
    BY <1>3 DEF DeskOK
  <2> QED BY <1>2, <2>1, AfterRows DEF Passes
<1>5. proc'[p].todo # <<>>
  BY <1>4, OrderedShort DEF Ahead
<1>6. Only(p) /\ proc'[p].id = proc[p].id /\ proc'[p].who = proc[p].who /\ proc'[p].no = proc[p].no
  <2>1. Only(p) /\ \A f \in Fields \ {"op", "todo"} : proc'[p][f] = proc[p][f]
    BY <1>2 DEF Alters
  <2>2. "id" \in Fields \ {"op", "todo"} /\ "who" \in Fields \ {"op", "todo"} /\ "no" \in Fields \ {"op", "todo"}
    BY DEF Fields
  <2> QED BY <2>1, <2>2
<1> HIDE DEF m
<1>7. Sets({"picked", "met"}) /\ desk'.picked = {} /\ desk'.met = m
  BY <1>1 DEF Sets, DeskFields
<1> QED BY <1>1, <1>2, <1>3, <1>5, <1>6, <1>7 DEF RowsAgain, m
LEMMA StreamingDone ==
  ASSUME ProcInv, FlowInv, DOMAIN desk = DeskFields, NEW p \in Handlers, DeskOK(p), Confirmed(p)
  PROVE  Streaming(p)
<1> DEFINE r == [total |-> Cardinality(proc[p].marks), done |-> 0]
           m == IF \E s \in streams : s.on THEN desk.met \cup {"retry"} ELSE desk.met
<1>1. /\ At(p, "confirm") /\ calls' = calls /\ desk.stands /\ desk' = [desk EXCEPT !.retry = r, !.met = m]
      /\ streams' = (streams \ {Streamed(p)}) \cup {[Streamed(p) EXCEPT !.on = TRUE]} /\ noted' = noted
  BY DEF Confirmed, Confirms, Going
<1>2. Alters(p, {"op", "todo"}) /\ proc'[p].op = "legacy" /\ Ahead(p)' = {"token", "load"}
  BY ConfirmedRetry DEF Ahead
<1>3. proc[p].op = "dry" /\ p \in Busy /\ Has(proc[p], "desk")
  BY <1>1, AtOps, DeskOp, DeskIn
<1>4. Only(p) /\ proc'[p].no = proc[p].no /\ proc'[p].marks = proc[p].marks
  <2>1. Only(p) /\ \A f \in Fields \ {"op", "todo"} : proc'[p][f] = proc[p][f]
    BY <1>2 DEF Alters
  <2>2. "no" \in Fields \ {"op", "todo"} /\ "marks" \in Fields \ {"op", "todo"}
    BY DEF Fields
  <2> QED BY <2>1, <2>2
<1> HIDE DEF m, r
<1>5. Sets({"retry", "met"}) /\ desk'.retry = r /\ desk'.met = m
  BY <1>1 DEF Sets, DeskFields
<1> QED BY <1>1, <1>2, <1>3, <1>4, <1>5 DEF Streaming, m, r
LEMMA AloneDone ==
  ASSUME DOMAIN desk = DeskFields
  PROVE  /\ CloseDetail => Shutting
         /\ Toggle \/ ToggleAll => Ticking
         /\ OnEvent => Telling
<1>1. ASSUME CloseDetail PROVE Shutting
  <2>1. proc' = proc /\ UNCHANGED <<noted, streams, calls>> /\ desk' = [desk EXCEPT !.lead = 0, !.data = 0, !.note = 0]
    BY <1>1 DEF CloseDetail, requests
  <2>2. Sets({"lead", "data", "note"}) /\ desk'.lead = 0
    BY <2>1 DEF Sets, DeskFields
  <2> QED BY <2>1, <2>2 DEF Shutting
<1>2. ASSUME Toggle \/ ToggleAll PROVE Ticking
  <2>1. proc' = proc /\ UNCHANGED <<noted, streams, calls>> /\ \E x : desk' = [desk EXCEPT !.picked = x]
    BY <1>2 DEF Toggle, ToggleAll, requests
  <2>2. Sets({"picked"})
    BY <2>1 DEF Sets, DeskFields
  <2> QED BY <2>1, <2>2 DEF Ticking
<1>3. ASSUME OnEvent PROVE Telling
  <2>1. PICK s \in streams :
          /\ desk.stands /\ s.on /\ s.read < Cardinality(ToldTo(s))
          /\ streams' = (streams \ {s}) \cup {[s EXCEPT !.read = @ + 1]}
          /\ desk' = IF desk.retry = NoRetry THEN [desk EXCEPT !.stands = FALSE] ELSE [desk EXCEPT !.retry.done = @ + 1]
          /\ proc' = proc /\ UNCHANGED <<noted, calls>>
    BY <1>3 DEF OnEvent, requests
  <2>2. desk.retry = NoRetry => Sets({"stands"})
    BY <2>1 DEF Sets, DeskFields
  <2>3. ASSUME desk.retry # NoRetry PROVE Sets({"retry"}) /\ desk'.retry = [desk.retry EXCEPT !.done = @ + 1]
    <3> DEFINE x == [desk.retry EXCEPT !.done = @ + 1]
    <3>1. desk' = [desk EXCEPT !.retry = x]
      BY <2>1, <2>3
    <3> HIDE DEF x
    <3>2. Sets({"retry"}) /\ desk'.retry = x
      BY <3>1 DEF Sets, DeskFields
    <3> QED BY <3>2 DEF x
  <2> QED BY <2>1, <2>2, <2>3 DEF Telling
<1> QED BY <1>1, <1>2, <1>3
(* The steps of the page, by what they do to it.                           *)
DeskDeeds(p) ==
  \/ AskedRows(p) \/ StreamEnded(p) \/ Opened(p) \/ Noting(p) \/ Rejecting(p) \/ Picking(p) \/ Working(p)
  \/ Landed(p) \/ Lost(p) \/ Detailed(p) \/ NoteSaved(p) \/ RowsAgain(p) \/ Refusing(p) \/ Streaming(p)
LEMMA DeedDoes ==
  ASSUME ProcInv, FlowInv, DOMAIN desk = DeskFields, \A q \in Handlers : Has(proc[q], "desk") => DeskOK(q), LeadsPageStep,
         ~(CloseDetail \/ OnEvent \/ Toggle \/ ToggleAll)
  PROVE  \E p \in Handlers : DeskDeeds(p)
<1>1. ASSUME NEW p \in Handlers, Rows(p) \/ AnswerLost(p) \/ Detail(p) \/ OnSavedNote(p) \/ Declined(p) \/ Bulked(p) \/ Confirmed(p)
      PROVE  DeskDeeds(p)
  <2>1. \E s \in DeskWords : At(p, s)
    BY <1>1, DeskIn, ZenonT(40) DEF Rows, AnswerLost, Detail, OnSavedNote, Declined, Bulked, Confirmed, Confirms
  <2>2. Has(proc[p], "desk")
    BY <2>1, DeskAt DEF Has, Ahead
  <2>3. DeskOK(p)
    BY <2>2
  <2> QED BY <1>1, <2>3, EndingDone, BulkedDone, StreamingDone DEF DeskDeeds
<1>2. ASSUME NEW p \in Handlers,
             \/ ChooseFilter(p) \/ TurnPage(p) \/ ApplyView(p) \/ OpenDetail(p) \/ HandleBlur(p) \/ BulkReject(p)
             \/ RetryPicked(p) \/ StreamEnds(p)
      PROVE  DeskDeeds(p)
  BY <1>2, AskedRowsDone, OpenedDone, BeginsDone, StreamEndedDone DEF DeskDeeds
<1>3. ASSUME NEW p \in Handlers, ServeRows(p) \/ BulkStatus(p) \/ ServeDetail(p) \/ PatchLead(p) \/ EstimateCost(p)
      PROVE  DeskDeeds(p)
  <2>1. \E s \in DeskWords : At(p, s)
    BY <1>3, DeskIn, ZenonT(40) DEF ServeRows, BulkStatus, ServeDetail, PatchLead, EstimateCost
  <2>2. Has(proc[p], "desk")
    BY <2>1, DeskAt DEF Has, Ahead
  <2>3. DeskOK(p)
    BY <2>2
  <2> QED BY <1>3, <2>3, WorkingDone DEF DeskDeeds
<1> QED BY <1>1, <1>2, <1>3 DEF LeadsPageStep
LEMMA PageDoes ==
  ASSUME ProcInv, FlowInv, DOMAIN desk = DeskFields, \A q \in Handlers : Has(proc[q], "desk") => DeskOK(q), LeadsPageStep
  PROVE  (\E p \in Handlers : DeskDeeds(p)) \/ Shutting \/ Ticking \/ Telling
  BY DeedDoes, AloneDone
DeskReq == \A q \in Handlers : Has(proc[q], "desk") => DeskOK(q)
Finite == IsFiniteSet(DOMAIN leads) /\ IsFiniteSet(desk.shown) /\ IsFiniteSet(desk.picked)
LEMMA SliceFinite ==
  ASSUME ProcInv, FlowInv, IsFiniteSet(DOMAIN leads), NEW p \in Handlers, ServeRows(p)
  PROVE  IsFiniteSet(proc'[p].marks)
<1> DEFINE found == {l \in Matching(p, ParseLeadFilter(Query(p))) :
                      leads[l].signals >= Query(p).signals /\ (Query(p).tech => leads[l].tech)}
           rows == Slice(found, proc[p].who)
           l == rows \cap noted
           c == Cardinality(found)
<1>1. proc' = [proc EXCEPT ![p].todo = Tail(@), ![p].marks = rows, ![p].locks = l, ![p].saw = c]
  BY DEF ServeRows
<1>2. \A w : Matching(p, w) \subseteq DOMAIN leads
  BY DEF Matching
<1>3. found \subseteq DOMAIN leads
  BY <1>2
<1>4. rows \subseteq DOMAIN leads
  BY <1>3 DEF Slice
<1>5. IsFiniteSet(rows)
  BY <1>4, FS_Subset
<1> HIDE DEF found, rows, l, c
<1>6. PICK x, y, z : x = rows /\ proc' = [proc EXCEPT ![p].todo = Tail(@), ![p].marks = x, ![p].locks = y, ![p].saw = z]
  BY <1>1
<1>7. At(p, "serve rows")
  BY DEF ServeRows
<1>8. Away(proc[p])
  BY <1>7, DeskAt, DeskIn
<1> DEFINE t == Tail(proc[p].todo)
<1>9. proc' = [proc EXCEPT ![p].todo = t, ![p].marks = x, ![p].locks = y, ![p].saw = z]
  BY <1>6, <1>8 DEF ProcInv
<1> HIDE DEF t
<1>10. Alters(p, {"todo", "marks", "locks", "saw"}) /\ proc'[p].todo = t /\ proc'[p].marks = x
  BY <1>8, <1>9, SetRows
<1> QED BY <1>5, <1>6, <1>10
LEMMA TurnKeeps ==
  ASSUME ProcInv, FlowInv, NEW p \in Handlers, NEW s \in DeskWords, At(p, s), s \notin {"rejected", "rows"}, DeskOK(p),
         NEW fs, Alters(p, fs), "op" \notin fs, "marks" \notin fs, Passes(p, s)
  PROVE  DeskOK(p)'
<1>1. \A f \in Fields \ fs : proc'[p][f] = proc[p][f]
  BY DEF Alters
<1>2. "op" \in Fields \ fs /\ "marks" \in Fields \ fs
  BY DEF Fields
<1>3. proc'[p].op = proc[p].op /\ proc'[p].marks = proc[p].marks
  BY <1>1, <1>2
<1>4. IsFiniteSet(proc'[p].marks)
  BY <1>3 DEF DeskOK
<1> QED BY <1>3, <1>4, DeskPass
LEMMA BeginKeeps ==
  ASSUME ProcInv, NEW p \in Handlers, Finite,
         \/ ChooseFilter(p) \/ TurnPage(p) \/ ApplyView(p) \/ OpenDetail(p) \/ HandleBlur(p) \/ BulkReject(p)
         \/ RetryPicked(p) \/ StreamEnds(p)
  PROVE  DeskOK(p)'
<1>1. IsFiniteSet({}) /\ IsFiniteSet(desk.picked)
  BY FS_EmptySet DEF Finite
<1>2. /\ \A w \in RowsWords : Suits("rows", w)
      /\ \A w \in {"serve detail", "detail"} : Suits("detail", w)
      /\ \A w \in {"find lead", "patch", "note saved"} : Suits("note", w)
      /\ \A w \in {"reject", "rejected", "serve rows", "rows"} : Suits("bulk", w)
      /\ \A w \in {"dry run", "confirm"} : Suits("dry", w)
  BY DEF Suits, RowsWords
<1>3. {"rows", "detail", "note", "bulk", "dry"} \subseteq DeskOps
  BY DEF DeskOps
<1>4. ASSUME NEW f, NEW n, NEW no, Asking(p, "rows", f, n, {}, no, RowsWords) PROVE DeskOK(p)'
  <2>1. "rows" \in RowsWords
    BY DEF RowsWords
  <2> QED BY <1>1, <1>2, <1>3, <1>4, <2>1, DeskBegins
<1>5. CASE ChooseFilter(p) \/ TurnPage(p) \/ ApplyView(p)
  <2>1. PICK asked : FetchLeads(p, asked)
    BY <1>5 DEF ChooseFilter, TurnPage, ApplyView
  <2> QED BY <1>4, <2>1, FetchLeadsMove
<1>6. CASE StreamEnds(p)
  <2>1. PICK asked : proc' = [proc EXCEPT ![p] = RowsOf(asked)]
    BY <1>6 DEF StreamEnds
  <2> QED BY <1>4, <2>1, StreamEndsMove
<1>7. CASE OpenDetail(p)
  <2>1. PICK l : Asking(p, "detail", l, 0, {}, calls + 1, {"serve detail", "detail"})
    BY <1>7, DetailMove
  <2>2. "serve rows" \notin {"serve detail", "detail"} /\ "rejected" \notin {"serve detail", "detail"} /\ "detail" # "bulk"
    OBVIOUS
  <2> QED BY <1>1, <1>2, <1>3, <2>1, <2>2, DeskBegins
<1>8. CASE HandleBlur(p)
  <2>1. Asking(p, "note", desk.lead, 0, {}, calls + 1, {"find lead", "patch", "note saved"})
    BY <1>8, BlurMove
  <2>2. "serve rows" \notin {"find lead", "patch", "note saved"} /\ "rejected" \notin {"find lead", "patch", "note saved"} /\ "note" # "bulk"
    OBVIOUS
  <2> QED BY <1>1, <1>2, <1>3, <2>1, <2>2, DeskBegins
<1>9. CASE BulkReject(p)
  <2> DEFINE ws == {"reject", "rejected", "serve rows", "rows"}
  <2>1. Asking(p, "bulk", desk.filter, desk.page, desk.picked, calls + 1, ws)
    BY <1>9, RejectMove
  <2>2. "rows" \in ws /\ "rejected" \in ws
    OBVIOUS
  <2>3. "bulk" \in DeskOps /\ \A w \in ws : Suits("bulk", w)
    BY <1>2, <1>3
  <2> HIDE DEF ws
  <2> QED BY <1>1, <2>1, <2>2, <2>3, DeskBegins
<1>10. CASE RetryPicked(p)
  <2>1. PICK i : Asking(p, "dry", i, 0, desk.picked, calls + 1, {"dry run", "confirm"})
    BY <1>10, PickedMove
  <2>2. "serve rows" \notin {"dry run", "confirm"} /\ "rejected" \notin {"dry run", "confirm"} /\ "dry" # "bulk"
    OBVIOUS
  <2> QED BY <1>1, <1>2, <1>3, <2>1, <2>2, DeskBegins
<1> QED BY <1>5, <1>6, <1>7, <1>8, <1>9, <1>10
LEMMA WorkKeeps ==
  ASSUME ProcInv, FlowInv, NEW p \in Handlers, Finite, DeskOK(p),
         ServeRows(p) \/ BulkStatus(p) \/ Bulked(p)
  PROVE  DeskOK(p)'
<1>1. CASE ServeRows(p)
  <2>1. Alters(p, {"todo", "marks", "locks", "saw"}) /\ Passes(p, "serve rows") /\ "serve rows" \in DeskWords
    BY <1>1, ServeRowsMove, DeskIn
  <2>2. proc'[p].op = proc[p].op
    BY <2>1 DEF Alters, Fields
  <2>3. IsFiniteSet(proc'[p].marks)
    BY <1>1, SliceFinite DEF Finite
  <2>4. "serve rows" \notin {"rejected", "rows"}
    OBVIOUS
  <2> QED BY <2>1, <2>2, <2>3, <2>4, DeskPass
<1>2. CASE BulkStatus(p)
  <2>1. At(p, "reject") /\ Alters(p, {"todo", "marks"}) /\ (proc'[p].todo = proc[p].todo \/ Passes(p, "reject"))
    BY <1>2, BulkStatusMove
  <2>2. proc'[p].op = proc[p].op
    BY <2>1 DEF Alters, Fields
  <2>3. proc'[p].marks \subseteq proc[p].marks
    <3>1. PICK l : proc' = [proc EXCEPT ![p].marks = @ \ {l}, ![p].todo = IF proc[p].marks = {l} THEN Tail(@) ELSE @]
      BY <1>2 DEF BulkStatus
    <3> DEFINE t == IF proc[p].marks = {l} THEN Tail(proc[p].todo) ELSE proc[p].todo
    <3>2. Away(proc[p]) /\ DOMAIN proc = Handlers
      BY <2>1, DeskAt, DeskIn DEF ProcInv
    <3> DEFINE x == proc[p].marks \ {l}
    <3>3. proc' = [proc EXCEPT ![p].marks = x, ![p].todo = t]
      BY <3>1, <3>2
    <3> HIDE DEF x, t
    <3>4. proc'[p].marks = x
      BY <3>2, <3>3, MarksSet, Zenon
    <3> QED BY <3>4 DEF x
  <2>4. IsFiniteSet(proc'[p].marks)
    BY <2>3, FS_Subset DEF DeskOK
  <2>5. proc'[p].todo = proc[p].todo => Ahead(p)' = Ahead(p)
    BY DEF Ahead
  <2>6. proc'[p].todo = proc[p].todo => DeskOK(p)'
    BY <2>2, <2>4, <2>5 DEF DeskOK
  <2>7. "reject" \notin {"rejected", "rows"}
    OBVIOUS
  <2> QED BY <2>1, <2>2, <2>4, <2>6, <2>7, DeskPass
<1>3. CASE Bulked(p)
  <2>1. At(p, "rejected") /\ Alters(p, {"op", "todo"}) /\ proc'[p].op = "rows" /\ Passes(p, "rejected")
    BY <1>3, BulkedMove
  <2>2. proc'[p].marks = proc[p].marks
    BY <2>1 DEF Alters, Fields
  <2>3. proc[p].op = "bulk" /\ \A w \in Ahead(p) : Suits("bulk", w)
    BY <2>1, AtOps DEF DeskOK
  <2>4. \A w \in Ahead(p)' : w \in Ahead(p) /\ Comes("rejected", w)
    BY <2>1 DEF Passes
  <2>5. ~Comes("rejected", "reject") /\ ~Comes("rejected", "rejected")
    BY DEF Comes
  <2>6. \A w \in Ahead(p)' : w \in {"serve rows", "rows"}
    BY <2>3, <2>4, <2>5 DEF Suits
  <2>7. \A w \in Ahead(p)' : Suits("rows", w)
    BY <2>6 DEF Suits
  <2>8. "rows" \in Ahead(p)'
    <3>1. "rows" \in Ahead(p)
      BY <2>1, DeskAt, DeskIn DEF DeskOK
    <3> QED BY <2>1, <3>1, AfterRows DEF Passes
  <2>9. "rows" \in DeskOps /\ "rows" # "bulk"
    BY DEF DeskOps
  <2>10. IsFiniteSet(proc'[p].marks)
    BY <2>2 DEF DeskOK
  <2> QED BY <2>1, <2>7, <2>8, <2>9, <2>10 DEF DeskOK
<1> QED BY <1>1, <1>2, <1>3
LEMMA DeskKeeps ==
  ASSUME ProcInv, FlowInv, NEW p \in Handlers, DeskOK(p), ServeDetail(p) \/ PatchLead(p) \/ EstimateCost(p), proc'[p] # Idle
  PROVE  DeskOK(p)'
<1>1. \E s \in DeskWords : At(p, s) /\ s \notin {"rejected", "rows"}
  BY DeskIn, ZenonT(40) DEF ServeDetail, PatchLead, EstimateCost
<1>2. PICK s \in DeskWords : At(p, s) /\ s \notin {"rejected", "rows"}
  BY <1>1
<1>3. proc' = Advance(p)
  BY DEF ServeDetail, PatchLead, EstimateCost
<1>4. Alters(p, {"todo"}) /\ Passes(p, s)
  BY <1>2, <1>3, DeskTurns
<1>5. "op" \notin {"todo"} /\ "marks" \notin {"todo"}
  OBVIOUS
<1> QED BY <1>2, <1>4, <1>5, TurnKeeps
LEMMA ReqNext ==
  ASSUME Core, Steady, [Next]_vars, DeskReq, Finite
  PROVE  DeskReq'
<1>1. ProcInv /\ FlowInv
  BY DEF Core, Steady
<1> SUFFICES ASSUME NEW q \in Handlers, Has(proc'[q], "desk") PROVE DeskOK(q)'
  BY DEF DeskReq
<1>2. ASSUME Beside("desk") PROVE DeskOK(q)'
  <2>1. proc'[q] = proc[q] /\ Has(proc[q], "desk")
    BY <1>1, <1>2, DeskBeside
  <2> QED BY <2>1 DEF DeskReq, DeskOK, Ahead
<1>3. ASSUME NEW p \in Handlers, p # q, Deed(p, "desk") \/ Only(p) PROVE DeskOK(q)'
  <2>1. proc'[q] = proc[q] /\ Has(proc[q], "desk")
    BY <1>1, <1>3, DeedAlike, KindsAre DEF Only
  <2> QED BY <2>1 DEF DeskReq, DeskOK, Ahead
<1>4. ASSUME NEW p \in Handlers,
             \/ Rows(p) \/ AnswerLost(p) \/ ServeDetail(p) \/ Detail(p) \/ PatchLead(p) \/ OnSavedNote(p)
             \/ EstimateCost(p) \/ Declined(p)
      PROVE  DeskOK(q)'
  <2>1. Only(p) /\ (p = q => proc'[p] # Idle)
    BY <1>1, <1>4, DeskGoes, NothingAhead, KindsAre
  <2>2. ASSUME p = q PROVE DeskOK(q)'
    <3>1. ASSUME Rows(p) \/ AnswerLost(p) \/ Detail(p) \/ OnSavedNote(p) \/ Declined(p) PROVE FALSE
      <4>1. proc' = Ended(p)
        BY <3>1 DEF Rows, AnswerLost, Detail, OnSavedNote, Declined
      <4>2. proc'[p] = Idle
        BY <1>1, <4>1 DEF Ended, ProcInv
      <4> QED BY <2>1, <2>2, <4>2
    <3>2. \E s \in DeskWords : At(p, s)
      BY <1>4, DeskIn, ZenonT(40) DEF Rows, AnswerLost, ServeDetail, Detail, PatchLead, OnSavedNote, EstimateCost, Declined
    <3>3. DeskOK(p)
      BY <1>1, <3>2, DeskAt DEF DeskReq, Has, Ahead
    <3> QED BY <1>1, <1>4, <2>1, <2>2, <3>1, <3>3, DeskKeeps
  <2> QED BY <1>3, <2>1, <2>2
<1>5. ASSUME NEW p \in Handlers,
             \/ ChooseFilter(p) \/ TurnPage(p) \/ ApplyView(p) \/ OpenDetail(p) \/ HandleBlur(p) \/ BulkReject(p)
             \/ RetryPicked(p) \/ StreamEnds(p)
      PROVE  DeskOK(q)'
  <2>1. Deed(p, "desk")
    BY <1>1, <1>5, DeskAsked DEF DeskAsking
  <2> QED BY <1>1, <1>3, <1>5, <2>1, BeginKeeps
<1>6. ASSUME NEW p \in Handlers, ServeRows(p) \/ BulkStatus(p) \/ Bulked(p) PROVE DeskOK(q)'
  <2>1. Deed(p, "desk")
    BY <1>1, <1>6, ServeRowsMove, BulkStatusMove, BulkedMove
  <2>2. \E s \in DeskWords : At(p, s)
    BY <1>6, DeskIn, ZenonT(40) DEF ServeRows, BulkStatus, Bulked
  <2>3. DeskOK(p)
    BY <1>1, <2>2, DeskAt DEF DeskReq, Has, Ahead
  <2> QED BY <1>1, <1>3, <1>6, <2>1, <2>3, WorkKeeps
<1>7. ASSUME NEW p \in Handlers, Confirmed(p) PROVE DeskOK(q)'
  <2>1. Deed(p, "retry") /\ Alters(p, {"op", "todo"}) /\ Ahead(p)' = {"token", "load"}
    BY <1>1, <1>7, ConfirmedRetry DEF Ahead
  <2>2. q # p
    <3>1. "retry" \in Kinds \ {"desk"}
      BY KindsAre
    <3>3. Beside("desk")
      BY <1>1, <2>1, <3>1, DeskDeed
    <3>4. proc'[q] = proc[q]
      BY <1>1, <3>3, DeskBeside
    <3>5. At(p, "confirm") /\ proc'[p].op = "legacy"
      BY <1>1, <1>7, ConfirmedRetry DEF Confirmed, Confirms
    <3>6. proc[p].op \in Serving("desk") /\ "legacy" \notin Serving("desk")
      BY <1>1, <3>5, DeskAt, DeskIn, DeskOpsAre DEF DeskOps
    <3> QED BY <3>4, <3>5, <3>6
  <2> QED BY <1>3, <2>1, <2>2 DEF Alters
<1>8. ASSUME proc' = proc PROVE DeskOK(q)'
  BY <1>8 DEF DeskReq, DeskOK, Ahead
<1>9. ASSUME CloseDetail \/ Toggle \/ ToggleAll \/ OnEvent PROVE proc' = proc
  BY <1>9 DEF CloseDetail, Toggle, ToggleAll, OnEvent, requests
<1>10. LeadsPageStep \/ Beside("desk")
  BY DeskRest DEF Neighbourly
<1> QED BY <1>2, <1>4, <1>5, <1>6, <1>7, <1>8, <1>9, <1>10 DEF LeadsPageStep
LEMMA ShapeNext ==
  ASSUME Core, Steady, [Next]_vars, DeskReq, DOMAIN desk = DeskFields
  PROVE  DOMAIN desk' = DeskFields
<1>1. ProcInv /\ FlowInv
  BY DEF Core, Steady
<1>2. Neighbourly => DOMAIN desk' = DeskFields
  BY DEF Neighbourly, Meanwhile
<1>3. LeadsPageStep => (\E p \in Handlers : DeskDeeds(p)) \/ Shutting \/ Ticking \/ Telling
  BY <1>1, PageDoes DEF DeskReq
<1>4. ASSUME NEW p \in Handlers, DeskDeeds(p) PROVE DOMAIN desk' = DeskFields
  BY <1>4 DEF DeskDeeds, AskedRows, StreamEnded, Opened, Noting, Rejecting, Picking, Working, Landed, Lost, Detailed, NoteSaved,
       RowsAgain, Refusing, Streaming, Sets, leadsPage
<1>5. Shutting \/ Ticking \/ Telling => DOMAIN desk' = DeskFields
  BY DEF Shutting, Ticking, Telling, Sets
<1> QED BY <1>2, <1>3, <1>4, <1>5, DeskRest
(* The page's sets are finite.                                             *)
LEMMA FiniteNext ==
  ASSUME Core, Steady, [Next]_vars, DeskReq, DOMAIN desk = DeskFields, Finite
  PROVE  Finite'
<1>1. ProcInv /\ FlowInv
  BY DEF Core, Steady
<1>2. IsFiniteSet(DOMAIN leads')
  BY LeadsStay DEF Finite
<1>3. ASSUME desk'.shown = desk.shown, desk'.picked = desk.picked PROVE Finite'
  BY <1>2, <1>3 DEF Finite
<1>4. CASE Neighbourly
  <2>1. desk'.shown = desk.shown /\ desk'.picked = desk.picked
    BY <1>4 DEF Neighbourly, Meanwhile, DeskFields
  <2> QED BY <1>3, <2>1
<1>5. ASSUME NEW p \in Handlers, DeskDeeds(p) PROVE Finite'
  <2>1. desk'.shown = desk.shown \/ (Has(proc[p], "desk") /\ desk'.shown = proc[p].marks)
    <3>1. CASE Landed(p)
      <4>1. proc[p].todo # <<>> /\ proc[p].op \in DeskOps
        BY <3>1 DEF Landed, Leaves, Busy, DeskOps
      <4> QED BY <1>1, <3>1, <4>1, OpsDesk DEF Landed
    <3>2. ASSUME ~Landed(p) PROVE desk'.shown = desk.shown
      BY <1>5, <3>2 DEF DeskDeeds, AskedRows, StreamEnded, Opened, Noting, Rejecting, Picking, Working, Lost, Detailed, NoteSaved,
         RowsAgain, Refusing, Streaming, Sets, leadsPage, DeskFields
    <3> QED BY <3>1, <3>2
  <2>2. desk'.picked = desk.picked \/ desk'.picked = {}
    BY <1>5 DEF DeskDeeds, AskedRows, StreamEnded, Opened, Noting, Rejecting, Picking, Working, Landed, Lost, Detailed, NoteSaved,
       RowsAgain, Refusing, Streaming, Sets, leadsPage, DeskFields
  <2>3. IsFiniteSet(desk'.shown)
    BY <2>1 DEF Finite, DeskReq, DeskOK
  <2>4. IsFiniteSet(desk'.picked)
    BY <2>2, FS_EmptySet DEF Finite
  <2> QED BY <1>2, <2>3, <2>4 DEF Finite
<1>6. CASE Shutting \/ Telling
  <2>1. desk'.shown = desk.shown /\ desk'.picked = desk.picked
    BY <1>6 DEF Shutting, Telling, Sets, DeskFields
  <2> QED BY <1>3, <2>1
<1>7. CASE Toggle \/ ToggleAll
  <2>1. desk'.shown = desk.shown
    BY <1>7 DEF Toggle, ToggleAll, DeskFields
  <2>2. desk'.picked \subseteq desk.picked \cup desk.shown
    BY <1>7 DEF Toggle, ToggleAll, DeskFields
  <2>3. IsFiniteSet(desk.picked \cup desk.shown)
    BY FS_Union DEF Finite
  <2>4. IsFiniteSet(desk'.picked)
    BY <2>2, <2>3, FS_Subset
  <2> QED BY <1>2, <2>1, <2>4 DEF Finite
<1>8. ASSUME LeadsPageStep PROVE (\E p \in Handlers : DeskDeeds(p)) \/ Shutting \/ Telling \/ Toggle \/ ToggleAll
  <2>1. CASE CloseDetail \/ OnEvent
    BY <2>1, AloneDone
  <2>2. CASE Toggle \/ ToggleAll
    BY <2>2
  <2>3. CASE ~(CloseDetail \/ OnEvent \/ Toggle \/ ToggleAll)
    BY <1>1, <1>8, <2>3, DeedDoes DEF DeskReq
  <2> QED BY <2>1, <2>2, <2>3
<1> QED BY <1>4, <1>5, <1>6, <1>7, <1>8, DeskRest

(* The rows are what was asked for last, or those of one answer are to come. *)
RowsAwaited(q) == Open(q, {"rows"})
RowsSafe == "rows" \notin desk.met =>
  \/ (\A q \in Handlers : ~RowsAwaited(q)) /\ desk.loaded = Asked
  \/ \E p \in Handlers : /\ \A q \in Handlers : RowsAwaited(q) <=> q = p
                         /\ proc[p].id = desk.filter /\ proc[p].who = desk.page
LEMMA RowsShown == RowsSafe => ShownAsAsked
  BY AwaitedIs DEF RowsSafe, ShownAsAsked, RowsAwaited
LEMMA RowsSame ==
  ASSUME RowsSafe, \A q \in Handlers : RowsAwaited(q)' <=> RowsAwaited(q),
         \A q \in Handlers : RowsAwaited(q) => proc'[q].id = proc[q].id /\ proc'[q].who = proc[q].who,
         desk'.filter = desk.filter, desk'.page = desk.page, desk'.loaded = desk.loaded, "rows" \in desk.met => "rows" \in desk'.met
  PROVE  RowsSafe'
<1>1. Asked' = Asked
  BY DEF Asked
<1>2. CASE "rows" \in desk.met
  BY <1>2 DEF RowsSafe
<1>3. CASE (\A q \in Handlers : ~RowsAwaited(q)) /\ desk.loaded = Asked
  BY <1>1, <1>3 DEF RowsSafe
<1>4. ASSUME NEW p \in Handlers, \A q \in Handlers : RowsAwaited(q) <=> q = p, proc[p].id = desk.filter, proc[p].who = desk.page PROVE RowsSafe'
  <2>1. RowsAwaited(p)
    BY <1>4
  <2>2. proc'[p].id = desk'.filter /\ proc'[p].who = desk'.page
    BY <1>4, <2>1
  <2>3. \A q \in Handlers : RowsAwaited(q)' <=> q = p
    BY <1>4
  <2> QED BY <2>2, <2>3 DEF RowsSafe
<1> QED BY <1>2, <1>3, <1>4 DEF RowsSafe
(* p fetches from now on; nobody else does, or it is known that some meet.  *)
LEMMA RowsNew ==
  ASSUME NEW p \in Handlers, Only(p), proc'[p].todo # <<>>, proc'[p].op = "rows", NEW others,
         desk'.met = Meets("rows", others), Awaited({"rows"}) # {} => others,
         ~others => proc'[p].id = desk'.filter /\ proc'[p].who = desk'.page
  PROVE  RowsSafe'
<1>1. CASE others
  BY <1>1 DEF RowsSafe, Meets
<1>2. CASE ~others
  <2>1. \A q \in Handlers : ~RowsAwaited(q)
    BY <1>2, AwaitedIs DEF RowsAwaited
  <2>2. \A q \in Handlers \ {p} : ~RowsAwaited(q)'
    BY <2>1 DEF Only, RowsAwaited, Open
  <2>3. RowsAwaited(p)'
    BY DEF RowsAwaited, Open
  <2>4. proc'[p].id = desk'.filter /\ proc'[p].who = desk'.page
    BY <1>2
  <2> QED BY <2>2, <2>3, <2>4 DEF RowsSafe
<1> QED BY <1>1, <1>2
LEMMA RowsDone ==
  ASSUME RowsSafe, NEW p \in Handlers, DOMAIN desk = DeskFields, Landed(p)
  PROVE  RowsSafe'
<1>1. Sets({"shown", "notes", "total", "loaded"}) /\ desk'.loaded = <<proc[p].id, proc[p].who>>
  BY DEF Landed
<1>2. desk'.met = desk.met /\ desk'.filter = desk.filter /\ desk'.page = desk.page
  BY <1>1 DEF Sets, DeskFields
<1>3. RowsAwaited(p) /\ Only(p) /\ proc'[p] = Idle
  BY DEF Landed, Leaves, RowsAwaited, Open, Busy
<1>4. ASSUME "rows" \notin desk.met PROVE (\A q \in Handlers : ~RowsAwaited(q)') /\ desk'.loaded = Asked'
  <2>1. (\A q \in Handlers : RowsAwaited(q) <=> q = p) /\ proc[p].id = desk.filter /\ proc[p].who = desk.page
    BY <1>3, <1>4 DEF RowsSafe
  <2>2. \A q \in Handlers \ {p} : ~RowsAwaited(q)'
    BY <1>3, <2>1 DEF Only, RowsAwaited, Open
  <2>3. ~RowsAwaited(p)'
    BY <1>3 DEF RowsAwaited, Open, Idle
  <2> QED BY <1>1, <1>2, <2>1, <2>2, <2>3 DEF Asked
<1> QED BY <1>2, <1>4 DEF RowsSafe
LEMMA RowsBeside ==
  ASSUME ProcInv, FlowInv, ProcInv', FlowInv', RowsSafe, DOMAIN desk = DeskFields, Neighbourly
  PROVE  RowsSafe'
<1>1. ASSUME NEW q \in Handlers, RowsAwaited(q)' PROVE RowsAwaited(q) /\ proc'[q] = proc[q]
  <2>1. proc'[q].todo # <<>> /\ proc'[q].op \in DeskOps
    BY <1>1 DEF RowsAwaited, Open, DeskOps
  <2>2. proc'[q] = proc[q]
    BY <2>1, OpsDeskNext, DeskBeside DEF Neighbourly
  <2> QED BY <1>1, <2>2 DEF RowsAwaited, Open
<1>2. CASE proc' = proc /\ desk' = desk
  <2>1. \A q \in Handlers : RowsAwaited(q)' <=> RowsAwaited(q)
    BY <1>2 DEF RowsAwaited, Open
  <2> QED BY <1>2, <2>1, RowsSame
<1>3. CASE Meanwhile
  <2>1. desk'.filter = desk.filter /\ desk'.page = desk.page /\ desk'.loaded = desk.loaded /\ Asked' = Asked
    BY <1>3 DEF Meanwhile, DeskFields, Asked
  <2>2. desk'.met = IF Awaited({"rows"}) # {} /\ Awaited({"rows"})' = {} THEN desk.met \cup {"rows"} ELSE desk.met
    BY <1>3 DEF Meanwhile, DeskFields
  <2>3. CASE "rows" \in desk'.met
    BY <2>3 DEF RowsSafe
  <2>4. CASE "rows" \notin desk'.met
    <3>1. "rows" \notin desk.met /\ (Awaited({"rows"}) = {} \/ Awaited({"rows"})' # {})
      BY <2>2, <2>4
    <3>2. CASE Awaited({"rows"}) = {}
      <4>1. \A q \in Handlers : ~RowsAwaited(q)
        BY <3>2, AwaitedIs DEF RowsAwaited
      <4>2. \A q \in Handlers : ~RowsAwaited(q)'
        BY <1>1, <4>1
      <4>3. desk.loaded = Asked
        BY <3>1, <4>1 DEF RowsSafe
      <4> QED BY <2>1, <4>2, <4>3 DEF RowsSafe
    <3>3. CASE Awaited({"rows"})' # {}
      <4>1. PICK r \in Handlers : RowsAwaited(r)'
        BY <3>3, AwaitedNext DEF RowsAwaited
      <4>2. RowsAwaited(r) /\ proc'[r] = proc[r]
        BY <1>1, <4>1
      <4>3. (\A q \in Handlers : RowsAwaited(q) <=> q = r) /\ proc[r].id = desk.filter /\ proc[r].who = desk.page
        BY <3>1, <4>2 DEF RowsSafe
      <4>4. \A q \in Handlers : RowsAwaited(q)' <=> RowsAwaited(q)
        BY <1>1, <4>1, <4>3
      <4>5. \A q \in Handlers : RowsAwaited(q) => proc'[q] = proc[q]
        BY <4>2, <4>3
      <4>6. "rows" \in desk.met => "rows" \in desk'.met
        BY <3>1
      <4> QED BY <2>1, <4>4, <4>5, <4>6, RowsSame
    <3> QED BY <3>1, <3>2, <3>3
  <2> QED BY <2>3, <2>4
<1> QED BY <1>2, <1>3 DEF Neighbourly
LEMMA PageRowsNext ==
  ASSUME Core, Steady, [Next]_vars, DeskReq, DOMAIN desk = DeskFields, RowsSafe
  PROVE  RowsSafe'
<1>1. ProcInv /\ FlowInv /\ ProcInv' /\ FlowInv'
  BY CoreNext, SteadyNext DEF Core, Steady
<1>2. CASE Neighbourly
  BY <1>1, <1>2, RowsBeside
<1>3. ASSUME NEW p \in Handlers, \A q \in Handlers \ {p} : proc'[q] = proc[q], RowsAwaited(p)' <=> RowsAwaited(p),
             RowsAwaited(p) => proc'[p].id = proc[p].id /\ proc'[p].who = proc[p].who,
             desk'.filter = desk.filter, desk'.page = desk.page, desk'.loaded = desk.loaded, "rows" \in desk.met => "rows" \in desk'.met
      PROVE  RowsSafe'
  <2>1. \A q \in Handlers : RowsAwaited(q)' <=> RowsAwaited(q)
    BY <1>3 DEF RowsAwaited, Open
  <2> QED BY <1>3, <2>1, RowsSame
<1>4. ASSUME NEW p \in Handlers, AskedRows(p) PROVE RowsSafe'
  <2>1. PICK f, n : /\ Fresh(p, "rows", f, n) /\ desk'.filter = f /\ desk'.page = n
                    /\ desk'.met = Meets("rows", Awaited({"rows"}) # {})
    BY <1>4 DEF AskedRows
  <2> QED BY <2>1, RowsNew DEF Fresh
<1>5. ASSUME NEW p \in Handlers, StreamEnded(p) PROVE RowsSafe'
  <2>1. PICK s : /\ Fresh(p, "rows", s.asked[1], s.asked[2]) /\ Sets({"retry", "picked", "met"})
                 /\ desk'.met = Meets("rows", s.asked # Asked \/ Awaited({"rows"}) # {})
    BY <1>5 DEF StreamEnded
  <2>2. desk'.filter = desk.filter /\ desk'.page = desk.page
    BY <2>1 DEF Sets, DeskFields
  <2>3. s.asked = Asked => s.asked[1] = desk.filter /\ s.asked[2] = desk.page
    BY DEF Asked
  <2> DEFINE others == s.asked # Asked \/ Awaited({"rows"}) # {}
  <2>4. ~others => proc'[p].id = desk'.filter /\ proc'[p].who = desk'.page
    BY <2>1, <2>2, <2>3 DEF Fresh
  <2>5. Only(p) /\ proc'[p].todo # <<>> /\ proc'[p].op = "rows" /\ desk'.met = Meets("rows", others)
    BY <2>1 DEF Fresh
  <2>6. Awaited({"rows"}) # {} => others
    OBVIOUS
  <2> HIDE DEF others
  <2> QED BY <2>4, <2>5, <2>6, RowsNew
<1>6. ASSUME NEW p \in Handlers, RowsAgain(p) PROVE RowsSafe'
  <2> DEFINE others == <<proc[p].id, proc[p].who>> # Asked \/ Awaited({"rows"}) # {}
  <2>1. Only(p) /\ proc'[p].todo # <<>> /\ proc'[p].op = "rows" /\ desk'.met = Meets("rows", others)
    BY <1>6 DEF RowsAgain
  <2>2. desk'.filter = desk.filter /\ desk'.page = desk.page
    BY <1>6 DEF RowsAgain, Sets, DeskFields
  <2>3. ~others => proc'[p].id = desk'.filter /\ proc'[p].who = desk'.page
    BY <1>6, <2>2 DEF RowsAgain, Asked
  <2>4. Awaited({"rows"}) # {} => others
    OBVIOUS
  <2> HIDE DEF others
  <2> QED BY <2>1, <2>3, <2>4, RowsNew
<1>7. ASSUME NEW p \in Handlers, Landed(p) PROVE RowsSafe'
  BY <1>7, RowsDone
<1>8. ASSUME NEW p \in Handlers, Opened(p) \/ Noting(p) \/ Rejecting(p) \/ Picking(p) PROVE RowsSafe'
  <2>1. Only(p) /\ p \notin Busy /\ proc'[p].op \in {"detail", "note", "bulk", "dry"}
    BY <1>8 DEF Opened, Noting, Rejecting, Picking, Fresh
  <2>2. ~RowsAwaited(p) /\ ~RowsAwaited(p)'
    BY <2>1 DEF RowsAwaited, Open, Busy
  <2>3. desk'.filter = desk.filter /\ desk'.page = desk.page /\ desk'.loaded = desk.loaded /\ ("rows" \in desk.met => "rows" \in desk'.met)
    BY <1>8 DEF Opened, Noting, Rejecting, Picking, Sets, DeskFields, leadsPage, Meets
  <2> QED BY <1>3, <2>1, <2>2, <2>3 DEF Only
<1>9. ASSUME NEW p \in Handlers, Working(p) PROVE RowsSafe'
  <2>1. desk' = desk /\ Only(p)
    BY <1>9 DEF Working, Lasts, Leaves
  <2>2. CASE proc[p].op = "rows"
    <3>1. Lasts(p) /\ proc'[p].todo # <<>>
      BY <1>9, <2>2 DEF Working
    <3>2. RowsAwaited(p) /\ RowsAwaited(p)'
      BY <2>2, <3>1 DEF Lasts, RowsAwaited, Open, Busy
    <3> QED BY <1>3, <2>1, <3>1, <3>2 DEF Lasts, Only
  <2>3. CASE proc[p].op # "rows"
    <3>1. ~RowsAwaited(p) /\ ~RowsAwaited(p)'
      BY <1>9, <2>3 DEF Working, Lasts, Leaves, RowsAwaited, Open, Idle
    <3> QED BY <1>3, <2>1, <3>1 DEF Only
  <2> QED BY <2>2, <2>3
<1>10. ASSUME NEW p \in Handlers, Lost(p) PROVE RowsSafe'
  <2>1. Only(p) /\ Sets({"data", "met"}) /\ ~RowsAwaited(p)' /\ ("rows" \in desk.met => "rows" \in desk'.met)
    BY <1>10 DEF Lost, Leaves, RowsAwaited, Open, Idle
  <2>2. desk'.filter = desk.filter /\ desk'.page = desk.page /\ desk'.loaded = desk.loaded
    BY <2>1 DEF Sets, DeskFields
  <2>3. CASE proc[p].op = "rows"
    BY <1>10, <2>3 DEF Lost, RowsSafe
  <2>4. CASE proc[p].op # "rows"
    <3>1. ~RowsAwaited(p)
      BY <2>4 DEF RowsAwaited, Open
    <3> QED BY <1>3, <2>1, <2>2, <3>1 DEF Only
  <2> QED BY <2>3, <2>4
<1>11. ASSUME NEW p \in Handlers, Detailed(p) \/ NoteSaved(p) \/ Refusing(p) \/ Streaming(p) PROVE RowsSafe'
  <2>1. Only(p) /\ ~RowsAwaited(p) /\ ~RowsAwaited(p)'
    BY <1>11 DEF Detailed, NoteSaved, Refusing, Streaming, Leaves, RowsAwaited, Open, Idle
  <2>2. desk'.filter = desk.filter /\ desk'.page = desk.page /\ desk'.loaded = desk.loaded
    BY <1>11 DEF Detailed, NoteSaved, Refusing, Streaming, Sets, DeskFields
  <2>3. "rows" \in desk.met => "rows" \in desk'.met
    BY <1>11 DEF Detailed, NoteSaved, Refusing, Streaming, Sets, DeskFields
  <2> QED BY <1>3, <2>1, <2>2, <2>3 DEF Only
<1>12. ASSUME Shutting \/ Ticking \/ Telling PROVE RowsSafe'
  <2>1. proc' = proc /\ desk'.filter = desk.filter /\ desk'.page = desk.page /\ desk'.loaded = desk.loaded /\ desk'.met = desk.met
    BY <1>12 DEF Shutting, Ticking, Telling, Sets, DeskFields
  <2>2. \A q \in Handlers : RowsAwaited(q)' <=> RowsAwaited(q)
    BY <2>1 DEF RowsAwaited, Open
  <2> QED BY <2>1, <2>2, RowsSame
<1>13. LeadsPageStep => (\E p \in Handlers : DeskDeeds(p)) \/ Shutting \/ Ticking \/ Telling
  BY <1>1, PageDoes DEF DeskReq
<1> QED BY <1>2, <1>4, <1>5, <1>6, <1>7, <1>8, <1>9, <1>10, <1>11, <1>12, <1>13, DeskRest DEF DeskDeeds

(* What the panel shows, and what is awaited for it, is of the lead open.   *)
PanelOps == {"detail", "note"}
DetailSafe == desk.lead # 0 /\ "detail" \notin desk.met =>
  /\ \A q \in Handlers : Open(q, PanelOps) => proc[q].id = desk.lead
  /\ desk.data \in {0, desk.lead} /\ desk.note \in {0, desk.lead}
LEMMA DetailSame ==
  ASSUME DetailSafe, \A q \in Handlers : Open(q, PanelOps)' => Open(q, PanelOps) /\ proc'[q].id = proc[q].id,
         desk'.lead = desk.lead, desk'.data \in {0, desk.data}, desk'.note = desk.note, "detail" \in desk.met => "detail" \in desk'.met
  PROVE  DetailSafe'
<1> SUFFICES ASSUME desk'.lead # 0, "detail" \notin desk'.met
             PROVE  /\ \A q \in Handlers : Open(q, PanelOps)' => proc'[q].id = desk'.lead
                    /\ desk'.data \in {0, desk'.lead} /\ desk'.note \in {0, desk'.lead}
  BY DEF DetailSafe
<1>1. desk.lead # 0 /\ "detail" \notin desk.met
  OBVIOUS
<1>2. \A q \in Handlers : Open(q, PanelOps) => proc[q].id = desk.lead
  BY <1>1 DEF DetailSafe
<1>3. desk.data \in {0, desk.lead} /\ desk.note \in {0, desk.lead}
  BY <1>1 DEF DetailSafe
<1> QED BY <1>2, <1>3
LEMMA DetailOne ==
  ASSUME DetailSafe, NEW p \in Handlers, Only(p), Open(p, PanelOps)' => Open(p, PanelOps) /\ proc'[p].id = proc[p].id,
         desk'.lead = desk.lead, desk'.data \in {0, desk.data}, desk'.note = desk.note, "detail" \in desk.met => "detail" \in desk'.met
  PROVE  DetailSafe'
<1>1. \A q \in Handlers : Open(q, PanelOps)' => Open(q, PanelOps) /\ proc'[q].id = proc[q].id
  BY DEF Only, Open
<1> QED BY <1>1, DetailSame
(* The answers for the lead that is open.                                  *)
LEMMA DetailAnswer ==
  ASSUME DetailSafe, NEW p \in Handlers, Only(p), Open(p, PanelOps), ~Open(p, PanelOps)',
         desk'.lead = desk.lead, desk'.data \in {0, desk.data, proc[p].id},
         desk'.note \in {desk.note, proc[p].id}, desk'.met = desk.met
  PROVE  DetailSafe'
<1> SUFFICES ASSUME desk'.lead # 0, "detail" \notin desk'.met
             PROVE  /\ \A q \in Handlers : Open(q, PanelOps)' => proc'[q].id = desk'.lead
                    /\ desk'.data \in {0, desk'.lead} /\ desk'.note \in {0, desk'.lead}
  BY DEF DetailSafe
<1>1. /\ \A q \in Handlers : Open(q, PanelOps) => proc[q].id = desk.lead
      /\ desk.data \in {0, desk.lead} /\ desk.note \in {0, desk.lead}
  BY DEF DetailSafe
<1>2. \A q \in Handlers : Open(q, PanelOps)' => Open(q, PanelOps) /\ proc'[q].id = proc[q].id
  BY DEF Only, Open
<1> QED BY <1>1, <1>2
LEMMA DetailOpened ==
  ASSUME NEW p \in Handlers, Opened(p), DOMAIN desk = DeskFields
  PROVE  DetailSafe'
<1>1. PICK l \in desk.shown : /\ Fresh(p, "detail", l, 0) /\ desk'.lead = l /\ desk'.note \in {0, l} /\ desk'.data = 0
                              /\ desk'.met = Meets("detail", Awaited({"detail", "note"}) # {})
  BY DEF Opened
<1>2. CASE Awaited({"detail", "note"}) # {}
  BY <1>1, <1>2 DEF Meets, DetailSafe
<1>3. CASE Awaited({"detail", "note"}) = {}
  <2>1. \A q \in Handlers : ~Open(q, PanelOps)
    BY <1>3, AwaitedIs DEF PanelOps
  <2>2. \A q \in Handlers \ {p} : ~Open(q, PanelOps)'
    BY <1>1, <2>1 DEF Fresh, Only, Open
  <2>3. proc'[p].id = desk'.lead
    BY <1>1 DEF Fresh
  <2> QED BY <1>1, <2>2, <2>3 DEF DetailSafe
<1> QED BY <1>2, <1>3
LEMMA DetailNoting ==
  ASSUME DetailSafe, NEW p \in Handlers, Noting(p)
  PROVE  DetailSafe'
<1>1. desk' = desk /\ Only(p) /\ proc'[p].id = desk.lead
  BY DEF Noting, leadsPage, Fresh
<1>2. \A q \in Handlers \ {p} : Open(q, PanelOps)' <=> Open(q, PanelOps)
  BY <1>1 DEF Only, Open
<1>3. \A q \in Handlers \ {p} : proc'[q].id = proc[q].id
  BY <1>1 DEF Only
<1> QED BY <1>1, <1>2, <1>3 DEF DetailSafe
LEMMA DetailNext ==
  ASSUME Core, Steady, [Next]_vars, DeskReq, DOMAIN desk = DeskFields, DetailSafe
  PROVE  DetailSafe'
<1>1. ProcInv /\ FlowInv /\ ProcInv' /\ FlowInv'
  BY CoreNext, SteadyNext DEF Core, Steady
<1>2. CASE Neighbourly
  <2>1. ASSUME NEW q \in Handlers, Open(q, PanelOps)' PROVE Open(q, PanelOps) /\ proc'[q].id = proc[q].id
    <3>1. proc'[q].todo # <<>> /\ proc'[q].op \in DeskOps
      BY <2>1 DEF Open, PanelOps, DeskOps
    <3>2. proc'[q] = proc[q]
      BY <1>1, <1>2, <3>1, OpsDeskNext, DeskBeside DEF Neighbourly
    <3> QED BY <2>1, <3>2 DEF Open
  <2>2. /\ desk'.lead = desk.lead /\ desk'.data = desk.data /\ desk'.note = desk.note
        /\ "detail" \in desk.met => "detail" \in desk'.met
    BY <1>2 DEF Neighbourly, Meanwhile, DeskFields
  <2> QED BY <2>1, <2>2, DetailSame
<1>3. ASSUME NEW p \in Handlers,
             \/ AskedRows(p) \/ StreamEnded(p) \/ Rejecting(p) \/ Picking(p) \/ Landed(p) \/ Lost(p) \/ RowsAgain(p)
             \/ Refusing(p) \/ Streaming(p) \/ Working(p)
      PROVE  DetailSafe'
  <2>1. Only(p)
    BY <1>3 DEF AskedRows, StreamEnded, Rejecting, Picking, Landed, Lost, RowsAgain, Refusing, Streaming, Working, Fresh, Leaves, Lasts
  <2>2. ASSUME Open(p, PanelOps)' PROVE Open(p, PanelOps) /\ proc'[p].id = proc[p].id
    <3>1. proc'[p].todo # <<>> /\ proc'[p].op \in {"detail", "note"}
      BY <2>2 DEF Open, PanelOps
    <3>2. Lasts(p)
      BY <1>3, <3>1 DEF AskedRows, StreamEnded, Rejecting, Picking, Landed, Lost, RowsAgain, Refusing, Streaming, Working,
         Fresh, Leaves, Idle
    <3> QED BY <2>2, <3>2 DEF Lasts, Open, Busy
  <2>3. desk'.lead = desk.lead /\ desk'.data \in {0, desk.data} /\ desk'.note = desk.note
    BY <1>3 DEF AskedRows, StreamEnded, Rejecting, Picking, Landed, Lost, RowsAgain, Refusing, Streaming, Working,
       Sets, DeskFields, leadsPage
  <2>4. "detail" \in desk.met => "detail" \in desk'.met
    BY <1>3 DEF AskedRows, StreamEnded, Rejecting, Picking, Landed, Lost, RowsAgain, Refusing, Streaming, Working,
       Sets, DeskFields, leadsPage, Meets
  <2> QED BY <2>1, <2>2, <2>3, <2>4, DetailOne
<1>4. ASSUME NEW p \in Handlers, Detailed(p) \/ NoteSaved(p) PROVE DetailSafe'
  <2>1. Only(p) /\ Open(p, PanelOps) /\ ~Open(p, PanelOps)'
    BY <1>4 DEF Detailed, NoteSaved, Leaves, Open, PanelOps, Busy, Idle
  <2>2. desk'.lead = desk.lead /\ desk'.data \in {0, desk.data, proc[p].id} /\ desk'.note \in {desk.note, proc[p].id} /\ desk'.met = desk.met
    BY <1>4 DEF Detailed, NoteSaved, Sets, DeskFields
  <2> QED BY <2>1, <2>2, DetailAnswer
<1>5. CASE Shutting
  BY <1>5 DEF Shutting, DetailSafe
<1>6. CASE Ticking \/ Telling
  <2>1. proc' = proc /\ desk'.lead = desk.lead /\ desk'.data = desk.data /\ desk'.note = desk.note /\ desk'.met = desk.met
    BY <1>6 DEF Ticking, Telling, Sets, DeskFields
  <2>2. \A q \in Handlers : Open(q, PanelOps)' => Open(q, PanelOps) /\ proc'[q].id = proc[q].id
    BY <2>1 DEF Open
  <2> QED BY <2>1, <2>2, DetailSame
<1>7. LeadsPageStep => (\E p \in Handlers : DeskDeeds(p)) \/ Shutting \/ Ticking \/ Telling
  BY <1>1, PageDoes DEF DeskReq
<1> QED BY <1>2, <1>3, <1>4, <1>5, <1>6, <1>7, DetailOpened, DetailNoting, DeskRest DEF DeskDeeds

(* The numbers requests and batches are known by                           *)

Loading(q) == "load" \in Ahead(q)
Dry(q) == Open(q, {"dry"})
ToLoad(q) == Loading(q) \/ Dry(q)
Numbered(q) == Has(proc[q], "desk") \/ Loading(q)
OldNo(q) == Numbered(q)' => Numbered(q) /\ proc'[q].no = proc[q].no
NewNo(q) == proc'[q].no = 0 \/ (proc'[q].no = calls + 1 /\ calls' = calls + 1)
OldLoad(q) == ToLoad(q)' => ToLoad(q) /\ proc'[q].no = proc[q].no /\ proc'[q].marks = proc[q].marks
NewLoad(q) == proc'[q].no = calls + 1 /\ calls' = calls + 1
LoadKept(q) == Loading(q)' => Loading(q) /\ proc'[q].no = proc[q].no /\ proc'[q].marks = proc[q].marks
Numbers == \A q \in Handlers : Numbered(q) => proc[q].no \in 0..calls
NumbersApart == \A q, r \in Handlers : q # r /\ Numbered(q) /\ Numbered(r) /\ proc[q].no = proc[r].no => proc[q].no = 0
Unloaded == \A q \in Handlers : ToLoad(q) => proc[q].no # 0 /\ \A b \in DOMAIN batches : batches[b].of # proc[q].no
BatchNumbers == \A b \in DOMAIN batches : batches[b].of \in 1..calls /\ batches[b].told \subseteq batches[b].loaded
BatchesApart == \A b, c \in DOMAIN batches : batches[b].of = batches[c].of => b = c
NumSafe == Numbers /\ NumbersApart /\ Unloaded /\ BatchNumbers /\ BatchesApart
LEMMA NoLoad == ASSUME ProcInv, FlowInv, NEW q \in Handlers, Loading(q) PROVE proc[q].op \notin DeskOps
<1>1. proc[q].todo # <<>> /\ "load" \in OtherWords /\ Kind("load") = "retry"
  BY BusyIs, RetryKin, RetryIn DEF Loading
<1>2. Away(proc[q]) /\ \E k \in Kinds : Clanned(proc[q], k)
  <2>1. ~(proc[q].op \in AccountOps /\ Inside(proc[q]))
    BY <1>1, InsideHas, KindsAre DEF Loading, Has, Ahead
  <2> QED BY <1>1, <2>1 DEF ProcInv, FlowInv, Inside
<1>3. PICK k \in Kinds : Clanned(proc[q], k)
  BY <1>2
<1>4. "load" \in Kin(k)
  BY <1>3, WordsOf DEF Clanned, Loading, Ahead
<1>5. k = "retry"
  BY <1>1, <1>4 DEF Kin
<1> QED BY <1>3, <1>5, RetryOps DEF Clanned, DeskOps
LEMMA NoLoadNext == ProcInv' /\ FlowInv' => \A q \in Handlers : Loading(q)' => proc'[q].op \notin DeskOps
<1> DEFINE I == ProcInv /\ FlowInv => \A q \in Handlers : Loading(q) => proc[q].op \notin DeskOps
<1>1. I
  BY NoLoad
<1>2. I'
  BY <1>1, PTL
<1> QED BY <1>2
LEMMA DryDesk == ASSUME ProcInv, FlowInv, NEW q \in Handlers, Dry(q) PROVE Has(proc[q], "desk") /\ Numbered(q) /\ ~Loading(q)
<1>1. proc[q].todo # <<>> /\ proc[q].op \in DeskOps
  BY DEF Dry, Open, DeskOps
<1> QED BY <1>1, OpsDesk, NoLoad DEF Numbered
LEMMA DryDeskNext == ProcInv' /\ FlowInv' => \A q \in Handlers : Dry(q)' => Has(proc'[q], "desk") /\ Numbered(q)' /\ ~Loading(q)'
<1> DEFINE I == ProcInv /\ FlowInv => \A q \in Handlers : Dry(q) => Has(proc[q], "desk") /\ Numbered(q) /\ ~Loading(q)
<1>1. I
  BY DryDesk
<1>2. I'
  BY <1>1, PTL
<1> QED BY <1>2
LEMMA ToLoadNumbered == ProcInv' /\ FlowInv' => \A q \in Handlers : ToLoad(q)' => Numbered(q)'
  BY DryDeskNext DEF ToLoad, Numbered
LEMMA SameNumbers == ASSUME NEW q, proc'[q] = proc[q] PROVE OldNo(q) /\ OldLoad(q)
  BY DEF OldNo, OldLoad, Numbered, ToLoad, Loading, Dry, Open, Ahead, Has
LEMMA BesideNumbers ==
  ASSUME ProcInv, FlowInv, ProcInv', FlowInv', Beside("desk"), NEW q \in Handlers
  PROVE  /\ LoadKept(q) => OldNo(q) /\ OldLoad(q)
         /\ NewLoad(q) => NewNo(q)
<1>1. Has(proc'[q], "desk") => proc'[q] = proc[q]
  BY DeskBeside
<1>2. Dry(q)' => Has(proc'[q], "desk")
  BY DryDeskNext
<1>3. CASE Has(proc'[q], "desk")
  BY <1>1, <1>3, SameNumbers DEF NewLoad, NewNo
<1>4. CASE ~Has(proc'[q], "desk")
  BY <1>2, <1>4 DEF LoadKept, OldNo, OldLoad, Numbered, ToLoad, NewLoad, NewNo
<1> QED BY <1>3, <1>4
(* The numbers are kept apart by a step that counts what it asks for.      *)
LEMMA NumGo ==
  ASSUME NumSafe, ProcInv', FlowInv', calls \in Nat, calls' \in {calls, calls + 1}, NEW p,
         \A q \in Handlers \ {p} : OldNo(q) /\ OldLoad(q), OldNo(p) \/ NewNo(p), OldLoad(p) \/ NewLoad(p), Rebooked
  PROVE  NumSafe'
<1>1. ASSUME NEW q \in Handlers, Numbered(q)'
      PROVE  (Numbered(q) /\ proc'[q].no = proc[q].no) \/ (q = p /\ (proc'[q].no = 0 \/ (proc'[q].no = calls + 1 /\ calls' = calls + 1)))
  BY <1>1 DEF OldNo, NewNo
<1>2. ASSUME NEW q \in Handlers, Numbered(q) PROVE proc[q].no \in 0..calls
  BY <1>2 DEF NumSafe, Numbers
<1>3. Numbers'
  <2> SUFFICES ASSUME NEW q \in Handlers, Numbered(q)' PROVE proc'[q].no \in 0..calls'
    BY DEF Numbers
  <2> QED BY <1>1, <1>2
<1>4. NumbersApart'
  <2> SUFFICES ASSUME NEW q \in Handlers, NEW r \in Handlers, q # r, Numbered(q)', Numbered(r)', proc'[q].no = proc'[r].no
               PROVE  proc'[q].no = 0
    BY DEF NumbersApart
  <2>1. CASE q # p /\ r # p
    <3>1. Numbered(q) /\ Numbered(r) /\ proc[q].no = proc[r].no /\ proc'[q].no = proc[q].no
      BY <1>1, <2>1
    <3> QED BY <3>1 DEF NumSafe, NumbersApart
  <2>2. CASE q = p \/ r = p
    <3>1. CASE Numbered(q) /\ Numbered(r) /\ proc[q].no = proc[r].no /\ proc'[q].no = proc[q].no
      BY <3>1 DEF NumSafe, NumbersApart
    <3>2. proc'[q].no # calls + 1
      <4>1. PICK x \in {q, r} : x # p
        OBVIOUS
      <4>2. x \in Handlers /\ Numbered(x)' /\ proc'[x].no = proc'[q].no
        BY <4>1
      <4>3. Numbered(x) /\ proc'[x].no = proc[x].no
        BY <1>1, <4>1, <4>2
      <4>4. proc[x].no \in 0..calls
        BY <1>2, <4>2, <4>3
      <4> QED BY <4>2, <4>3, <4>4
    <3> QED BY <1>1, <2>2, <3>1, <3>2
  <2> QED BY <2>1, <2>2
<1>5. \A b \in DOMAIN batches' : b \in DOMAIN batches /\ batches'[b].of = batches[b].of /\ batches'[b].loaded = batches[b].loaded
  BY DEF Rebooked
<1>6. BatchNumbers' /\ BatchesApart'
  <2>1. ASSUME NEW b \in DOMAIN batches' PROVE batches'[b].of \in 1..calls' /\ batches'[b].told \subseteq batches'[b].loaded
    <3>1. batches[b].of \in 1..calls /\ batches[b].told \subseteq batches[b].loaded
      BY <1>5, <2>1 DEF NumSafe, BatchNumbers
    <3>2. batches'[b].told \subseteq batches[b].told \cup batches[b].loaded
      BY <1>5, <2>1 DEF Rebooked
    <3> QED BY <1>5, <2>1, <3>1, <3>2
  <2> QED BY <1>5, <2>1 DEF BatchNumbers, BatchesApart, NumSafe
<1>7. Unloaded'
  <2> SUFFICES ASSUME NEW q \in Handlers, ToLoad(q)' PROVE proc'[q].no # 0 /\ \A b \in DOMAIN batches' : batches'[b].of # proc'[q].no
    BY DEF Unloaded
  <2>1. CASE OldLoad(q)
    BY <1>5, <2>1 DEF OldLoad, NumSafe, Unloaded
  <2>2. CASE proc'[q].no = calls + 1
    <3>1. \A b \in DOMAIN batches : batches[b].of \in 1..calls
      BY DEF NumSafe, BatchNumbers
    <3> QED BY <1>5, <2>2, <3>1
  <2> QED BY <2>1, <2>2 DEF NewLoad
<1> QED BY <1>3, <1>4, <1>6, <1>7 DEF NumSafe
(* And by one that loads a batch.                                          *)
LEMMA NumLoads ==
  ASSUME NumSafe, ProcInv, FlowInv, ProcInv', FlowInv', Beside("desk"), calls \in Nat, NEW p \in Handlers, Loads(p)
  PROVE  NumSafe'
<1>1. \A q \in Handlers \ {p} : OldNo(q) /\ OldLoad(q)
  BY SameNumbers DEF Loads, Only
<1>2. ~Numbered(p)' /\ ~ToLoad(p)' /\ ToLoad(p)
  <2>1. ~Has(proc'[p], "desk")
    <3>1. ASSUME Has(proc'[p], "desk") PROVE FALSE
      <4>1. proc'[p] = proc[p]
        BY <3>1, DeskBeside
      <4> QED BY <4>1 DEF Loads, Loading, Ahead
    <3> QED BY <3>1
  <2> QED BY <2>1, DryDeskNext DEF Loads, Loading, Numbered, ToLoad
<1>3. \A q \in Handlers : (Numbered(q)' => Numbered(q) /\ proc'[q].no = proc[q].no) /\ (ToLoad(q)' => q # p /\ ToLoad(q) /\ proc'[q].no = proc[q].no)
  BY <1>1, <1>2 DEF OldNo, OldLoad
<1>4. Numbers' /\ NumbersApart'
  BY <1>3 DEF NumSafe, Numbers, NumbersApart, Loads
<1>5. PICK s : /\ DOMAIN batches' = DOMAIN batches \cup {s} /\ s \notin DOMAIN batches
               /\ \A b \in DOMAIN batches : batches'[b] = batches[b]
               /\ batches'[s].of = proc[p].no /\ batches'[s].told = {}
  BY DEF Loads
<1>6. proc[p].no \in 1..calls /\ \A b \in DOMAIN batches : batches[b].of # proc[p].no
  <2>1. proc[p].no # 0 /\ \A b \in DOMAIN batches : batches[b].of # proc[p].no
    BY <1>2 DEF NumSafe, Unloaded
  <2>2. proc[p].no \in 0..calls
    BY DEF NumSafe, Numbers, Numbered, Loading, Loads
  <2> QED BY <2>1, <2>2
<1>7. BatchNumbers'
  BY <1>5, <1>6 DEF NumSafe, BatchNumbers, Loads
<1>8. BatchesApart'
  BY <1>5, <1>6 DEF NumSafe, BatchesApart
<1>9. Unloaded'
  <2> SUFFICES ASSUME NEW q \in Handlers, ToLoad(q)' PROVE proc'[q].no # 0 /\ \A b \in DOMAIN batches' : batches'[b].of # proc'[q].no
    BY DEF Unloaded
  <2>1. q # p /\ ToLoad(q) /\ proc'[q].no = proc[q].no
    BY <1>3
  <2>2. proc[q].no # 0 /\ \A b \in DOMAIN batches : batches[b].of # proc[q].no
    BY <2>1 DEF NumSafe, Unloaded
  <2>3. proc[q].no # proc[p].no
    <3>1. Numbered(q) /\ Numbered(p)
      BY <2>1, DryDesk DEF ToLoad, Loading, Numbered, Loads
    <3> QED BY <2>1, <2>2, <3>1 DEF NumSafe, NumbersApart
  <2> QED BY <1>5, <2>1, <2>2, <2>3
<1> QED BY <1>4, <1>7, <1>8, <1>9 DEF NumSafe

(* What the steps do to the numbers.                                       *)
LEMMA BookDoes ==
  ASSUME ProcInv, FlowInv, BookSafe, BookStep
  PROVE  \/ \E p \in Handlers : Only(p) /\ NewLoad(p) /\ batches' = batches
         \/ \E p \in Handlers : Loads(p)
         \/ \E p \in Handlers : Retold(p)
         \/ proc' = proc /\ Rebooked
<1>1. ASSUME NEW p \in Handlers, Retry(p) PROVE Only(p) /\ NewLoad(p) /\ batches' = batches
  BY <1>1, RetryMove DEF book, NewLoad
<1>2. ASSUME LoadQueue \/ SendMail \/ MarkSent PROVE proc' = proc /\ Rebooked
  <2>1. proc' = proc /\ batches' = batches
    BY <1>2 DEF LoadQueue, SendMail, MarkSent, requests
  <2> QED BY <2>1, SameRebooked
<1> QED BY <1>1, <1>2, RetryWorkLoad, RetryWorkNext, RetryWorkMail, RetryWorkCall, RetryWorkLead, RetryWorkRewrite, CloseSafe DEF BookStep
LEMMA DeskNumbers ==
  ASSUME ProcInv, FlowInv, ProcInv', FlowInv', DeskReq, NEW p \in Handlers, DeskDeeds(p)
  PROVE  Only(p) /\ (OldNo(p) \/ NewNo(p)) /\ (OldLoad(p) \/ NewLoad(p))
<1>1. ASSUME proc'[p] = Idle PROVE OldNo(p) /\ OldLoad(p)
  <2>1. ~Numbered(p)' /\ ~ToLoad(p)'
    <3>1. ~Has(proc'[p], "desk")
      BY <1>1, NothingAhead, KindsAre
    <3>2. Ahead(p)' = {} /\ proc'[p].todo = <<>>
      BY <1>1, OrderedShort DEF Ahead, Idle
    <3> QED BY <3>1, <3>2 DEF Numbered, ToLoad, Loading, Dry, Open
  <2> QED BY <2>1 DEF OldNo, OldLoad
<1>2. ASSUME proc'[p].op \in DeskOps PROVE ~Loading(p)'
  BY <1>2, NoLoadNext
<1>3. ASSUME proc'[p].op \in {"rows", "detail", "note", "bulk"} PROVE OldLoad(p)
  <2>1. proc'[p].op \in DeskOps /\ ~Dry(p)'
    BY <1>3 DEF DeskOps, Dry, Open
  <2> QED BY <1>2, <2>1 DEF OldLoad, ToLoad
<1>4. CASE AskedRows(p) \/ Opened(p) \/ Noting(p) \/ Rejecting(p)
  <2>1. Only(p) /\ NewNo(p) /\ proc'[p].op \in {"rows", "detail", "note", "bulk"}
    BY <1>4 DEF AskedRows, Opened, Noting, Rejecting, Fresh, NewNo
  <2> QED BY <1>3, <2>1
<1>5. CASE StreamEnded(p)
  <2>1. Only(p) /\ NewNo(p) /\ proc'[p].op \in {"rows", "detail", "note", "bulk"}
    BY <1>5 DEF StreamEnded, Fresh, NewNo
  <2> QED BY <1>3, <2>1
<1>6. CASE Picking(p)
  BY <1>6 DEF Picking, NewNo, NewLoad
<1>7. CASE Landed(p) \/ Lost(p) \/ Detailed(p) \/ NoteSaved(p) \/ Refusing(p)
  <2>1. Only(p) /\ proc'[p] = Idle
    BY <1>7 DEF Landed, Lost, Detailed, NoteSaved, Refusing, Leaves
  <2> QED BY <1>1, <2>1
<1>8. CASE RowsAgain(p)
  <2>1. Only(p) /\ proc'[p].op \in {"rows", "detail", "note", "bulk"} /\ Numbered(p) /\ proc'[p].no = proc[p].no
    BY <1>8 DEF RowsAgain, Numbered
  <2> QED BY <1>3, <2>1 DEF OldNo
<1>9. CASE Streaming(p)
  <2>1. /\ Only(p) /\ Numbered(p) /\ proc'[p].no = proc[p].no /\ proc'[p].marks = proc[p].marks /\ ToLoad(p)
    BY <1>9 DEF Streaming, Numbered, ToLoad, Dry, Open, Busy
  <2> QED BY <2>1 DEF OldNo, OldLoad
<1>10. CASE Working(p)
  <2>1. CASE Leaves(p)
    BY <1>1, <2>1 DEF Leaves
  <2>2. CASE Lasts(p)
    <3>1. Only(p) /\ Has(proc[p], "desk") /\ proc'[p].no = proc[p].no /\ proc'[p].op = proc[p].op /\ p \in Busy
      BY <1>10, <2>2 DEF Working, Lasts
    <3>2. OldNo(p)
      BY <3>1 DEF OldNo, Numbered
    <3>3. ~Loading(p)'
      BY <1>2, <3>1 DEF DeskReq, DeskOK
    <3>4. Dry(p)' => Dry(p) /\ proc'[p].marks = proc[p].marks
      BY <1>10, <2>2, <3>1 DEF Working, Dry, Open, Busy
    <3> QED BY <3>1, <3>2, <3>3, <3>4 DEF OldLoad, ToLoad
  <2> QED BY <1>10, <2>1, <2>2 DEF Working
<1> QED BY <1>4, <1>5, <1>6, <1>7, <1>8, <1>9, <1>10 DEF DeskDeeds
LEMMA StepBooks ==
  ASSUME Core, Steady, [Next]_vars
  PROVE  \/ LeadsPageStep /\ batches' = batches
         \/ Neighbourly /\ BookStep
         \/ Neighbourly /\ batches' = batches /\ \A q \in Handlers : LoadKept(q)
<1>1. ProcInv /\ FlowInv
  BY DEF Core, Steady
<1>2. LeadsPageStep => batches' = batches
  BY DeskStays DEF BesideDesk
<1>3. BookStep \/ (\E p \in Handlers : Confirmed(p)) \/ (Beside("retry") /\ batches' = batches)
  BY StepKept DEF EachKept, BookKept
<1>4. (\E p \in Handlers : Confirmed(p)) => LeadsPageStep
  BY DEF LeadsPageStep
<1>5. ASSUME Beside("retry"), NEW q \in Handlers PROVE LoadKept(q)
  <2> SUFFICES ASSUME Loading(q)' PROVE Loading(q) /\ proc'[q].no = proc[q].no /\ proc'[q].marks = proc[q].marks
    BY DEF LoadKept
  <2>1. Kind("load") = "retry"
    BY RetryKin, RetryIn
  <2>2. Has(proc'[q], "retry")
    BY <2>1 DEF Loading, Has, Ahead
  <2>3. Intact(q, "retry")
    BY <1>1, <1>5, <2>2, KindsAre, BesideAlike
  <2> QED BY <2>1, <2>3, AllFields DEF Intact, Loading
<1> QED BY <1>2, <1>3, <1>4, <1>5, DeskRest
LEMMA NumNext ==
  ASSUME Core, Steady, [Next]_vars, DeskReq, DOMAIN desk = DeskFields, NumSafe
  PROVE  NumSafe'
<1>1. ProcInv /\ FlowInv /\ ProcInv' /\ FlowInv' /\ BookSafe
  BY CoreNext, SteadyNext DEF Core, Steady
<1>2. calls \in Nat /\ calls' \in {calls, calls + 1}
  <2>1. calls \in Nat
    BY DEF Core, RefInv, RowInv
  <2> QED BY <2>1, <1>1, AllCounted DEF Counted
<1>3. \A q \in Handlers : proc'[q] = proc[q] => OldNo(q) /\ OldLoad(q)
  BY SameNumbers
<1>4. CASE Neighbourly /\ BookStep
  <2>1. \A q \in Handlers : (LoadKept(q) => OldNo(q) /\ OldLoad(q)) /\ (NewLoad(q) => NewNo(q))
    BY <1>1, <1>4, BesideNumbers DEF Neighbourly
  <2>2. ASSUME NEW p \in Handlers, Only(p) /\ NewLoad(p) /\ batches' = batches PROVE NumSafe'
    <3>1. \A q \in Handlers \ {p} : OldNo(q) /\ OldLoad(q)
      BY <1>3, <2>2 DEF Only
    <3> QED BY <1>1, <1>2, <2>1, <2>2, <3>1, NumGo, SameRebooked
  <2>3. ASSUME NEW p \in Handlers, Loads(p) PROVE NumSafe'
    BY <1>1, <1>2, <1>4, <2>3, NumLoads DEF Neighbourly
  <2>4. ASSUME NEW p \in Handlers, Retold(p) PROVE NumSafe'
    <3>1. \A q \in Handlers \ {p} : OldNo(q) /\ OldLoad(q)
      BY <1>3, <2>4 DEF Only, Retold
    <3>2. LoadKept(p)
      BY <2>4 DEF Retold, LoadKept, Loading
    <3> QED BY <1>1, <1>2, <2>1, <2>4, <3>1, <3>2, NumGo DEF Retold
  <2>5. ASSUME proc' = proc /\ Rebooked PROVE NumSafe'
    <3>1. \A q \in Handlers : OldNo(q) /\ OldLoad(q)
      BY <1>3, <2>5
    <3>2. OldNo(0) /\ OldLoad(0)
      BY <2>5, SameNumbers
    <3> QED BY <1>1, <1>2, <2>5, <3>1, <3>2, NumGo
  <2> QED BY <1>1, <1>4, <2>2, <2>3, <2>4, <2>5, BookDoes
<1>5. ASSUME \A q \in Handlers : OldNo(q) /\ OldLoad(q), batches' = batches, NEW p \in Handlers PROVE NumSafe'
  <2>1. Rebooked
    BY <1>5, SameRebooked
  <2> QED BY <1>1, <1>2, <1>5, <2>1, NumGo
<1>6. ASSUME batches' = batches, Handlers = {} PROVE NumSafe'
  BY <1>1, <1>2, <1>6 DEF NumSafe, Numbers, NumbersApart, Unloaded, BatchNumbers, BatchesApart
<1>7. CASE Neighbourly /\ batches' = batches /\ \A q \in Handlers : LoadKept(q)
  <2>1. \A q \in Handlers : OldNo(q) /\ OldLoad(q)
    BY <1>1, <1>7, BesideNumbers DEF Neighbourly
  <2> QED BY <1>5, <1>6, <1>7, <2>1
<1>8. ASSUME batches' = batches, NEW p \in Handlers, DeskDeeds(p) PROVE NumSafe'
  <2>1. Only(p) /\ (OldNo(p) \/ NewNo(p)) /\ (OldLoad(p) \/ NewLoad(p))
    BY <1>1, <1>8, DeskNumbers
  <2>2. \A q \in Handlers \ {p} : OldNo(q) /\ OldLoad(q)
    BY <1>3, <2>1 DEF Only
  <2>3. Rebooked
    BY <1>8, SameRebooked
  <2> QED BY <1>1, <1>2, <2>1, <2>2, <2>3, NumGo
<1>9. CASE LeadsPageStep /\ batches' = batches
  <2>1. (\E p \in Handlers : DeskDeeds(p)) \/ proc' = proc
    BY <1>1, <1>9, PageDoes DEF DeskReq, Shutting, Ticking, Telling
  <2>2. proc' = proc => \A q \in Handlers : OldNo(q) /\ OldLoad(q)
    BY <1>3
  <2> QED BY <1>5, <1>6, <1>8, <1>9, <2>1, <2>2
<1> QED BY <1>4, <1>7, <1>9, StepBooks

(* The streams of the bulk retries, and the marks and batches of each.     *)
FitsIn(S, n) == IsFiniteSet(S) /\ Cardinality(S) <= n
Booked(k, n) ==
  /\ \A q \in Handlers : Loading(q) /\ proc[q].no = k => FitsIn(proc[q].marks, n)
  /\ \A b \in DOMAIN batches : batches[b].of = k => FitsIn(batches[b].loaded, n)
LEMMA FitsInSub == ASSUME NEW S, NEW T \in SUBSET S, NEW n \in Nat, FitsIn(S, n) PROVE FitsIn(T, n)
<1>1. IsFiniteSet(T) /\ Cardinality(T) <= Cardinality(S)
  BY FS_Subset DEF FitsIn
<1>2. Cardinality(T) \in Nat /\ Cardinality(S) \in Nat
  BY <1>1, FS_CardinalityType DEF FitsIn
<1> QED BY <1>1, <1>2 DEF FitsIn
LEMMA BookedKept ==
  ASSUME NEW k, NEW n, Booked(k, n), \A q \in Handlers : LoadKept(q) \/ ~Loading(q)' \/ proc'[q].no # k,
         \A b \in DOMAIN batches' : b \in DOMAIN batches /\ batches'[b].of = batches[b].of /\ batches'[b].loaded = batches[b].loaded
  PROVE  Booked(k, n)'
<1>1. ASSUME NEW q \in Handlers, Loading(q)', proc'[q].no = k PROVE FitsIn(proc'[q].marks, n)
  BY <1>1 DEF Booked, LoadKept
<1>2. ASSUME NEW b \in DOMAIN batches', batches'[b].of = k PROVE FitsIn(batches'[b].loaded, n)
  BY <1>2 DEF Booked
<1> QED BY <1>1, <1>2 DEF Booked, FitsIn
LEMMA BookedLoads ==
  ASSUME NEW k, NEW n \in Nat, Booked(k, n), NEW p \in Handlers, Loads(p)
  PROVE  Booked(k, n)'
<1>1. \A q \in Handlers : Loading(q)' => q # p /\ Loading(q) /\ proc'[q] = proc[q]
  BY DEF Loads, Only, Loading, Ahead
<1>2. ASSUME NEW q \in Handlers, Loading(q)', proc'[q].no = k PROVE FitsIn(proc'[q].marks, n)
  BY <1>1, <1>2 DEF Booked
<1>3. PICK s : /\ DOMAIN batches' = DOMAIN batches \cup {s}
               /\ \A b \in DOMAIN batches : batches'[b] = batches[b]
               /\ batches'[s].of = proc[p].no /\ batches'[s].loaded \subseteq proc[p].marks /\ s \notin DOMAIN batches
  BY DEF Loads
<1>4. ASSUME NEW b \in DOMAIN batches', batches'[b].of = k PROVE FitsIn(batches'[b].loaded, n)
  <2>1. CASE b \in DOMAIN batches
    BY <1>3, <1>4, <2>1 DEF Booked
  <2>2. CASE b = s
    <3>1. FitsIn(proc[p].marks, n)
      BY <1>3, <1>4, <2>2 DEF Booked, Loads, Loading
    <3> QED BY <1>3, <2>2, <3>1, FitsInSub
  <2> QED BY <1>3, <2>1, <2>2
<1> QED BY <1>2, <1>4 DEF Booked, FitsIn
(* What p does on the page loads nothing, but for the stream it begins.    *)
LEMMA DeskLoads ==
  ASSUME ProcInv, FlowInv, ProcInv', FlowInv', DeskReq, NEW p \in Handlers, DeskDeeds(p), ~Streaming(p)
  PROVE  Only(p) /\ ~Loading(p)'
<1>1. ASSUME proc'[p] = Idle PROVE ~Loading(p)'
  <2>1. Ahead(p)' = {}
    BY <1>1, OrderedShort DEF Ahead, Idle
  <2> QED BY <2>1 DEF Loading
<1>2. ASSUME proc'[p].op \in {"rows", "detail", "note", "bulk", "dry"} PROVE ~Loading(p)'
  BY <1>2, NoLoadNext DEF DeskOps
<1>3. CASE AskedRows(p) \/ Opened(p) \/ Noting(p) \/ Rejecting(p) \/ StreamEnded(p) \/ Picking(p) \/ RowsAgain(p)
  <2>1. Only(p) /\ proc'[p].op \in {"rows", "detail", "note", "bulk", "dry"}
    BY <1>3 DEF AskedRows, Opened, Noting, Rejecting, StreamEnded, Picking, RowsAgain, Fresh
  <2> QED BY <1>2, <2>1
<1>4. CASE Landed(p) \/ Lost(p) \/ Detailed(p) \/ NoteSaved(p) \/ Refusing(p)
  <2>1. Only(p) /\ proc'[p] = Idle
    BY <1>4 DEF Landed, Lost, Detailed, NoteSaved, Refusing, Leaves
  <2> QED BY <1>1, <2>1
<1>5. CASE Working(p)
  <2>1. CASE Leaves(p)
    BY <1>1, <2>1 DEF Leaves
  <2>2. CASE Lasts(p)
    <3>1. Only(p) /\ Has(proc[p], "desk") /\ proc'[p].op = proc[p].op
      BY <1>5, <2>2 DEF Working, Lasts
    <3>2. proc[p].op \in {"rows", "detail", "note", "bulk", "dry"}
      BY <3>1 DEF DeskReq, DeskOK, DeskOps
    <3> QED BY <1>2, <3>1, <3>2
  <2> QED BY <1>5, <2>1, <2>2 DEF Working
<1> QED BY <1>3, <1>4, <1>5 DEF DeskDeeds
LEMMA BooksKept ==
  ASSUME Core, Steady, [Next]_vars, DeskReq, DOMAIN desk = DeskFields, ~\E p \in Handlers : Streaming(p),
         NEW k \in 1..calls, NEW n \in Nat, Booked(k, n)
  PROVE  Booked(k, n)'
<1>1. ProcInv /\ FlowInv /\ ProcInv' /\ FlowInv' /\ BookSafe
  BY CoreNext, SteadyNext DEF Core, Steady
<1>2. \A q \in Handlers : proc'[q] = proc[q] => LoadKept(q)
  BY DEF LoadKept, Loading, Ahead
<1>3. batches' = batches => \A b \in DOMAIN batches' : b \in DOMAIN batches /\ batches'[b].of = batches[b].of /\ batches'[b].loaded = batches[b].loaded
  OBVIOUS
<1>4. Rebooked => \A b \in DOMAIN batches' : b \in DOMAIN batches /\ batches'[b].of = batches[b].of /\ batches'[b].loaded = batches[b].loaded
  BY DEF Rebooked
<1>5. CASE Neighbourly /\ BookStep
  <2>1. ASSUME NEW p \in Handlers, Only(p) /\ NewLoad(p) /\ batches' = batches PROVE Booked(k, n)'
    <3>1. proc'[p].no # k
      <4>1. calls \in Nat
        BY DEF Core, RefInv, RowInv
      <4> QED BY <2>1, <4>1 DEF NewLoad
    <3>2. \A q \in Handlers : LoadKept(q) \/ ~Loading(q)' \/ proc'[q].no # k
      BY <1>2, <2>1, <3>1 DEF Only
    <3> QED BY <1>3, <2>1, <3>2, BookedKept
  <2>2. ASSUME NEW p \in Handlers, Retold(p) PROVE Booked(k, n)'
    <3>1. \A q \in Handlers : LoadKept(q) \/ ~Loading(q)' \/ proc'[q].no # k
      BY <1>2, <2>2 DEF Only, Retold, Loading
    <3> QED BY <1>4, <2>2, <3>1, BookedKept DEF Retold
  <2>3. ASSUME proc' = proc /\ Rebooked PROVE Booked(k, n)'
    BY <1>2, <1>4, <2>3, BookedKept
  <2> QED BY <1>1, <1>5, <2>1, <2>2, <2>3, BookDoes, BookedLoads
<1>6. CASE Neighbourly /\ batches' = batches /\ \A q \in Handlers : LoadKept(q)
  BY <1>3, <1>6, BookedKept
<1>7. CASE LeadsPageStep /\ batches' = batches
  <2>1. ASSUME NEW p \in Handlers, DeskDeeds(p) PROVE Booked(k, n)'
    <3>1. Only(p) /\ ~Loading(p)'
      BY <1>1, <2>1, DeskLoads
    <3>2. \A q \in Handlers : LoadKept(q) \/ ~Loading(q)' \/ proc'[q].no # k
      BY <1>2, <3>1 DEF Only
    <3> QED BY <1>3, <1>7, <3>2, BookedKept
  <2>2. ASSUME proc' = proc PROVE Booked(k, n)'
    BY <1>2, <1>3, <1>7, <2>2, BookedKept
  <2> QED BY <1>1, <1>7, <2>1, <2>2, PageDoes DEF DeskReq, Shutting, Ticking, Telling
<1> QED BY <1>5, <1>6, <1>7, StepBooks
StreamRows == \A s \in streams :
  DOMAIN s = {"no", "asked", "on", "read"} /\ s.no \in 1..calls /\ s.on \in BOOLEAN /\ s.read \in Nat /\ (~s.on => s.read = 0)
\* A request to retry has an off stream of its own.
Offered(k) == (\E s \in streams : s.no = k) /\ \A s \in streams : s.no = k => ~s.on
DryOffered == \A q \in Handlers : Dry(q) => proc[q].marks # {} /\ Offered(proc[q].no)
\* The one stream that is on is what the progress counts.
StreamFits(s) ==
  /\ DOMAIN desk.retry = {"total", "done"} /\ desk.retry.total \in Nat \ {0}
  /\ desk.retry.done = s.read /\ s.read <= desk.retry.total /\ Booked(s.no, desk.retry.total)
RunsApart == "retry" \notin desk.met =>
  desk.stands /\ \A s \in streams : s.on => StreamFits(s) /\ \A t \in streams : t.on => t = s
StreamSafe == StreamRows /\ DryOffered /\ RunsApart
LEMMA StreamsCount == StreamSafe => RetryCounts
  BY DEF StreamSafe, RunsApart, StreamFits, RetryCounts
(* A step that asks for no stream and moves none.                          *)
LEMMA StreamSame ==
  ASSUME StreamSafe, calls \in Nat, calls' \in {calls, calls + 1}, streams' \subseteq streams,
         "retry" \in desk.met => "retry" \in desk'.met, desk'.stands = desk.stands,
         desk'.retry = desk.retry \/ \A s \in streams' : s.on => "retry" \in desk'.met,
         \A k \in 1..calls, n \in Nat : Booked(k, n) => Booked(k, n)',
         \A q \in Handlers : Dry(q)' => /\ Dry(q) /\ proc'[q].no = proc[q].no /\ proc'[q].marks = proc[q].marks
                                        /\ \A s \in streams : s.no = proc[q].no => s \in streams'
  PROVE  StreamSafe'
<1>1. StreamRows'
  BY DEF StreamSafe, StreamRows
<1>2. DryOffered'
  <2> SUFFICES ASSUME NEW q \in Handlers, Dry(q)' PROVE proc'[q].marks # {} /\ Offered(proc[q].no)'
    BY DEF DryOffered
  <2>1. proc[q].marks # {} /\ Offered(proc[q].no)
    BY DEF StreamSafe, DryOffered
  <2> QED BY <2>1 DEF Offered
<1>3. RunsApart'
  <2> SUFFICES ASSUME "retry" \notin desk'.met
               PROVE  desk'.stands /\ \A s \in streams' : s.on => StreamFits(s)' /\ \A t \in streams' : t.on => t = s
    BY DEF RunsApart
  <2>1. desk.stands /\ \A s \in streams : s.on => StreamFits(s) /\ \A t \in streams : t.on => t = s
    BY DEF StreamSafe, RunsApart
  <2>2. ASSUME NEW s \in streams', s.on PROVE StreamFits(s)' /\ \A t \in streams' : t.on => t = s
    <3>1. StreamFits(s) /\ desk'.retry = desk.retry /\ s.no \in 1..calls
      BY <2>1, <2>2 DEF StreamSafe, StreamRows
    <3>2. PICK k \in 1..calls, n \in Nat : k = s.no /\ n = desk.retry.total
      BY <3>1 DEF StreamFits
    <3>3. Booked(k, n)'
      BY <3>1, <3>2 DEF StreamFits
    <3>4. Booked(s.no, desk.retry.total)'
      BY <3>1, <3>2, <3>3 DEF Booked
    <3> QED BY <2>1, <2>2, <3>1, <3>4 DEF StreamFits
  <2> QED BY <2>1, <2>2
<1> QED BY <1>1, <1>2, <1>3 DEF StreamSafe
(* Requests to retry stay as they are, but for the one that is made.       *)
DryKept(q) == Dry(q)' => Dry(q) /\ proc'[q].no = proc[q].no /\ proc'[q].marks = proc[q].marks
LEMMA DryStays == \A q : proc'[q] = proc[q] => DryKept(q)
  BY DEF DryKept, Dry, Open
LEMMA DryDeeds ==
  ASSUME NEW p \in Handlers, DeskDeeds(p), ~Picking(p), NEW q \in Handlers
  PROVE  DryKept(q)
<1>1. CASE AskedRows(p) \/ StreamEnded(p) \/ Opened(p) \/ Noting(p) \/ Rejecting(p)
  <2>1. Only(p) /\ ~Dry(p)'
    BY <1>1 DEF AskedRows, StreamEnded, Opened, Noting, Rejecting, Fresh, Dry, Open
  <2> QED BY <2>1, DryStays DEF Only, DryKept
<1>2. CASE Landed(p) \/ Lost(p) \/ Detailed(p) \/ NoteSaved(p) \/ Refusing(p)
  <2>1. Only(p) /\ ~Dry(p)'
    BY <1>2 DEF Landed, Lost, Detailed, NoteSaved, Refusing, Leaves, Dry, Open, Idle
  <2> QED BY <2>1, DryStays DEF Only, DryKept
<1>3. CASE RowsAgain(p) \/ Streaming(p)
  <2>1. Only(p) /\ ~Dry(p)'
    BY <1>3 DEF RowsAgain, Streaming, Dry, Open
  <2> QED BY <2>1, DryStays DEF Only, DryKept
<1>4. CASE Working(p)
  <2>1. Only(p)
    BY <1>4 DEF Working, Lasts, Leaves
  <2>2. Dry(p)' => Lasts(p)
    BY <1>4 DEF Working, Leaves, Dry, Open, Idle
  <2>3. Dry(p)' => Dry(p) /\ proc'[p].no = proc[p].no /\ proc'[p].marks = proc[p].marks
    BY <1>4, <2>2 DEF Working, Lasts, Dry, Open, Busy
  <2> QED BY <2>1, <2>3, DryStays DEF Only, DryKept
<1> QED BY <1>1, <1>2, <1>3, <1>4 DEF DeskDeeds
LEMMA DryApart ==
  ASSUME ProcInv, FlowInv, NumSafe, NEW p \in Handlers, Has(proc[p], "desk"), NEW q \in Handlers, q # p, Dry(q)
  PROVE  proc[q].no # proc[p].no
<1>1. Numbered(p) /\ Numbered(q) /\ ToLoad(q)
  BY DryDesk DEF Numbered, ToLoad
<1> QED BY <1>1 DEF NumSafe, NumbersApart, Unloaded
(* A stream asked for.                                                     *)
LEMMA StreamPicked ==
  ASSUME StreamSafe, NumSafe, ProcInv, FlowInv, calls \in Nat, NEW p \in Handlers, Picking(p),
         \A k \in 1..calls, n \in Nat : Booked(k, n) => Booked(k, n)'
  PROVE  StreamSafe'
<1> DEFINE new == [no |-> calls + 1, asked |-> Asked, on |-> FALSE, read |-> 0]
<1>1. /\ streams' = streams \cup {new} /\ calls' = calls + 1 /\ desk' = desk /\ Only(p)
      /\ proc'[p].no = calls + 1 /\ proc'[p].marks # {}
  BY DEF Picking
<1>2. DOMAIN new = {"no", "asked", "on", "read"} /\ new.no = calls + 1 /\ ~new.on /\ new.on \in BOOLEAN /\ new.read = 0
  OBVIOUS
<1> HIDE DEF new
<1>3. StreamRows'
  BY <1>1, <1>2 DEF StreamSafe, StreamRows
<1>4. \A s \in streams : s.no \in 1..calls
  BY DEF StreamSafe, StreamRows
<1>5. DryOffered'
  <2> SUFFICES ASSUME NEW q \in Handlers, Dry(q)' PROVE proc'[q].marks # {} /\ Offered(proc[q].no)'
    BY DEF DryOffered
  <2>1. CASE q = p
    <3>1. \A s \in streams : s.no # calls + 1
      BY <1>4
    <3> QED BY <1>1, <1>2, <2>1, <3>1 DEF Offered
  <2>2. CASE q # p
    <3>1. proc'[q] = proc[q] /\ Dry(q)
      BY <1>1, <2>2 DEF Only, Dry, Open
    <3>2. proc[q].marks # {} /\ Offered(proc[q].no)
      BY <3>1 DEF StreamSafe, DryOffered
    <3> QED BY <1>1, <1>2, <3>1, <3>2 DEF Offered
  <2> QED BY <2>1, <2>2
<1>6. RunsApart'
  <2> SUFFICES ASSUME "retry" \notin desk'.met
               PROVE  desk'.stands /\ \A s \in streams' : s.on => StreamFits(s)' /\ \A t \in streams' : t.on => t = s
    BY DEF RunsApart
  <2>1. desk.stands /\ \A s \in streams : s.on => StreamFits(s) /\ \A t \in streams : t.on => t = s
    BY <1>1 DEF StreamSafe, RunsApart
  <2>2. ASSUME NEW s \in streams', s.on PROVE StreamFits(s)' /\ \A t \in streams' : t.on => t = s
    <3>1. s \in streams
      BY <1>1, <1>2, <2>2
    <3>2. StreamFits(s) /\ s.no \in 1..calls
      BY <1>4, <2>1, <2>2, <3>1
    <3>3. PICK k \in 1..calls, n \in Nat : k = s.no /\ n = desk.retry.total
      BY <3>2 DEF StreamFits
    <3>4. Booked(k, n)'
      BY <3>2, <3>3 DEF StreamFits
    <3>5. Booked(s.no, desk.retry.total)'
      BY <1>1, <3>3, <3>4 DEF Booked
    <3>6. StreamFits(s)'
      BY <1>1, <3>2, <3>5 DEF StreamFits
    <3> QED BY <1>1, <1>2, <2>1, <2>2, <3>1, <3>6
  <2> QED BY <1>1, <2>1, <2>2
<1> QED BY <1>3, <1>5, <1>6 DEF StreamSafe
(* A stream that begins: its marks are the leads that were ticked.         *)
LEMMA StreamBegins ==
  ASSUME StreamSafe, NumSafe, ProcInv, FlowInv, calls \in Nat, NEW p \in Handlers, Streaming(p), IsFiniteSet(proc[p].marks),
         batches' = batches
  PROVE  StreamSafe'
<1> DEFINE k == proc[p].no
           old == Streamed(p)
           new == [old EXCEPT !.on = TRUE]
<1>1. Dry(p) /\ Has(proc[p], "desk") /\ Only(p)
  BY DEF Streaming, Dry, Open, Busy
<1>2. proc[p].marks # {} /\ Offered(k) /\ StreamRows
  BY <1>1 DEF StreamSafe, DryOffered
<1>3. old \in streams /\ old.no = k
  BY <1>2 DEF Streamed, Offered
<1>4. ~old.on /\ DOMAIN old = {"no", "asked", "on", "read"} /\ k \in 1..calls /\ old.read = 0
  BY <1>2, <1>3 DEF Offered, StreamRows
<1>5. DOMAIN new = {"no", "asked", "on", "read"} /\ new.no = k /\ new.on /\ new.on \in BOOLEAN /\ new.read = 0
  BY <1>3, <1>4
<1>6. streams' = (streams \ {old}) \cup {new} /\ calls' = calls /\ desk.stands
  BY DEF Streaming
<1>7. PICK n \in Nat \ {0} : n = Cardinality(proc[p].marks)
  <2>1. Cardinality(proc[p].marks) \in Nat /\ Cardinality(proc[p].marks) # 0
    BY <1>2, FS_CardinalityType, FS_EmptySet
  <2> QED BY <2>1
<1>8. desk'.retry = [total |-> n, done |-> 0] /\ desk'.stands
  BY <1>6, <1>7 DEF Streaming, Sets, DeskFields
<1>9. (\E s \in streams : s.on) => "retry" \in desk'.met
  BY DEF Streaming
<1>10. ASSUME NEW q \in Handlers, Loading(q)', proc'[q].no = k PROVE FitsIn(proc'[q].marks, n)
  <2>1. CASE q = p
    BY <1>7, <2>1 DEF Streaming, FitsIn
  <2>2. CASE q # p
    <3>1. proc'[q] = proc[q] /\ Loading(q)
      BY <1>1, <1>10, <2>2 DEF Only, Loading, Ahead
    <3>2. Numbered(q) /\ Numbered(p) /\ k # 0 /\ proc[q].no = k
      BY <1>1, <1>4, <1>10, <3>1 DEF Numbered
    <3> QED BY <2>2, <3>2 DEF NumSafe, NumbersApart
  <2> QED BY <2>1, <2>2
<1>11. \A b \in DOMAIN batches : batches[b].of # k
  BY <1>1 DEF NumSafe, Unloaded, ToLoad
<1>12. PICK c : c = k
  OBVIOUS
<1>13. Booked(c, n)'
  BY <1>10, <1>11, <1>12 DEF Booked
<1>14. \A q \in Handlers : Dry(q)' => q # p /\ proc'[q] = proc[q] /\ Dry(q) /\ proc[q].no # k
  <2> SUFFICES ASSUME NEW q \in Handlers, Dry(q)' PROVE q # p /\ proc'[q] = proc[q] /\ Dry(q) /\ proc[q].no # k
    OBVIOUS
  <2>1. q # p
    BY DEF Streaming, Dry, Open
  <2>2. proc'[q] = proc[q] /\ Dry(q)
    BY <1>1, <2>1 DEF Only, Dry, Open
  <2> QED BY <1>1, <2>1, <2>2, DryApart
<1> HIDE DEF k, old, new
<1>15. StreamRows'
  <2>1. ASSUME NEW s \in streams'
        PROVE  DOMAIN s = {"no", "asked", "on", "read"} /\ s.no \in 1..calls' /\ s.on \in BOOLEAN /\ s.read \in Nat /\ (~s.on => s.read = 0)
    <3>1. CASE s \in streams
      BY <1>2, <1>6, <3>1 DEF StreamRows
    <3>2. CASE s = new
      <4>1. s.no \in 1..calls'
        BY <1>4, <1>5, <1>6, <3>2
      <4>2. s.read \in Nat /\ (~s.on => s.read = 0)
        BY <1>5, <3>2
      <4>3. DOMAIN s = {"no", "asked", "on", "read"} /\ s.on \in BOOLEAN
        BY <1>5, <3>2, Zenon
      <4> QED BY <4>1, <4>2, <4>3
    <3> QED BY <1>6, <2>1, <3>1, <3>2
  <2> QED BY <2>1 DEF StreamRows
<1>16. DryOffered'
  <2> SUFFICES ASSUME NEW q \in Handlers, Dry(q)' PROVE proc'[q].marks # {} /\ Offered(proc[q].no)'
    BY DEF DryOffered
  <2>1. proc'[q] = proc[q] /\ proc[q].no # k /\ proc[q].marks # {} /\ Offered(proc[q].no)
    BY <1>14 DEF StreamSafe, DryOffered
  <2>2. Offered(proc[q].no)'
    BY <1>3, <1>5, <1>6, <2>1 DEF Offered
  <2> QED BY <2>1, <2>2
<1>17. RunsApart'
  <2> SUFFICES ASSUME "retry" \notin desk'.met
               PROVE  desk'.stands /\ \A s \in streams' : s.on => StreamFits(s)' /\ \A t \in streams' : t.on => t = s
    BY DEF RunsApart
  <2>1. \A s \in streams' : s.on => s = new
    BY <1>6, <1>9
  <2>2. ASSUME NEW s \in streams', s.on PROVE StreamFits(s)'
    <3>1. s = new
      BY <2>1, <2>2
    <3>2. s.no = c /\ s.read = 0
      BY <1>5, <1>12, <3>1
    <3>3. DOMAIN desk'.retry = {"total", "done"} /\ desk'.retry.total = n /\ desk'.retry.done = 0
      BY <1>8
    <3>4. Booked(s.no, desk.retry.total)'
      BY <1>13, <3>2, <3>3 DEF Booked
    <3> QED BY <3>2, <3>3, <3>4 DEF StreamFits
  <2> QED BY <1>8, <2>1, <2>2
<1> QED BY <1>15, <1>16, <1>17 DEF StreamSafe
(* An event told: the batch of the stream has loaded what it tells.        *)
LEMMA ToldIs ==
  ASSUME NumSafe, NEW s \in streams, NEW n \in Nat, Booked(s.no, n)
  PROVE  Cardinality(ToldTo(s)) \in Nat /\ Cardinality(ToldTo(s)) <= n
<1>1. CASE \A b \in DOMAIN batches : batches[b].of # s.no
  <2>1. ToldTo(s) = {}
    BY <1>1 DEF ToldTo
  <2> QED BY <2>1, FS_EmptySet
<1>2. ASSUME NEW b \in DOMAIN batches, batches[b].of = s.no PROVE Cardinality(ToldTo(s)) \in Nat /\ Cardinality(ToldTo(s)) <= n
  <2>1. {c \in DOMAIN batches : batches[c].of = s.no} = {b}
    BY <1>2 DEF NumSafe, BatchesApart
  <2>2. ToldTo(s) = batches[b].told
    BY <2>1 DEF ToldTo
  <2>3. FitsIn(batches[b].told, n)
    <3>1. FitsIn(batches[b].loaded, n) /\ batches[b].told \subseteq batches[b].loaded
      BY <1>2 DEF Booked, NumSafe, BatchNumbers
    <3> QED BY <3>1, FitsInSub
  <2> QED BY <2>2, <2>3, FS_CardinalityType DEF FitsIn
<1> QED BY <1>1, <1>2
LEMMA StreamTold ==
  ASSUME StreamSafe, NumSafe, calls \in Nat, Telling, \A k \in 1..calls, n \in Nat : Booked(k, n) => Booked(k, n)',
         DOMAIN desk = DeskFields
  PROVE  StreamSafe'
<1>1. PICK s \in streams :
        /\ proc' = proc /\ UNCHANGED <<noted, calls>> /\ desk.stands /\ s.on /\ s.read < Cardinality(ToldTo(s))
        /\ streams' = (streams \ {s}) \cup {[s EXCEPT !.read = @ + 1]}
        /\ IF desk.retry = NoRetry THEN Sets({"stands"})
           ELSE Sets({"retry"}) /\ desk'.retry = [desk.retry EXCEPT !.done = @ + 1]
  BY DEF Telling
<1> DEFINE new == [s EXCEPT !.read = @ + 1]
<1>2. StreamRows
  BY DEF StreamSafe
<1>3. DOMAIN s = {"no", "asked", "on", "read"} /\ s.no \in 1..calls /\ s.on \in BOOLEAN /\ s.read \in Nat
  BY <1>2 DEF StreamRows
<1>4. DOMAIN new = {"no", "asked", "on", "read"} /\ new.no = s.no /\ new.on = s.on /\ new.read = s.read + 1
  BY <1>3
<1>5. streams' = (streams \ {s}) \cup {new}
  BY <1>1
<1> HIDE DEF new
<1>6. StreamRows'
  BY <1>1, <1>2, <1>3, <1>4, <1>5 DEF StreamRows
<1>7. DryOffered'
  <2> SUFFICES ASSUME NEW q \in Handlers, Dry(q)' PROVE proc'[q].marks # {} /\ Offered(proc[q].no)'
    BY DEF DryOffered
  <2>1. proc'[q] = proc[q] /\ Dry(q)
    BY <1>1 DEF Dry, Open
  <2>2. proc[q].marks # {} /\ Offered(proc[q].no)
    BY <2>1 DEF StreamSafe, DryOffered
  <2>3. s.no # proc[q].no
    BY <1>1, <2>2 DEF Offered
  <2>4. Offered(proc[q].no)'
    BY <1>4, <1>5, <2>1, <2>2, <2>3 DEF Offered
  <2> QED BY <2>1, <2>2, <2>4
<1>8. RunsApart'
  <2> SUFFICES ASSUME "retry" \notin desk'.met
               PROVE  desk'.stands /\ \A t \in streams' : t.on => StreamFits(t)' /\ \A u \in streams' : u.on => u = t
    BY DEF RunsApart
  <2>1. "retry" \notin desk.met
    BY <1>1 DEF Sets, DeskFields
  <2>2. desk.stands /\ StreamFits(s) /\ \A t \in streams : t.on => t = s
    BY <1>1, <2>1 DEF StreamSafe, RunsApart
  <2>3. PICK k \in 1..calls, n \in Nat \ {0} : k = s.no /\ n = desk.retry.total
    BY <1>3, <2>2 DEF StreamFits
  <2>4. desk.retry # NoRetry
    BY <2>3 DEF NoRetry
  <2>5. Sets({"retry"}) /\ desk'.retry = [desk.retry EXCEPT !.done = @ + 1]
    BY <1>1, <2>4
  <2>6. DOMAIN desk'.retry = {"total", "done"} /\ desk'.retry.total = n /\ desk'.retry.done = s.read + 1
    BY <2>2, <2>3, <2>5 DEF StreamFits
  <2>7. desk'.stands
    BY <2>2, <2>5 DEF Sets, DeskFields
  <2>8. s.read + 1 <= n
    <3>1. Booked(s.no, n)
      BY <2>2, <2>3 DEF StreamFits
    <3>2. Cardinality(ToldTo(s)) \in Nat /\ Cardinality(ToldTo(s)) <= n
      BY <3>1, ToldIs
    <3> QED BY <1>1, <1>3, <3>2
  <2>9. Booked(k, n)'
    BY <2>2, <2>3 DEF StreamFits
  <2>10. \A t \in streams' : t.on => t = new
    BY <1>5, <2>2
  <2>11. ASSUME NEW t \in streams', t.on PROVE StreamFits(t)'
    <3>1. t.no = k /\ t.read = s.read + 1
      BY <1>4, <2>3, <2>10, <2>11
    <3>2. Booked(t.no, desk.retry.total)'
      BY <2>6, <2>9, <3>1 DEF Booked
    <3> QED BY <2>6, <2>8, <3>1, <3>2 DEF StreamFits
  <2> QED BY <2>7, <2>10, <2>11
<1> QED BY <1>6, <1>7, <1>8 DEF StreamSafe
(* Of the deeds of the page, those that leave the streams and the progress *)
(* as they are, and those that take a stream away.                         *)
StreamsSame == streams' = streams /\ desk'.retry = desk.retry /\ desk'.stands = desk.stands /\ ("retry" \in desk.met => "retry" \in desk'.met)
LEMMA StreamsKeep ==
  ASSUME \/ Shutting \/ Ticking
         \/ \E p \in Handlers : \/ AskedRows(p) \/ Opened(p) \/ Noting(p) \/ Rejecting(p) \/ Working(p) \/ Landed(p)
                                \/ Detailed(p) \/ NoteSaved(p) \/ RowsAgain(p)
  PROVE  StreamsSame
<1>1. CASE Shutting \/ Ticking
  BY <1>1 DEF Shutting, Ticking, Sets, DeskFields, StreamsSame
<1>2. ASSUME NEW p \in Handlers, AskedRows(p) \/ Opened(p) \/ RowsAgain(p) PROVE StreamsSame
  <2>1. streams' = streams /\ desk'.retry = desk.retry /\ desk'.stands = desk.stands
    BY <1>2 DEF AskedRows, Opened, RowsAgain, Sets, DeskFields
  <2>2. \E sort \in {"rows", "detail"}, others \in BOOLEAN : desk'.met = Meets(sort, others)
    BY <1>2 DEF AskedRows, Opened, RowsAgain
  <2> QED BY <2>1, <2>2 DEF StreamsSame, Meets
<1>3. ASSUME NEW p \in Handlers, Noting(p) \/ Rejecting(p) \/ Working(p) PROVE StreamsSame
  BY <1>3 DEF Noting, Rejecting, Working, leadsPage, StreamsSame
<1>4. ASSUME NEW p \in Handlers, Landed(p) \/ Detailed(p) \/ NoteSaved(p) PROVE StreamsSame
  BY <1>4 DEF Landed, Detailed, NoteSaved, Sets, DeskFields, StreamsSame
<1> QED BY <1>1, <1>2, <1>3, <1>4
LEMMA StreamKept ==
  ASSUME StreamSafe, calls \in Nat, calls' \in {calls, calls + 1}, StreamsSame, \A q \in Handlers : DryKept(q),
         \A k \in 1..calls, n \in Nat : Booked(k, n) => Booked(k, n)'
  PROVE  StreamSafe'
<1>1. streams' \subseteq streams
  BY DEF StreamsSame
<1>2. \A q \in Handlers : Dry(q)' => /\ Dry(q) /\ proc'[q].no = proc[q].no /\ proc'[q].marks = proc[q].marks
                                     /\ \A s \in streams : s.no = proc[q].no => s \in streams'
  BY DEF StreamsSame, DryKept
<1> QED BY <1>1, <1>2, StreamSame DEF StreamsSame
LEMMA StreamLeft ==
  ASSUME StreamSafe, NumSafe, ProcInv, FlowInv, calls \in Nat, DOMAIN desk = DeskFields, NEW p \in Handlers, Lost(p) \/ Refusing(p),
         \A q \in Handlers : DryKept(q), \A k \in 1..calls, n \in Nat : Booked(k, n) => Booked(k, n)'
  PROVE  StreamSafe'
<1>1. Only(p) /\ ~Dry(p)' /\ Has(proc[p], "desk") /\ calls' = calls
  BY DEF Lost, Refusing, Leaves, Dry, Open, Idle
<1>2. desk'.retry = desk.retry /\ desk'.stands = desk.stands /\ ("retry" \in desk.met => "retry" \in desk'.met)
  BY DEF Lost, Refusing, Sets, DeskFields
<1>3. streams' \subseteq streams /\ \A s \in streams : s.no # proc[p].no => s \in streams'
  <2>1. CASE Lost(p)
    BY <2>1 DEF Lost
  <2>2. CASE Refusing(p)
    <3>1. Dry(p)
      BY <2>2 DEF Refusing, Leaves, Dry, Open, Busy
    <3>2. \E s \in streams : s.no = proc[p].no
      BY <3>1 DEF StreamSafe, DryOffered, Offered
    <3>3. Streamed(p).no = proc[p].no
      BY <3>2 DEF Streamed
    <3> QED BY <2>2, <3>3 DEF Refusing
  <2> QED BY <2>1, <2>2
<1>4. ASSUME NEW q \in Handlers, Dry(q)'
      PROVE  /\ Dry(q) /\ proc'[q].no = proc[q].no /\ proc'[q].marks = proc[q].marks
             /\ \A s \in streams : s.no = proc[q].no => s \in streams'
  <2>1. q # p
    BY <1>1, <1>4
  <2>2. Dry(q) /\ proc'[q].no = proc[q].no /\ proc'[q].marks = proc[q].marks
    BY <1>4 DEF DryKept
  <2>3. proc[q].no # proc[p].no
    BY <1>1, <2>1, <2>2, DryApart
  <2> QED BY <1>3, <2>2, <2>3
<1> QED BY <1>1, <1>2, <1>3, <1>4, StreamSame
LEMMA StreamOver ==
  ASSUME StreamSafe, calls \in Nat, DOMAIN desk = DeskFields, NEW p \in Handlers, StreamEnded(p),
         \A q \in Handlers : DryKept(q), \A k \in 1..calls, n \in Nat : Booked(k, n) => Booked(k, n)'
  PROVE  StreamSafe'
<1>1. PICK s \in streams : /\ s.on /\ streams' = streams \ {s} /\ calls' = calls /\ Sets({"retry", "picked", "met"})
                           /\ desk'.met = Meets("rows", s.asked # Asked \/ Awaited({"rows"}) # {})
  BY DEF StreamEnded
<1>2. desk'.stands = desk.stands
  BY <1>1 DEF Sets, DeskFields
<1>3. "retry" \in desk.met <=> "retry" \in desk'.met
  <2>1. PICK others \in BOOLEAN : desk'.met = Meets("rows", others)
    BY <1>1
  <2> QED BY <2>1 DEF Meets
<1>4. \A t \in streams' : t.on => "retry" \in desk'.met
  <2>1. "retry" \notin desk.met => \A t \in streams : t.on => t = s
    BY <1>1 DEF StreamSafe, RunsApart
  <2> QED BY <1>1, <1>3, <2>1
<1>5. \A q \in Handlers : Dry(q)' => /\ Dry(q) /\ proc'[q].no = proc[q].no /\ proc'[q].marks = proc[q].marks
                                     /\ \A t \in streams : t.no = proc[q].no => t \in streams'
  <2>1. \A q \in Handlers : Dry(q) => s.no # proc[q].no
    BY <1>1 DEF StreamSafe, DryOffered, Offered
  <2> QED BY <1>1, <2>1 DEF DryKept
<1> QED BY <1>1, <1>2, <1>3, <1>4, <1>5, StreamSame
LEMMA StreamNext ==
  ASSUME Core, Steady, [Next]_vars, DeskReq, DOMAIN desk = DeskFields, NumSafe, StreamSafe
  PROVE  StreamSafe'
<1>1. ProcInv /\ FlowInv /\ ProcInv' /\ FlowInv'
  BY CoreNext, SteadyNext DEF Core, Steady
<1>2. calls \in Nat /\ calls' \in {calls, calls + 1}
  <2>1. calls \in Nat
    BY DEF Core, RefInv, RowInv
  <2> QED BY <2>1, <1>1, AllCounted DEF Counted
<1>3. (~\E p \in Handlers : Streaming(p)) => \A k \in 1..calls, n \in Nat : Booked(k, n) => Booked(k, n)'
  BY BooksKept
<1>4. CASE \E p \in Handlers : Streaming(p)
  <2>1. PICK p \in Handlers : Streaming(p)
    BY <1>4
  <2>2. IsFiniteSet(proc[p].marks)
    BY <2>1 DEF Streaming, DeskReq, DeskOK
  <2>3. batches' = batches
    <3>1. Dry(p)
      BY <2>1 DEF Streaming, Dry, Open, Busy
    <3>2. Offered(proc[p].no) /\ StreamRows
      BY <3>1 DEF StreamSafe, DryOffered
    <3>3. Streamed(p) \in streams /\ Streamed(p).no = proc[p].no
      BY <3>2 DEF Offered, Streamed
    <3>4. ~Streamed(p).on /\ "on" \in DOMAIN Streamed(p)
      BY <3>2, <3>3 DEF Offered, StreamRows
    <3>5. [Streamed(p) EXCEPT !.on = TRUE].on
      BY <3>4
    <3>6. streams' # streams
      <4>1. [Streamed(p) EXCEPT !.on = TRUE] # Streamed(p)
        BY <3>4, <3>5
      <4>2. Streamed(p) \notin streams'
        BY <2>1, <4>1 DEF Streaming
      <4> QED BY <3>3, <4>2
    <3>7. LeadsPageStep
      BY <3>6, DeskRest DEF Neighbourly
    <3> QED BY <3>7, DeskStays DEF BesideDesk
  <2> QED BY <1>1, <1>2, <2>1, <2>2, <2>3, StreamBegins
<1>5. CASE ~\E p \in Handlers : Streaming(p)
  <2>1. \A k \in 1..calls, n \in Nat : Booked(k, n) => Booked(k, n)'
    BY <1>3, <1>5
  <2>2. CASE Neighbourly
    <3>1. StreamsSame
      BY <2>2 DEF Neighbourly, Meanwhile, DeskFields, StreamsSame
    <3>2. \A q \in Handlers : DryKept(q)
      BY <1>1, <2>2, DryDeskNext, DeskBeside, DryStays DEF Neighbourly, DryKept
    <3> QED BY <1>2, <2>1, <3>1, <3>2, StreamKept
  <2>3. CASE Shutting \/ Ticking
    <3>1. \A q \in Handlers : DryKept(q)
      BY <2>3, DryStays DEF Shutting, Ticking
    <3> QED BY <1>2, <2>1, <2>3, <3>1, StreamsKeep, StreamKept
  <2>4. CASE Telling
    BY <1>2, <2>1, <2>4, StreamTold
  <2>5. ASSUME NEW p \in Handlers, DeskDeeds(p) PROVE StreamSafe'
    <3>1. CASE Picking(p)
      BY <1>1, <1>2, <2>1, <3>1, StreamPicked
    <3>2. CASE ~Picking(p)
      <4>1. \A q \in Handlers : DryKept(q)
        BY <2>5, <3>2, DryDeeds
      <4>2. CASE StreamEnded(p)
        BY <1>2, <2>1, <4>1, <4>2, StreamOver
      <4>3. CASE Lost(p) \/ Refusing(p)
        BY <1>1, <1>2, <2>1, <4>1, <4>3, StreamLeft
      <4>4. CASE ~(StreamEnded(p) \/ Lost(p) \/ Refusing(p))
        <5>1. StreamsSame
          BY <1>5, <2>5, <3>2, <4>4, StreamsKeep DEF DeskDeeds
        <5> QED BY <1>2, <2>1, <4>1, <5>1, StreamKept
      <4> QED BY <4>2, <4>3, <4>4
    <3> QED BY <3>1, <3>2
  <2>6. LeadsPageStep => (\E p \in Handlers : DeskDeeds(p)) \/ Shutting \/ Ticking \/ Telling
    BY <1>1, PageDoes DEF DeskReq
  <2> QED BY <2>2, <2>3, <2>4, <2>5, <2>6, DeskRest
<1> QED BY <1>4, <1>5
(* What the page and its requests keep together.                           *)
DeskSafe == DeskReq /\ Finite /\ DOMAIN desk = DeskFields /\ RowsSafe /\ DetailSafe /\ NumSafe /\ StreamSafe
LEMMA DeskStarts == Init => DeskSafe
<1> SUFFICES ASSUME Init PROVE DeskSafe
  OBVIOUS
<1>1. \A q \in Handlers : proc[q] = Idle
  BY InitProc
<1>2. \A q \in Handlers : proc[q].todo = <<>> /\ Ahead(q) = {} /\ ~Has(proc[q], "desk")
  BY <1>1, IdleHas, KindsAre, OrderedShort DEF Ahead, Idle
<1>3. PICK f \in PageFilters :
        /\ desk = [filter |-> f, page |-> 1, shown |-> {1, 3}, notes |-> {}, total |-> 2, picked |-> {},
                   lead |-> 0, note |-> 0, data |-> 0, retry |-> NoRetry, stands |-> TRUE,
                   loaded |-> <<f, 1>>, met |-> {}]
        /\ streams = {}
  BY DEF Init, DeskInit
<1>4. DOMAIN desk = DeskFields
  BY <1>3 DEF DeskFields
<1>5. desk.loaded = Asked /\ desk.shown = {1, 3} /\ desk.picked = {} /\ desk.lead = 0 /\ desk.stands
  BY <1>3 DEF Asked
<1>6. Finite
  <2>1. \E a, b, c : leads = <<a, b, c>>
    BY DEF Init, BookInit
  <2>2. DOMAIN leads = 1..3
    BY <2>1
  <2>3. 1 \in Int /\ 3 \in Int
    OBVIOUS
  <2>4. IsFiniteSet(1..3)
    BY <2>3, FS_Interval
  <2>5. {1, 3} \subseteq 1..3 /\ {} \subseteq 1..3
    OBVIOUS
  <2> QED BY <1>5, <2>2, <2>4, <2>5, FS_Subset DEF Finite
<1>7. DeskReq
  BY <1>2 DEF DeskReq
<1>8. RowsSafe
  BY <1>2, <1>5 DEF RowsSafe, RowsAwaited, Open
<1>9. DetailSafe
  BY <1>5 DEF DetailSafe
<1>10. NumSafe
  <2>1. \A q \in Handlers : ~Numbered(q) /\ ~ToLoad(q)
    BY <1>2 DEF Numbered, ToLoad, Loading, Dry, Open
  <2>2. batches = <<>>
    BY DEF Init, BookInit
  <2>3. DOMAIN batches = {}
    BY <2>2
  <2> QED BY <2>1, <2>3 DEF NumSafe, Numbers, NumbersApart, Unloaded, BatchNumbers, BatchesApart
<1>11. StreamSafe
  <2>1. \A q \in Handlers : ~Dry(q)
    BY <1>2 DEF Dry, Open
  <2> QED BY <1>3, <1>5, <2>1 DEF StreamSafe, StreamRows, DryOffered, RunsApart
<1> QED BY <1>4, <1>6, <1>7, <1>8, <1>9, <1>10, <1>11 DEF DeskSafe
LEMMA DeskNext == ASSUME Core, Steady, DeskSafe, [Next]_vars PROVE DeskSafe'
<1>1. DeskReq /\ Finite /\ DOMAIN desk = DeskFields /\ RowsSafe /\ DetailSafe /\ NumSafe /\ StreamSafe
  BY DEF DeskSafe
<1>2. DeskReq' /\ Finite' /\ DOMAIN desk' = DeskFields
  BY <1>1, ReqNext, FiniteNext, ShapeNext
<1>3. RowsSafe' /\ DetailSafe'
  BY <1>1, PageRowsNext, DetailNext
<1>4. NumSafe' /\ StreamSafe'
  BY <1>1, NumNext, StreamNext
<1> QED BY <1>2, <1>3, <1>4 DEF DeskSafe
(* The two pages of the browser show what was answered to what they asked: *)
(* the panel of an engine, the rows of the filter and page that are shown, *)
(* the data and note of the lead that is open, and the progress of a retry *)
(* event by event; answers may come in any order, late, or never, and      *)
(* retries, requests and leads are as many as one likes.                   *)
THEOREM PagesStayTrue == Spec => []PagesTrue
<1>1. Init => Core /\ Steady /\ DeskSafe
  BY InitCore, NicheStarts, BookStarts, PageStarts, DeskStarts DEF Steady
<1>2. Core /\ Steady /\ DeskSafe /\ [Next]_vars => (Core /\ Steady /\ DeskSafe)'
  BY CoreNext, SteadyNext, DeskNext
<1>3. ASSUME Steady, DeskSafe PROVE PagesTrue
  <2>1. PanelTrue
    BY <1>3 DEF Steady, PageSafe, PanelOK, PanelTrue
  <2>2. ShownAsAsked
    BY <1>3, RowsShown DEF DeskSafe
  <2>3. DetailFits
    BY <1>3 DEF DeskSafe, DetailSafe, DetailFits
  <2>4. RetryCounts
    BY <1>3, StreamsCount DEF DeskSafe
  <2> QED BY <2>1, <2>2, <2>3, <2>4 DEF PagesTrue
<1> QED BY <1>1, <1>2, <1>3, PTL DEF Spec

-----------------------------------------------------------------------------
(* What a filter selects *)

Named(name, bound, score) ==
  CASE name = "gte" -> score >= bound [] name = "lt" -> score < bound [] name = "lte" -> score <= bound
RangeIs(r) == r = NoBound \/ DOMAIN r # {}
LEMMA NoBoundIs == DOMAIN NoBound = {} /\ RangeIs(NoBound) /\ \A s : Within(NoBound, s)
  BY DEF NoBound, RangeIs, Within
LEMMA WithinIs ==
  ASSUME NEW r, RangeIs(r), NEW s
  PROVE  Within(r, s) <=> (DOMAIN r # {} => s # 0 /\ \A n \in DOMAIN r : Named(n, r[n], s))
<1>1. r # NoBound <=> DOMAIN r # {}
  BY NoBoundIs DEF RangeIs
<1> QED BY <1>1 DEF Within, Named
LEMMA NamedIs == \A b, s :
  (Named("gte", b, s) <=> s >= b) /\ (Named("lt", b, s) <=> s < b) /\ (Named("lte", b, s) <=> s <= b)
  BY DEF Named
LEMMA PriorityIs ==
  /\ DOMAIN PriorityToRange("A") = {"gte"} /\ PriorityToRange("A")["gte"] = ThreshA
  /\ DOMAIN PriorityToRange("B") = {"gte", "lt"} /\ PriorityToRange("B")["gte"] = ThreshB /\ PriorityToRange("B")["lt"] = ThreshA
  /\ DOMAIN PriorityToRange("C") = {"lt"} /\ PriorityToRange("C")["lt"] = ThreshB
  BY DEF PriorityToRange
LEMMA PriorityRange == \A p \in {"A", "B", "C"} : RangeIs(PriorityToRange(p)) /\ DOMAIN PriorityToRange(p) \subseteq {"gte", "lt"}
                                                  /\ DOMAIN PriorityToRange(p) # {}
  BY PriorityIs DEF RangeIs
(* A priority is the bucket of its scores.                                 *)
LEMMA PriorityFits ==
  ASSUME ThreshA \in Nat, ThreshB \in Nat, ThreshB <= ThreshA, NEW s \in Nat, NEW p \in {"A", "B", "C"}
  PROVE  Within(PriorityToRange(p), s) <=> s # 0 /\ Bucket(s) = p
<1>1. Within(PriorityToRange("A"), s) <=> s # 0 /\ s >= ThreshA
  BY PriorityIs, PriorityRange, WithinIs, NamedIs
<1>2. Within(PriorityToRange("B"), s) <=> s # 0 /\ s >= ThreshB /\ s < ThreshA
  BY PriorityIs, PriorityRange, WithinIs, NamedIs
<1>3. Within(PriorityToRange("C"), s) <=> s # 0 /\ s < ThreshB
  BY PriorityIs, PriorityRange, WithinIs, NamedIs
<1>4. /\ s >= ThreshA => Bucket(s) = "A"
      /\ ~(s >= ThreshA) /\ s >= ThreshB => Bucket(s) = "B"
      /\ ~(s >= ThreshA) /\ ~(s >= ThreshB) => Bucket(s) = "C"
  BY DEF Bucket
<1>5. (s < ThreshA <=> ~(s >= ThreshA)) /\ (s < ThreshB <=> ~(s >= ThreshB)) /\ (s >= ThreshA => s >= ThreshB)
  OBVIOUS
<1>6. "A" # "B" /\ "A" # "C" /\ "B" # "C"
  OBVIOUS
<1> DEFINE x == Bucket(s)
<1> HIDE DEF x
<1>7. (x = "A" <=> s >= ThreshA) /\ (x = "B" <=> s >= ThreshB /\ s < ThreshA) /\ (x = "C" <=> s < ThreshB)
  BY <1>4, <1>5, <1>6 DEF x
<1> QED BY <1>1, <1>2, <1>3, <1>7 DEF x
LEMMA BoundedIs ==
  ASSUME NEW name, NEW bound, NEW range, RangeIs(range)
  PROVE  LET r == Bounded(name, bound, range) IN
         /\ bound = 0 => r = range
         /\ bound # 0 => DOMAIN r = DOMAIN range \cup {name} /\ r[name] = bound /\ \A n \in DOMAIN range \ {name} : r[n] = range[n]
         /\ RangeIs(r)
  BY DEF Bounded, RangeIs
(* The bounds of a filter, on top of the range of a priority, or of none.  *)
LEMMA BoundsFit ==
  ASSUME NEW base, RangeIs(base), DOMAIN base \subseteq {"gte", "lt"}, NEW low \in Nat, NEW high \in Nat, NEW s \in Nat
  PROVE  LET r == Bounded("lte", high, Bounded("gte", low, base)) IN
         Within(r, s) <=> /\ low # 0 => s # 0 /\ s >= low
                          /\ high # 0 => s # 0 /\ s <= high
                          /\ DOMAIN base # {} => s # 0
                          /\ \A n \in DOMAIN base : (n = "gte" /\ low # 0) \/ Named(n, base[n], s)
<1> DEFINE b == Bounded("gte", low, base)
           r == Bounded("lte", high, b)
<1>1. /\ low = 0 => b = base
      /\ low # 0 => DOMAIN b = DOMAIN base \cup {"gte"} /\ b["gte"] = low /\ \A n \in DOMAIN base \ {"gte"} : b[n] = base[n]
      /\ RangeIs(b)
  BY BoundedIs
<1> HIDE DEF b
<1>2. /\ high = 0 => r = b
      /\ high # 0 => DOMAIN r = DOMAIN b \cup {"lte"} /\ r["lte"] = high /\ \A n \in DOMAIN b \ {"lte"} : r[n] = b[n]
      /\ RangeIs(r)
  BY <1>1, BoundedIs
<1> HIDE DEF r
<1>3. Within(b, s) <=> (DOMAIN b # {} => s # 0 /\ \A n \in DOMAIN b : Named(n, b[n], s))
  BY <1>1, WithinIs
<1>4. Within(b, s) <=> /\ low # 0 => s # 0 /\ s >= low
                       /\ DOMAIN base # {} => s # 0
                       /\ \A n \in DOMAIN base : (n = "gte" /\ low # 0) \/ Named(n, base[n], s)
  <2>1. CASE low = 0
    BY <1>1, <1>3, <2>1
  <2>2. CASE low # 0
    <3>1. Named("gte", b["gte"], s) <=> s >= low
      BY <1>1, <2>2, NamedIs
    <3>2. DOMAIN b # {} /\ \A n \in DOMAIN b : n = "gte" \/ (n \in DOMAIN base /\ b[n] = base[n])
      BY <1>1, <2>2
    <3>3. \A n \in DOMAIN base : n \in DOMAIN b /\ (n = "gte" \/ b[n] = base[n])
      BY <1>1, <2>2
    <3> QED BY <1>1, <1>3, <2>2, <3>1, <3>2, <3>3
  <2> QED BY <2>1, <2>2
<1>5. "lte" \notin DOMAIN b
  BY <1>1
<1>6. Within(r, s) <=> Within(b, s) /\ (high # 0 => s # 0 /\ s <= high)
  <2>1. CASE high = 0
    BY <1>2, <2>1
  <2>2. CASE high # 0
    <3>1. Within(r, s) <=> (DOMAIN r # {} => s # 0 /\ \A n \in DOMAIN r : Named(n, r[n], s))
      BY <1>2, WithinIs
    <3>2. Named("lte", r["lte"], s) <=> s <= high
      BY <1>2, <2>2, NamedIs
    <3>3. DOMAIN r # {} /\ \A n \in DOMAIN r : n = "lte" \/ (n \in DOMAIN b /\ r[n] = b[n])
      BY <1>2, <2>2
    <3>4. \A n \in DOMAIN b : n \in DOMAIN r /\ r[n] = b[n] /\ n # "lte"
      BY <1>2, <1>5, <2>2
    <3> QED BY <1>2, <1>3, <2>2, <3>1, <3>2, <3>3, <3>4
  <2> QED BY <2>1, <2>2
<1> QED BY <1>4, <1>6 DEF r, b
(* The scores a filter is to select, and those its where clause does.      *)
Picks(q, s) ==
  /\ q.prio = {} \/ (s # 0 /\ Bucket(s) \in q.prio)
  /\ q.min # 0 \/ q.max # 0 => s # 0 /\ s >= q.min /\ (q.max # 0 => s <= q.max)
Alternative(any, s) == any # {} => \E range \in any : Within(range, s)
Holds(q, s) == Within(ParseLeadFilter(q).score, s) /\ Alternative(ParseLeadFilter(q).any, s)
LEMMA ParsedAre ==
  ASSUME NEW q
  PROVE  /\ ParseLeadFilter(q).mode = q.mode
         /\ ParseLeadFilter(q).any = IF Cardinality(q.prio) = 1 THEN {} ELSE {PriorityToRange(p) : p \in q.prio}
         /\ ParseLeadFilter(q).score =
              Bounded("lte", q.max, Bounded("gte", q.min,
                IF Cardinality(q.prio) = 1 THEN PriorityToRange(CHOOSE p \in q.prio : TRUE) ELSE NoBound))
  BY DEF ParseLeadFilter
LEMMA OnePriority ==
  ASSUME NEW S \in SUBSET {"A", "B", "C"}
  PROVE  /\ IsFiniteSet(S) /\ Cardinality({}) = 0
         /\ Cardinality(S) = 1 => S = {CHOOSE p \in S : TRUE} /\ (CHOOSE p \in S : TRUE) \in {"A", "B", "C"}
<1>1. IsFiniteSet({"A", "B", "C"})
  <2>1. {"A", "B", "C"} = {"A"} \cup ({"B"} \cup {"C"})
    OBVIOUS
  <2>2. IsFiniteSet({"A"}) /\ IsFiniteSet({"B"}) /\ IsFiniteSet({"C"})
    BY FS_Singleton
  <2>3. IsFiniteSet({"B"} \cup {"C"})
    BY <2>2, FS_Union
  <2>4. IsFiniteSet({"A"} \cup ({"B"} \cup {"C"}))
    BY <2>2, <2>3, FS_Union
  <2> QED BY <2>1, <2>4
<1>2. IsFiniteSet(S)
  BY <1>1, FS_Subset
<1>3. ASSUME Cardinality(S) = 1 PROVE \E x : S = {x}
  BY <1>2, <1>3, FS_Singleton
<1>4. ASSUME NEW x, S = {x} PROVE S = {CHOOSE p \in S : TRUE} /\ (CHOOSE p \in S : TRUE) \in {"A", "B", "C"}
  <2>1. (CHOOSE p \in S : TRUE) \in S
    BY <1>4
  <2> QED BY <1>4, <2>1
<1> QED BY <1>2, <1>3, <1>4, FS_EmptySet
LEMMA FilterSelects ==
  ASSUME ThreshA \in Nat, ThreshB \in Nat, ThreshB <= ThreshA, NEW q \in QueryRow, NEW s \in Nat
  PROVE  /\ Picks(q, s) => Holds(q, s)
         /\ ~Widened(q) /\ Holds(q, s) => Picks(q, s)
<1>1. q.prio \in SUBSET {"A", "B", "C"} /\ q.min \in Nat /\ q.max \in Nat
  BY DEF QueryRow
<1> DEFINE one == Cardinality(q.prio) = 1
           p == CHOOSE x \in q.prio : TRUE
           base == IF one THEN PriorityToRange(p) ELSE NoBound
           any == ParseLeadFilter(q).any
<1>2. one => q.prio = {p} /\ p \in {"A", "B", "C"}
  BY <1>1, OnePriority
<1>3. RangeIs(base) /\ DOMAIN base \subseteq {"gte", "lt"} /\ (DOMAIN base # {} <=> one)
  BY <1>2, PriorityRange, NoBoundIs
<1>4. ParseLeadFilter(q).score = Bounded("lte", q.max, Bounded("gte", q.min, base))
  BY ParsedAre
<1>5. any = IF one THEN {} ELSE {PriorityToRange(x) : x \in q.prio}
  BY ParsedAre
<1>6. Alternative(any, s) <=> one \/ q.prio = {} \/ (s # 0 /\ Bucket(s) \in q.prio)
  <2>1. \A x \in q.prio : Within(PriorityToRange(x), s) <=> s # 0 /\ Bucket(s) = x
    BY <1>1, PriorityFits
  <2> QED BY <1>5, <2>1 DEF Alternative
<1>7. one => (Within(base, s) <=> s # 0 /\ Bucket(s) \in q.prio)
  BY <1>2, PriorityFits
<1>8. Within(base, s) <=> (one => s # 0 /\ \A n \in DOMAIN base : Named(n, base[n], s))
  BY <1>3, WithinIs
<1>9. Widened(q) <=> one /\ q.min # 0
  BY DEF Widened
<1>10. ~one => DOMAIN base = {}
  BY <1>3
<1> HIDE DEF base, any, one, p
<1>11. Within(ParseLeadFilter(q).score, s) <=>
         /\ q.min # 0 => s # 0 /\ s >= q.min
         /\ q.max # 0 => s # 0 /\ s <= q.max
         /\ one => s # 0
         /\ \A n \in DOMAIN base : (n = "gte" /\ q.min # 0) \/ Named(n, base[n], s)
  BY <1>1, <1>3, <1>4, BoundsFit
<1> DEFINE fit == q.prio = {} \/ (s # 0 /\ Bucket(s) \in q.prio)
           low == q.min # 0 => s # 0 /\ s >= q.min
           high == q.max # 0 => s # 0 /\ s <= q.max
<1>12. Picks(q, s) <=> fit /\ low /\ high
  <2>1. q.min = 0 => s >= q.min
    BY <1>1
  <2> QED BY <2>1 DEF Picks
<1>13. Holds(q, s) <=> Within(ParseLeadFilter(q).score, s) /\ Alternative(any, s)
  BY DEF Holds, any
<1>14. one => q.prio # {}
  BY <1>2
<1>15. CASE one
  <2>1. fit => Within(base, s)
    BY <1>7, <1>14, <1>15
  <2>2. Picks(q, s) => Holds(q, s)
    BY <1>6, <1>8, <1>11, <1>12, <1>13, <1>15, <2>1, Zenon
  <2>3. ASSUME ~Widened(q), Holds(q, s) PROVE Picks(q, s)
    <3>1. q.min = 0
      BY <1>9, <1>15, <2>3
    <3>2. s # 0 /\ \A n \in DOMAIN base : Named(n, base[n], s)
      BY <1>11, <1>13, <1>15, <2>3, <3>1
    <3>3. fit
      BY <1>7, <1>8, <1>15, <3>2
    <3> QED BY <1>11, <1>12, <1>13, <2>3, <3>3
  <2> QED BY <2>2, <2>3
<1>16. CASE ~one
  BY <1>6, <1>10, <1>11, <1>12, <1>13, <1>16
<1> QED BY <1>15, <1>16

-----------------------------------------------------------------------------
(* The list of leads and the cards *)

LeadFields == {"score", "verdict", "address", "tech", "signals", "rejected"}
LeadIs(row) ==
  DOMAIN row = LeadFields /\ row.score \in Nat /\ row.signals \in Nat /\ row.tech \in BOOLEAN /\ row.rejected \in BOOLEAN
LeadRows == edits \in Nat /\ IsFiniteSet(DOMAIN leads) /\ \A l \in DOMAIN leads : LeadIs(leads[l])
RowLike(row, lead) ==
  row.score = lead.score /\ row.signals = lead.signals /\ row.tech = lead.tech /\ row.rejected = lead.rejected
LeadsLike == edits' = edits /\ DOMAIN leads' = DOMAIN leads /\ \A l \in DOMAIN leads : RowLike(leads'[l], leads[l])
LEMMA WrittenRow ==
  ASSUME NEW p, NEW l, LeadIs(leads[l]), NEW row \in Written(p, l)
  PROVE  LeadIs(row)
<1>1. \/ \E v : row = [leads[l] EXCEPT !.verdict = v]
      \/ \E s \in Scores : row = [leads[l] EXCEPT !.score = s]
      \/ \E a : \E t \in BOOLEAN : row = [leads[l] EXCEPT !.address = a, !.tech = t]
      \/ row = leads[l]
  <2>1. CASE Stage(p) = "verify_email"
    BY <2>1, Zenon DEF Written
  <2>2. CASE Stage(p) # "verify_email" /\ Stage(p) = "rescore_icp"
    BY <2>2, Zenon DEF Written
  <2>3. CASE Stage(p) # "verify_email" /\ Stage(p) # "rescore_icp" /\ Stage(p) = "reextract"
    BY <2>3, Zenon DEF Written
  <2>4. CASE Stage(p) # "verify_email" /\ Stage(p) # "rescore_icp" /\ Stage(p) # "reextract"
    BY <2>4, Zenon DEF Written
  <2> QED BY <2>1, <2>2, <2>3, <2>4
<1> QED BY <1>1, ListAssumption DEF LeadIs, LeadFields
(* A write is counted; what is no write leaves the leads as they are.      *)
LEMMA LeadsKeep ==
  ASSUME Core, Steady, LeadRows, [Next]_vars
  PROVE  LeadRows' /\ (LeadsLike \/ edits' = edits + 1)
<1>1. edits \in Nat /\ IsFiniteSet(DOMAIN leads) /\ \A l \in DOMAIN leads : LeadIs(leads[l])
  BY DEF LeadRows
<1>2. CASE UNCHANGED <<leads, edits>>
  BY <1>1, <1>2 DEF LeadRows, LeadsLike, RowLike
<1>3. ASSUME NEW l, NEW row, LeadIs(row), leads' = [leads EXCEPT ![l] = row], edits' \in Nat
      PROVE  LeadRows'
  <2>1. DOMAIN leads' = DOMAIN leads /\ \A k \in DOMAIN leads : leads'[k] = row \/ leads'[k] = leads[k]
    BY <1>3
  <2>2. \A k \in DOMAIN leads' : LeadIs(leads'[k])
    BY <1>1, <1>3, <2>1
  <2> QED BY <1>1, <1>3, <2>1, <2>2 DEF LeadRows
<1>4. ASSUME NEW l, l \notin DOMAIN leads, NEW row, leads' = [leads EXCEPT ![l] = row], edits' \in Nat
      PROVE  LeadRows' /\ DOMAIN leads' = DOMAIN leads /\ \A k \in DOMAIN leads : leads'[k] = leads[k]
  <2>1. DOMAIN leads' = DOMAIN leads /\ \A k \in DOMAIN leads : leads'[k] = leads[k]
    BY <1>4
  <2> QED BY <1>1, <1>4, <2>1 DEF LeadRows
<1>5. ASSUME NEW p \in Handlers, WriteLead(p) PROVE LeadRows' /\ edits' = edits + 1
  <2> DEFINE l == proc[p].who
  <2>1. PICK row \in Written(p, l) : leads' = [leads EXCEPT ![l] = row]
    BY <1>5 DEF WriteLead
  <2>5. edits' = edits + 1
    BY <1>5, Zenon DEF WriteLead
  <2>2. edits' = edits + 1 /\ edits' \in Nat
    BY <1>1, <2>5
  <2> HIDE DEF l
  <2>3. CASE l \in DOMAIN leads
    BY <1>1, <1>3, <2>1, <2>2, <2>3, WrittenRow
  <2>4. CASE l \notin DOMAIN leads
    BY <1>4, <2>1, <2>2, <2>4
  <2> QED BY <2>2, <2>3, <2>4
<1>6. ASSUME NEW p \in Handlers, BulkStatus(p) PROVE LeadRows' /\ (LeadsLike \/ edits' = edits + 1)
  <2>1. PICK l \in proc[p].marks, written \in BOOLEAN :
          /\ leads' = [leads EXCEPT ![l].rejected = @ \/ written]
          /\ edits' = IF written THEN edits + 1 ELSE edits
    BY <1>6 DEF BulkStatus
  <2> DEFINE row == [leads[l] EXCEPT !.rejected = @ \/ written]
  <2>2. edits' \in Nat /\ (edits' = edits + 1 \/ (~written /\ edits' = edits))
    BY <1>1, <2>1
  <2>3. leads' = [leads EXCEPT ![l] = row]
    BY <2>1
  <2>4. CASE l \in DOMAIN leads
    <3>1. LeadIs(leads[l])
      BY <1>1, <2>4
    <3>2. LeadIs(row)
      BY <3>1, Zenon DEF LeadIs, LeadFields
    <3>3. ~written => RowLike(row, leads[l])
      BY <3>1, Zenon DEF LeadIs, LeadFields, RowLike
    <3> HIDE DEF row
    <3>4. LeadRows'
      BY <1>3, <2>2, <2>3, <3>2
    <3>5. DOMAIN leads' = DOMAIN leads /\ leads'[l] = row /\ \A k \in DOMAIN leads \ {l} : leads'[k] = leads[k]
      BY <2>3, <2>4
    <3>6. ~written => \A k \in DOMAIN leads : RowLike(leads'[k], leads[k])
      BY <3>3, <3>5 DEF RowLike
    <3> QED BY <2>2, <3>4, <3>5, <3>6 DEF LeadsLike
  <2>5. CASE l \notin DOMAIN leads
    <3> HIDE DEF row
    <3>1. LeadRows' /\ DOMAIN leads' = DOMAIN leads /\ \A k \in DOMAIN leads : leads'[k] = leads[k]
      BY <1>4, <2>2, <2>3, <2>5
    <3> QED BY <2>2, <3>1 DEF LeadsLike, RowLike
  <2> QED BY <2>4, <2>5
<1> QED BY <1>2, <1>5, <1>6, LeadsWritten

(* The leads a request is to find, and those that are left by the          *)
(* sub-queries it has made.                                                *)
Ours(q) == Sees(q, [org |-> 1])
FoundBy(q, i) == Matching(q, ParseLeadFilter(Queries[i]))
CardedBy(q, i, card) == Matching(q, Card(card, ParseLeadFilter(Queries[i])))
Sifted(q, i) == {l \in DOMAIN leads :
  /\ Queries[i].signals > 0 /\ "signals" \notin Ahead(q) => leads[l].signals >= Queries[i].signals /\ Ours(q)
  /\ Queries[i].tech /\ "tech" \notin Ahead(q) => leads[l].tech /\ proc[q].org = 1}
Listing(q) == "answer list" \in Ahead(q)
Carding(q) == "answer kpis" \in Ahead(q)
Signed(q) == proc[q].by = 0 \/ proc[q].by \in DOMAIN sessions
AskedIn(q, i) == proc[q].id = i /\ Signed(q) /\ proc[q].saw \in Nat /\ proc[q].saw <= edits
ListRight(q, i) ==
  /\ proc[q].marks = Sifted(q, i)
  /\ "count rows" \notin Ahead(q) => tally[q].total = Cardinality(FoundBy(q, i) \cap proc[q].marks)
  /\ "find rows" \notin Ahead(q) => tally[q].ids = FoundBy(q, i) \cap proc[q].marks
ListOK(q) == Listing(q) => \E i \in DOMAIN Queries :
  /\ AskedIn(q, i)
  /\ "signals" \in Ahead(q) => Queries[i].signals > 0 /\ "count rows" \in Ahead(q) /\ "find rows" \in Ahead(q)
  /\ "tech" \in Ahead(q) => Queries[i].tech /\ "count rows" \in Ahead(q) /\ "find rows" \in Ahead(q)
  /\ proc[q].saw = edits => ListRight(q, i)
Uncounted(q) == IF "cards" \in Ahead(q) THEN proc[q].marks ELSE {}
CardRight(q, i) == \A n \in DOMAIN Cards \ Uncounted(q) : tally[q][Cards[n]] = Cardinality(CardedBy(q, i, Cards[n]))
CardOK(q) == Carding(q) => \E i \in DOMAIN Queries : AskedIn(q, i) /\ (proc[q].saw = edits => CardRight(q, i))
TallyIs == DOMAIN tally = Handlers /\ \A q \in Handlers : DOMAIN tally[q] = {"total", "A", "B", "C", "ids"}
AnswerOK == answer.since \in Nat /\ answer.since <= edits /\ FilterKept
ListSafe == LeadRows /\ TallyIs /\ AnswerOK /\ \A q \in Handlers : ListOK(q) /\ CardOK(q)

LEMMA ListKinds ==
  /\ Kind("signals") = "list" /\ Kind("tech") = "list" /\ Kind("count rows") = "list" /\ Kind("find rows") = "list"
  /\ Kind("answer list") = "list" /\ Kind("cards") = "list" /\ Kind("answer kpis") = "list"
  BY ListIn, ListKin, Zenon
LEMMA ListNone == ASSUME NEW q, ~Has(proc'[q], "list") PROVE ListOK(q)' /\ CardOK(q)'
<1>1. ~Listing(q)' /\ ~Carding(q)'
  BY ListKinds, Zenon DEF Has, Listing, Carding, Ahead
<1> QED BY <1>1, Zenon DEF ListOK, CardOK
(* A request that is as it was finds what it did, of leads that are.       *)
LEMMA OursStay ==
  ASSUME NEW q, proc'[q].by = proc[q].by, proc'[q].op = proc[q].op, proc'[q].org = proc[q].org,
         Signed(q), SessionsStay
  PROVE  (Ours(q)' <=> Ours(q)) /\ (Unscoped(q)' <=> Unscoped(q))
  BY DEF Ours, Unscoped, Sees, SessionsStay, Signed
LEMMA MatchingStay ==
  ASSUME NEW q, Ours(q)' <=> Ours(q), DOMAIN leads' = DOMAIN leads, \A l \in DOMAIN leads : RowLike(leads'[l], leads[l]),
         NEW where
  PROVE  Matching(q, where)' = Matching(q, where)
<1>1. \A l \in DOMAIN leads : leads'[l].score = leads[l].score /\ leads'[l].rejected = leads[l].rejected
  BY DEF RowLike
<1>2. Sees(q, [org |-> 1])' <=> Sees(q, [org |-> 1])
  BY DEF Ours
<1>3. \A l \in DOMAIN leads : Shown(where.mode, leads'[l]) <=> Shown(where.mode, leads[l])
  BY <1>1 DEF Shown
<1> QED BY <1>1, <1>2, <1>3 DEF Matching
LEMMA FoundStay ==
  ASSUME NEW q, Ours(q)' <=> Ours(q), DOMAIN leads' = DOMAIN leads, \A l \in DOMAIN leads : RowLike(leads'[l], leads[l]),
         NEW i
  PROVE  FoundBy(q, i)' = FoundBy(q, i) /\ \A card : CardedBy(q, i, card)' = CardedBy(q, i, card)
<1>1. FoundBy(q, i)' = FoundBy(q, i)
  BY MatchingStay DEF FoundBy
<1>2. ASSUME NEW card PROVE CardedBy(q, i, card)' = CardedBy(q, i, card)
  BY MatchingStay DEF CardedBy
<1> QED BY <1>1, <1>2
LEMMA SiftedStay ==
  ASSUME NEW q, Ours(q)' <=> Ours(q), DOMAIN leads' = DOMAIN leads, \A l \in DOMAIN leads : RowLike(leads'[l], leads[l]),
         NEW i, proc'[q].org = proc[q].org, "signals" \in Ahead(q)' <=> "signals" \in Ahead(q), "tech" \in Ahead(q)' <=> "tech" \in Ahead(q)
  PROVE  Sifted(q, i)' = Sifted(q, i)
  BY DEF Sifted, RowLike
LEMMA IntactAhead ==
  ASSUME NEW q, Intact(q, "list")
  PROVE  /\ "signals" \in Ahead(q)' <=> "signals" \in Ahead(q)
         /\ "tech" \in Ahead(q)' <=> "tech" \in Ahead(q)
         /\ "count rows" \in Ahead(q)' <=> "count rows" \in Ahead(q)
         /\ "find rows" \in Ahead(q)' <=> "find rows" \in Ahead(q)
         /\ "cards" \in Ahead(q)' <=> "cards" \in Ahead(q)
         /\ (Listing(q)' <=> Listing(q)) /\ (Carding(q)' <=> Carding(q))
  BY ListKinds, Zenon DEF Intact, Listing, Carding
LEMMA IntactFields ==
  ASSUME NEW q, Intact(q, "list")
  PROVE  /\ proc'[q].id = proc[q].id /\ proc'[q].by = proc[q].by /\ proc'[q].op = proc[q].op /\ proc'[q].org = proc[q].org
         /\ proc'[q].saw = proc[q].saw /\ proc'[q].marks = proc[q].marks
  BY AllFields DEF Intact
Edited == LeadsLike \/ edits' = edits + 1
LEMMA AskedStay ==
  ASSUME NEW q, NEW i, SessionsStay, edits \in Nat, Edited, AskedIn(q, i),
         proc'[q].id = proc[q].id, proc'[q].by = proc[q].by, proc'[q].saw = proc[q].saw
  PROVE  AskedIn(q, i)' /\ (proc'[q].saw = edits' => proc[q].saw = edits /\ LeadsLike)
<1>1. edits' = edits \/ edits' = edits + 1
  BY DEF Edited, LeadsLike
<1>2. proc[q].id = i /\ Signed(q) /\ proc[q].saw \in Nat /\ proc[q].saw <= edits
  BY DEF AskedIn
<1>3. proc'[q].saw <= edits' /\ (proc'[q].saw = edits' => edits' = edits /\ edits' # edits + 1)
  BY <1>1, <1>2
<1> QED BY <1>2, <1>3 DEF AskedIn, SessionsStay, Edited, Signed
LEMMA ListIntact ==
  ASSUME NEW q, Intact(q, "list"), SessionsStay, tally'[q] = tally[q], edits \in Nat, Edited, ListOK(q), CardOK(q)
  PROVE  ListOK(q)' /\ CardOK(q)'
<1>1. /\ proc'[q].id = proc[q].id /\ proc'[q].by = proc[q].by /\ proc'[q].op = proc[q].op /\ proc'[q].org = proc[q].org
      /\ proc'[q].saw = proc[q].saw /\ proc'[q].marks = proc[q].marks
  BY IntactFields
<1>2. /\ "signals" \in Ahead(q)' <=> "signals" \in Ahead(q)
      /\ "tech" \in Ahead(q)' <=> "tech" \in Ahead(q)
      /\ "count rows" \in Ahead(q)' <=> "count rows" \in Ahead(q)
      /\ "find rows" \in Ahead(q)' <=> "find rows" \in Ahead(q)
      /\ "cards" \in Ahead(q)' <=> "cards" \in Ahead(q)
      /\ (Listing(q)' <=> Listing(q)) /\ (Carding(q)' <=> Carding(q))
  BY IntactAhead
<1>3. ASSUME NEW i \in DOMAIN Queries, AskedIn(q, i)
      PROVE  /\ AskedIn(q, i)'
             /\ proc'[q].saw = edits' => proc[q].saw = edits
             /\ proc'[q].saw = edits' => /\ FoundBy(q, i)' = FoundBy(q, i) /\ Sifted(q, i)' = Sifted(q, i)
                                         /\ \A card : CardedBy(q, i, card)' = CardedBy(q, i, card)
  <2>1. AskedIn(q, i)' /\ (proc'[q].saw = edits' => proc[q].saw = edits /\ LeadsLike)
    BY <1>1, <1>3, AskedStay
  <2>2. Ours(q)' <=> Ours(q)
    BY <1>1, <1>3, OursStay DEF AskedIn
  <2>3. LeadsLike => DOMAIN leads' = DOMAIN leads /\ \A l \in DOMAIN leads : RowLike(leads'[l], leads[l])
    BY DEF LeadsLike
  <2>4. LeadsLike => FoundBy(q, i)' = FoundBy(q, i) /\ \A card : CardedBy(q, i, card)' = CardedBy(q, i, card)
    BY <2>2, <2>3, FoundStay
  <2>5. LeadsLike => Sifted(q, i)' = Sifted(q, i)
    BY <1>1, <1>2, <2>2, <2>3, SiftedStay
  <2> QED BY <2>1, <2>4, <2>5
<1>4. ListOK(q)'
  <2>1. SUFFICES ASSUME Listing(q)' PROVE ListOK(q)'
    BY DEF ListOK
  <2>2. PICK i \in DOMAIN Queries :
          /\ AskedIn(q, i)
          /\ "signals" \in Ahead(q) => Queries[i].signals > 0 /\ "count rows" \in Ahead(q) /\ "find rows" \in Ahead(q)
          /\ "tech" \in Ahead(q) => Queries[i].tech /\ "count rows" \in Ahead(q) /\ "find rows" \in Ahead(q)
          /\ proc[q].saw = edits => ListRight(q, i)
    BY <1>2, <2>1 DEF ListOK
  <2>3. ASSUME proc'[q].saw = edits' PROVE ListRight(q, i)'
    <3>1. FoundBy(q, i)' = FoundBy(q, i) /\ Sifted(q, i)' = Sifted(q, i) /\ ListRight(q, i)
      BY <1>3, <2>2, <2>3
    <3>2. proc[q].marks = Sifted(q, i)
      BY <3>1 DEF ListRight
    <3>3. "count rows" \notin Ahead(q)' => tally'[q].total = Cardinality(FoundBy(q, i)' \cap proc'[q].marks)
      BY <1>1, <1>2, <3>1, Zenon DEF ListRight
    <3>4. "find rows" \notin Ahead(q)' => tally'[q].ids = FoundBy(q, i)' \cap proc'[q].marks
      BY <1>1, <1>2, <3>1, Zenon DEF ListRight
    <3> QED BY <1>1, <3>1, <3>2, <3>3, <3>4, Zenon DEF ListRight
  <2>4. AskedIn(q, i)'
    BY <1>3, <2>2
  <2> QED BY <1>2, <2>2, <2>3, <2>4, Zenon DEF ListOK
<1>5. CardOK(q)'
  <2>1. SUFFICES ASSUME Carding(q)' PROVE CardOK(q)'
    BY DEF CardOK
  <2>2. PICK i \in DOMAIN Queries : AskedIn(q, i) /\ (proc[q].saw = edits => CardRight(q, i))
    BY <1>2, <2>1 DEF CardOK
  <2>3. ASSUME proc'[q].saw = edits' PROVE CardRight(q, i)'
    <3>1. (\A card : CardedBy(q, i, card)' = CardedBy(q, i, card)) /\ CardRight(q, i)
      BY <1>3, <2>2, <2>3
    <3>2. Uncounted(q)' = Uncounted(q)
      BY <1>1, <1>2 DEF Uncounted
    <3>3. ASSUME NEW n \in DOMAIN Cards \ Uncounted(q)'
          PROVE  tally'[q][Cards[n]] = Cardinality(CardedBy(q, i, Cards[n])')
      BY <3>1, <3>2, <3>3 DEF CardRight
    <3> QED BY <3>3 DEF CardRight
  <2>4. AskedIn(q, i)'
    BY <1>3, <2>2
  <2> QED BY <2>2, <2>3, <2>4, Zenon DEF CardOK
<1> QED BY <1>4, <1>5
TallyFields == {"total", "A", "B", "C", "ids"}
(* What p does to the tallies and to its own request.                      *)
Tallies(p) ==
  /\ \E t : tally' = [tally EXCEPT ![p] = t] /\ DOMAIN t = TallyFields
  /\ ListOK(p)' /\ CardOK(p)'
LEMMA NoTallyIs == DOMAIN NoTally = TallyFields
  BY DEF NoTally, TallyFields
LEMMA ListDoors == ListClan \cap Doors = {}
  BY ZenonT(40) DEF ListClan, Doors
LEMMA ListAsked ==
  ASSUME ProcInv, menu \in Menus, LeadRows, NEW p \in Handlers, ListLeads(p)
  PROVE  Tallies(p) /\ answer' = answer
<1> DEFINE k == "list"
<1>1. PICK i \in menu.filters, both \in BothSigns :
        AskFor(p, k, i, DOMAIN leads,
               (IF Queries[i].signals > 0 THEN <<"signals">> ELSE <<>>)
                 \o (IF Queries[i].tech THEN <<"tech">> ELSE <<>>) \o both \o <<"answer list">>)
  BY DEF ListLeads, BothSigns
<1> DEFINE t == (IF Queries[i].signals > 0 THEN <<"signals">> ELSE <<>>)
                 \o (IF Queries[i].tech THEN <<"tech">> ELSE <<>>) \o both \o <<"answer list">>
<1>2. t \in Seq(Kin("list")) /\ Ordered(t) /\ Words(t) = ListAwaits(i)
  BY ListsProgram
<1>3. AskFor(p, k, i, DOMAIN leads, t) /\ k \in {"list", "kpis"}
  BY <1>1
<1> HIDE DEF t, k
<1>4. /\ UNCHANGED <<accounts, tenancy, book, answer>>
      /\ proc'[p].id = i /\ proc'[p].marks = DOMAIN leads /\ proc'[p].saw = edits
      /\ tally' = [tally EXCEPT ![p] = NoTally] /\ proc'[p].by \in Tokens
      /\ \A w : w \notin Doors => (w \in Ahead(p)' <=> w \in Words(t))
  BY <1>2, <1>3, AskForMove
<1>5. sessions' = sessions /\ leads' = leads /\ edits' = edits
  BY <1>4 DEF accounts, book
<1>6. \A w \in ListClan : w \in Ahead(p)' <=> w \in ListAwaits(i)
  BY <1>2, <1>4, ListDoors
<1>7. /\ "signals" \in Ahead(p)' <=> Queries[i].signals > 0
      /\ "tech" \in Ahead(p)' <=> Queries[i].tech
      /\ "count rows" \in Ahead(p)' /\ "find rows" \in Ahead(p)' /\ "answer kpis" \notin Ahead(p)'
  <2>1. /\ "signals" \in Ahead(p)' <=> "signals" \in ListAwaits(i)
        /\ "tech" \in Ahead(p)' <=> "tech" \in ListAwaits(i)
        /\ "count rows" \in Ahead(p)' <=> "count rows" \in ListAwaits(i)
        /\ "find rows" \in Ahead(p)' <=> "find rows" \in ListAwaits(i)
        /\ "answer kpis" \in Ahead(p)' <=> "answer kpis" \in ListAwaits(i)
    BY <1>6, ListIn, Zenon
  <2>2. "signals" \in ListAwaits(i) <=> Queries[i].signals > 0
    BY ZenonT(40) DEF ListAwaits
  <2>3. "tech" \in ListAwaits(i) <=> Queries[i].tech
    BY ZenonT(40) DEF ListAwaits
  <2>4. "count rows" \in ListAwaits(i) /\ "find rows" \in ListAwaits(i) /\ "answer kpis" \notin ListAwaits(i)
    BY ZenonT(40) DEF ListAwaits
  <2> QED BY <2>1, <2>2, <2>3, <2>4, Zenon
<1>8. i \in DOMAIN Queries
  BY ListAssumption
<1>9. edits \in Nat
  BY DEF LeadRows
<1>10. AskedIn(p, i)'
  BY <1>4, <1>5, <1>9 DEF AskedIn, Signed, Tokens
<1>11. Sifted(p, i)' = DOMAIN leads
  BY <1>5, <1>7, Zenon DEF Sifted
<1>12. ListRight(p, i)'
  BY <1>4, <1>7, <1>11, Zenon DEF ListRight
<1>13. ListOK(p)'
  BY <1>7, <1>8, <1>10, <1>12, Zenon DEF ListOK
<1>14. CardOK(p)'
  BY <1>7, Zenon DEF CardOK, Carding
<1> QED BY <1>4, <1>13, <1>14, NoTallyIs DEF Tallies
LEMMA CardsAsked ==
  ASSUME ProcInv, menu \in Menus, LeadRows, NEW p \in Handlers, LeadKpis(p)
  PROVE  Tallies(p) /\ answer' = answer
<1> DEFINE t == <<"cards", "answer kpis">>
           k == "kpis"
           all == DOMAIN Cards
<1>1. PICK i \in menu.filters : AskFor(p, k, i, all, t)
  BY DEF LeadKpis
<1>2. t \in Seq(Kin("list")) /\ Ordered(t) /\ k \in {"list", "kpis"}
  BY CardsProgram
<1>3. Words(t) = {"cards", "answer kpis"}
  BY CardsProgram
<1> HIDE DEF t, k, all
<1>4. /\ UNCHANGED <<accounts, tenancy, book, answer>>
      /\ proc'[p].id = i /\ proc'[p].marks = all /\ proc'[p].saw = edits
      /\ tally' = [tally EXCEPT ![p] = NoTally] /\ proc'[p].by \in Tokens
      /\ \A w : w \notin Doors => (w \in Ahead(p)' <=> w \in Words(t))
  BY <1>1, <1>2, AskForMove
<1>5. sessions' = sessions /\ leads' = leads /\ edits' = edits
  BY <1>4 DEF accounts, book
<1>6. \A w \in ListClan : w \in Ahead(p)' <=> w \in {"cards", "answer kpis"}
  BY <1>3, <1>4, ListDoors
<1>7. "cards" \in Ahead(p)' /\ "answer list" \notin Ahead(p)'
  <2>1. /\ "cards" \in Ahead(p)' <=> "cards" \in {"cards", "answer kpis"}
        /\ "answer list" \in Ahead(p)' <=> "answer list" \in {"cards", "answer kpis"}
    BY <1>6, ListIn, Zenon
  <2> QED BY <2>1, Zenon
<1>8. i \in DOMAIN Queries
  BY ListAssumption
<1>9. edits \in Nat
  BY DEF LeadRows
<1>10. AskedIn(p, i)'
  BY <1>4, <1>5, <1>9 DEF AskedIn, Signed, Tokens
<1>11. Uncounted(p)' = DOMAIN Cards
  BY <1>4, <1>7, Zenon DEF Uncounted, all
<1>12. CardRight(p, i)'
  BY <1>11, Zenon DEF CardRight
<1>13. CardOK(p)'
  BY <1>8, <1>10, <1>12, Zenon DEF CardOK
<1>14. ListOK(p)'
  BY <1>7, Zenon DEF ListOK, Listing
<1> QED BY <1>4, <1>13, <1>14, NoTallyIs DEF Tallies
LEMMA ListNever ==
  /\ ~Comes("signals", "signals") /\ ~Comes("signals", "answer kpis")
  /\ ~Comes("tech", "signals") /\ ~Comes("tech", "tech") /\ ~Comes("tech", "answer kpis")
  /\ ~Comes("count rows", "signals") /\ ~Comes("count rows", "tech") /\ ~Comes("count rows", "count rows")
  /\ ~Comes("count rows", "answer kpis")
  /\ ~Comes("find rows", "signals") /\ ~Comes("find rows", "tech") /\ ~Comes("find rows", "find rows")
  /\ ~Comes("find rows", "answer kpis")
  /\ ~Comes("cards", "cards") /\ ~Comes("cards", "answer list")
<1>1. ~Comes("signals", "signals") /\ ~Comes("signals", "answer kpis") /\ ~Comes("tech", "signals")
  BY DEF Comes
<1>2. ~Comes("tech", "tech") /\ ~Comes("tech", "answer kpis")
  BY DEF Comes
<1>3. ~Comes("count rows", "signals") /\ ~Comes("count rows", "tech")
  BY DEF Comes
<1>4. ~Comes("count rows", "count rows") /\ ~Comes("count rows", "answer kpis")
  BY DEF Comes
<1>5. ~Comes("find rows", "signals") /\ ~Comes("find rows", "tech")
  BY DEF Comes
<1>6. ~Comes("find rows", "find rows") /\ ~Comes("find rows", "answer kpis")
  BY DEF Comes
<1>7. ~Comes("cards", "cards") /\ ~Comes("cards", "answer list")
  BY DEF Comes
<1> QED BY <1>1, <1>2, <1>3, <1>4, <1>5, <1>6, <1>7, Zenon
LEMMA NoneAfter == \A w : ~Comes("answer list", w) /\ ~Comes("answer kpis", w)
  BY DEF Comes
LEMMA ListLast ==
  ASSUME ProcInv, FlowInv, NEW p \in Handlers, NEW s \in ListClan, At(p, s)
  PROVE  s \in Ahead(p) /\ \A w \in Ahead(p) : w = s \/ Comes(s, w)
<1>1. s \in OtherWords /\ Kind(s) = "list" /\ "list" \in Kinds
  BY ListKin, KindsAre
<1>2. proc[p].todo \in Seq(Kin("list")) /\ Ordered(proc[p].todo) /\ proc[p].todo # <<>> /\ Head(proc[p].todo) = s
  BY <1>1, AtKind DEF Clanned
<1> QED BY <1>2, OrderedTail DEF Ahead
(* A step of a request that keeps what it is about, while no lead is written. *)
Going1(p) ==
  /\ proc'[p].id = proc[p].id /\ proc'[p].by = proc[p].by /\ proc'[p].op = proc[p].op /\ proc'[p].org = proc[p].org
  /\ proc'[p].saw = proc[p].saw
LEMMA OwnStay ==
  ASSUME NEW p, NEW i, Going1(p), UNCHANGED <<accounts, book>>, AskedIn(p, i)
  PROVE  /\ AskedIn(p, i)' /\ proc'[p].saw = proc[p].saw /\ edits' = edits
         /\ FoundBy(p, i)' = FoundBy(p, i) /\ \A card : CardedBy(p, i, card)' = CardedBy(p, i, card)
         /\ Ours(p)' <=> Ours(p)
         /\ \A l \in DOMAIN leads : leads'[l] = leads[l]
         /\ DOMAIN leads' = DOMAIN leads
<1>1. sessions' = sessions /\ leads' = leads /\ edits' = edits
  BY DEF accounts, book
<1>2. AskedIn(p, i)'
  BY <1>1 DEF AskedIn, Going1, Signed
<1>3. SessionsStay /\ Signed(p)
  BY <1>1 DEF SessionsStay, AskedIn
<1>4. Ours(p)' <=> Ours(p)
  BY <1>3, OursStay DEF Going1
<1>5. DOMAIN leads' = DOMAIN leads /\ \A l \in DOMAIN leads : RowLike(leads'[l], leads[l])
  BY <1>1 DEF RowLike
<1>6. FoundBy(p, i)' = FoundBy(p, i) /\ \A card : CardedBy(p, i, card)' = CardedBy(p, i, card)
  BY <1>4, <1>5, FoundStay
<1> QED BY <1>1, <1>2, <1>4, <1>6 DEF Going1
LEMMA AlterGoing ==
  ASSUME NEW p, NEW fs, Alters(p, fs), fs \subseteq {"todo", "marks"}
  PROVE  Going1(p) /\ ("marks" \notin fs => proc'[p].marks = proc[p].marks)
<1>1. \A f \in {"id", "by", "op", "org", "saw"} : f \in Fields \ fs
  BY AllFields
<1> QED BY <1>1, AllFields DEF Alters, Going1
(* The sub-queries leave what is sifted by those that were made.           *)
Sieved(p, i, s) ==
  IF s = "signals" THEN {l \in DOMAIN leads : leads[l].signals >= Queries[i].signals /\ Ours(p)}
                   ELSE {l \in DOMAIN leads : leads[l].tech /\ proc[p].org = 1}
LEMMA Sieve ==
  ASSUME NEW p, NEW i, AskedIn(p, i), Going1(p), Ours(p)' <=> Ours(p), DOMAIN leads' = DOMAIN leads,
         \A l \in DOMAIN leads : leads'[l] = leads[l],
         NEW s \in {"signals", "tech"}, s \notin Ahead(p)', s \in Ahead(p), \A w \in {"signals", "tech"} : w # s => (w \in Ahead(p)' <=> w \in Ahead(p)),
         IF s = "signals" THEN Queries[i].signals > 0 ELSE Queries[i].tech
  PROVE  Sifted(p, i)' = Sifted(p, i) \cap Sieved(p, i, s)
<1> DEFINE a == Queries[i].signals > 0
           b == Queries[i].tech
           A(l) == leads[l].signals >= Queries[i].signals /\ Ours(p)
           B(l) == leads[l].tech /\ proc[p].org = 1
<1>1. Sifted(p, i) = {l \in DOMAIN leads : (a /\ "signals" \notin Ahead(p) => A(l)) /\ (b /\ "tech" \notin Ahead(p) => B(l))}
  BY Zenon DEF Sifted
<1>2. \A l \in DOMAIN leads : (leads'[l].signals >= Queries[i].signals /\ Ours(p)' <=> A(l)) /\ (leads'[l].tech /\ proc'[p].org = 1 <=> B(l))
  BY Zenon DEF Going1
<1>3. Sifted(p, i)' = {l \in DOMAIN leads' : /\ a /\ "signals" \notin Ahead(p)' => leads'[l].signals >= Queries[i].signals /\ Ours(p)'
                                             /\ b /\ "tech" \notin Ahead(p)' => leads'[l].tech /\ proc'[p].org = 1}
  BY Zenon DEF Sifted
<1>4. Sifted(p, i)' = {l \in DOMAIN leads : (a /\ "signals" \notin Ahead(p)' => A(l)) /\ (b /\ "tech" \notin Ahead(p)' => B(l))}
  BY <1>2, <1>3
<1>5. CASE s = "signals"
  <2>1. Sieved(p, i, s) = {l \in DOMAIN leads : A(l)} /\ a
    BY <1>5 DEF Sieved
  <2>2. "signals" \notin Ahead(p)' /\ "signals" \in Ahead(p) /\ ("tech" \in Ahead(p)' <=> "tech" \in Ahead(p))
    BY <1>5
  <2> HIDE DEF a, b, A, B
  <2> QED BY <1>1, <1>4, <2>1, <2>2
<1>6. CASE s = "tech"
  <2>1. Sieved(p, i, s) = {l \in DOMAIN leads : B(l)} /\ b
    BY <1>6 DEF Sieved
  <2>2. "tech" \notin Ahead(p)' /\ "tech" \in Ahead(p) /\ ("signals" \in Ahead(p)' <=> "signals" \in Ahead(p))
    BY <1>6
  <2> HIDE DEF a, b, A, B
  <2> QED BY <1>1, <1>4, <2>1, <2>2
<1> QED BY <1>5, <1>6
LEMMA Narrowed ==
  ASSUME ProcInv, FlowInv, NEW p \in Handlers, Narrow(p), ListOK(p)
  PROVE  tally' = tally /\ answer' = answer /\ ListOK(p)' /\ CardOK(p)'
<1>1. ListStep(p) /\ UNCHANGED <<tally, answer>>
  BY DEF ListStep, Narrow, lists
<1>2. UNCHANGED <<accounts, tenancy, book>>
  BY <1>1, ListWorks
<1>3. PICK s \in {"signals", "tech"} : At(p, s) /\ (s = "signals" <=> At(p, "signals"))
  <2>1. At(p, "signals") \/ At(p, "tech")
    BY DEF Narrow
  <2> QED BY <2>1, Zenon
<1>4. s \in ListClan
  BY ListIn
<1>5. s \in OtherWords /\ Kind(s) = "list" /\ "list" \in Kinds
  BY <1>4, ListKin, KindsAre
<1> DEFINE left == Sieved(p, proc[p].id, s)
           t == Tail(proc[p].todo)
           m == proc[p].marks \cap left
<1>6. proc' = [proc EXCEPT ![p].todo = Tail(@), ![p].marks = @ \cap left]
  BY <1>3, Zenon DEF Narrow, Query, Ours, Sieved
<1>7. Away(proc[p])
  BY <1>3, <1>5, AtKind
<1> HIDE DEF left
<1>8. proc' = [proc EXCEPT ![p].todo = t, ![p].marks = m]
  BY <1>6, <1>7 DEF ProcInv
<1> HIDE DEF t, m
<1>9. Alters(p, {"todo", "marks"}) /\ proc'[p].todo = t /\ proc'[p].marks = m
  BY <1>7, <1>8, SetMarks
<1>10. Going1(p)
  BY <1>9, AlterGoing
<1>11. proc'[p].todo = Tail(proc[p].todo)
  BY <1>9 DEF t
<1>12. Passes(p, s)
  BY <1>3, <1>5, <1>11, Tailed
<1>13. s \in Ahead(p) /\ s \notin Ahead(p)' /\ "answer kpis" \notin Ahead(p)' /\ \A w : w # s => (w \in Ahead(p)' <=> w \in Ahead(p))
  <2>1. ~Comes(s, s) /\ ~Comes(s, "answer kpis")
    BY ListNever
  <2> QED BY <1>12, <2>1 DEF Passes
<1>14. s # "count rows" /\ s # "find rows" /\ s # "answer list"
  OBVIOUS
<1>15. CardOK(p)'
  BY <1>13, Zenon DEF CardOK, Carding
<1>16. ListOK(p)'
  <2>1. SUFFICES ASSUME Listing(p)' PROVE ListOK(p)'
    BY DEF ListOK
  <2>2. Listing(p)
    BY <1>13, <1>14, <2>1, Zenon DEF Listing
  <2>3. PICK i \in DOMAIN Queries :
          /\ AskedIn(p, i)
          /\ "signals" \in Ahead(p) => Queries[i].signals > 0 /\ "count rows" \in Ahead(p) /\ "find rows" \in Ahead(p)
          /\ "tech" \in Ahead(p) => Queries[i].tech /\ "count rows" \in Ahead(p) /\ "find rows" \in Ahead(p)
          /\ proc[p].saw = edits => ListRight(p, i)
    BY <2>2 DEF ListOK
  <2>4. /\ AskedIn(p, i)' /\ proc'[p].saw = proc[p].saw /\ edits' = edits
        /\ Ours(p)' <=> Ours(p)
        /\ \A l \in DOMAIN leads : leads'[l] = leads[l]
        /\ DOMAIN leads' = DOMAIN leads
    BY <1>2, <1>10, <2>3, OwnStay
  <2>5. IF s = "signals" THEN Queries[i].signals > 0 ELSE Queries[i].tech
    BY <1>3, <1>13, <2>3
  <2>6. "count rows" \in Ahead(p)' /\ "find rows" \in Ahead(p)'
    BY <1>13, <1>14, <2>3, Zenon
  <2>7. "signals" \in Ahead(p)' => "signals" \in Ahead(p)
    BY <1>13
  <2>8. "tech" \in Ahead(p)' => "tech" \in Ahead(p)
    BY <1>13
  <2>9. proc[p].id = i
    BY <2>3 DEF AskedIn
  <2>10. left = Sieved(p, i, s)
    BY <2>9 DEF left
  <2>11. \A w \in {"signals", "tech"} : w # s => (w \in Ahead(p)' <=> w \in Ahead(p))
    BY <1>13
  <2>12. Sifted(p, i)' = Sifted(p, i) \cap left
    BY <1>10, <1>13, <2>3, <2>4, <2>5, <2>10, <2>11, Sieve
  <2>13. ASSUME proc'[p].saw = edits' PROVE ListRight(p, i)'
    <3>1. proc[p].marks = Sifted(p, i)
      BY <2>3, <2>4, <2>13 DEF ListRight
    <3>2. proc'[p].marks = Sifted(p, i)'
      BY <1>9, <2>12, <3>1 DEF m
    <3> QED BY <2>6, <3>2, Zenon DEF ListRight
  <2> QED BY <2>3, <2>4, <2>6, <2>7, <2>8, <2>13, Zenon DEF ListOK
<1> QED BY <1>1, <1>15, <1>16
(* The total and the rows, asked together, are of what is left.            *)
LEMMA Looked ==
  ASSUME ProcInv, FlowInv, NEW p \in Handlers, NEW s \in {"count rows", "find rows"}, At(p, s), proc' = Advance(p),
         UNCHANGED <<accounts, book>>, ListOK(p),
         s = "count rows" => tally'[p].total = Cardinality(Selected(p)) /\ tally'[p].ids = tally[p].ids,
         s = "find rows" => tally'[p].ids = Selected(p) /\ tally'[p].total = tally[p].total
  PROVE  ListOK(p)' /\ CardOK(p)'
<1>1. s \in ListClan
  BY ListIn
<1>2. s \in OtherWords /\ Kind(s) = "list" /\ "list" \in Kinds
  BY <1>1, ListKin, KindsAre
<1>3. proc'[p] = Idle \/ (Alters(p, {"todo"}) /\ Passes(p, s))
  BY <1>2, TurnMove
<1>4. CASE proc'[p] = Idle
  BY <1>2, <1>4, NothingAhead, ListNone
<1>5. CASE Alters(p, {"todo"}) /\ Passes(p, s)
  <2>1. Going1(p) /\ proc'[p].marks = proc[p].marks
    <3> DEFINE fs == {"todo"}
    <3>1. Alters(p, fs) /\ fs \subseteq {"todo", "marks"} /\ "marks" \notin fs
      BY <1>5
    <3> HIDE DEF fs
    <3> QED BY <3>1, AlterGoing
  <2>2. ~Comes(s, s) /\ ~Comes(s, "answer kpis") /\ ~Comes(s, "signals") /\ ~Comes(s, "tech")
    BY ListNever
  <2>3. \A w : w \in Ahead(p) <=> w = s \/ w \in Ahead(p)'
    BY <1>5 DEF Passes
  <2>4. s \notin Ahead(p)' /\ "answer kpis" \notin Ahead(p)' /\ "signals" \notin Ahead(p)' /\ "tech" \notin Ahead(p)'
    BY <1>5, <2>2 DEF Passes
  <2>5. s # "signals" /\ s # "tech" /\ s # "answer list"
    OBVIOUS
  <2>6. CardOK(p)'
    BY <2>4, Zenon DEF CardOK, Carding
  <2>7. ListOK(p)'
    <3>1. SUFFICES ASSUME Listing(p)' PROVE ListOK(p)'
      BY DEF ListOK
    <3>2. Listing(p)
      BY <2>3, <3>1, Zenon DEF Listing
    <3>3. PICK i \in DOMAIN Queries :
            /\ AskedIn(p, i)
            /\ proc[p].saw = edits => ListRight(p, i)
      BY <3>2, Zenon DEF ListOK
    <3>4. /\ AskedIn(p, i)' /\ proc'[p].saw = proc[p].saw /\ edits' = edits
          /\ FoundBy(p, i)' = FoundBy(p, i)
          /\ Ours(p)' <=> Ours(p)
          /\ \A l \in DOMAIN leads : leads'[l] = leads[l]
          /\ DOMAIN leads' = DOMAIN leads
      BY <2>1, <3>3, OwnStay
    <3>5. \A l \in DOMAIN leads : RowLike(leads'[l], leads[l])
      BY <3>4 DEF RowLike
    <3>6. /\ "signals" \in Ahead(p)' <=> "signals" \in Ahead(p)
          /\ "tech" \in Ahead(p)' <=> "tech" \in Ahead(p)
      BY <2>3, <2>5, Zenon
    <3>7. proc'[p].org = proc[p].org
      BY <2>1 DEF Going1
    <3>8. Sifted(p, i)' = Sifted(p, i)
      BY <3>4, <3>5, <3>6, <3>7, SiftedStay
    <3>9. Selected(p) = FoundBy(p, i) \cap proc[p].marks
      BY <3>3 DEF Selected, Query, FoundBy, AskedIn
    <3>10. ASSUME proc'[p].saw = edits' PROVE ListRight(p, i)'
      <4>1. ListRight(p, i)
        BY <3>3, <3>4, <3>10
      <4>2. proc'[p].marks = Sifted(p, i)'
        BY <2>1, <3>8, <4>1 DEF ListRight
      <4>3. ASSUME "count rows" \notin Ahead(p)' PROVE tally'[p].total = Cardinality(FoundBy(p, i)' \cap proc'[p].marks)
        <5>1. CASE s = "count rows"
          BY <2>1, <3>4, <3>9, <5>1
        <5>2. CASE s # "count rows"
          <6>1. "count rows" \notin Ahead(p) /\ s = "find rows"
            BY <2>3, <4>3, <5>2
          <6>2. tally[p].total = Cardinality(FoundBy(p, i) \cap proc[p].marks)
            BY <4>1, <6>1 DEF ListRight
          <6> QED BY <2>1, <3>4, <6>1, <6>2
        <5> QED BY <5>1, <5>2
      <4>4. ASSUME "find rows" \notin Ahead(p)' PROVE tally'[p].ids = FoundBy(p, i)' \cap proc'[p].marks
        <5>1. CASE s = "find rows"
          BY <2>1, <3>4, <3>9, <5>1
        <5>2. CASE s # "find rows"
          <6>1. "find rows" \notin Ahead(p) /\ s = "count rows"
            BY <2>3, <4>4, <5>2
          <6>2. tally[p].ids = FoundBy(p, i) \cap proc[p].marks
            BY <4>1, <6>1 DEF ListRight
          <6> QED BY <2>1, <3>4, <6>1, <6>2
        <5> QED BY <5>1, <5>2
      <4> QED BY <4>2, <4>3, <4>4, Zenon DEF ListRight
    <3> QED BY <2>4, <3>3, <3>4, <3>10, Zenon DEF ListOK
  <2> QED BY <2>6, <2>7
<1> QED BY <1>3, <1>4, <1>5
LEMMA TallyHas ==
  /\ "total" \in TallyFields /\ "A" \in TallyFields /\ "B" \in TallyFields /\ "C" \in TallyFields /\ "ids" \in TallyFields
  BY DEF TallyFields
LEMMA TallySet ==
  ASSUME TallyIs, NEW p \in Handlers, NEW f \in TallyFields, NEW x, NEW t, t = [tally[p] EXCEPT ![f] = x]
  PROVE  DOMAIN t = TallyFields /\ t[f] = x /\ \A g \in TallyFields \ {f} : t[g] = tally[p][g]
<1>1. DOMAIN tally[p] = TallyFields
  BY DEF TallyIs, TallyFields
<1> QED BY <1>1
LEMMA RowsLooked ==
  ASSUME ProcInv, FlowInv, TallyIs, NEW p \in Handlers, CountLeads(p) \/ FindRows(p), ListOK(p)
  PROVE  Tallies(p) /\ answer' = answer
<1>1. UNCHANGED <<accounts, book>> /\ answer' = answer
  BY DEF CountLeads, FindRows
<1>2. ASSUME CountLeads(p) PROVE Tallies(p)
  <2> DEFINE s == "count rows"
             f == "total"
  <2>0. PICK x : x = Cardinality(Selected(p))
    OBVIOUS
  <2>1. tally' = [tally EXCEPT ![p][f] = x] /\ f \in TallyFields
    BY <1>2, <2>0, TallyHas DEF CountLeads
  <2>3. At(p, s) /\ proc' = Advance(p)
    BY <1>2 DEF CountLeads
  <2> HIDE DEF f
  <2>6. PICK t : t = [tally[p] EXCEPT ![f] = x]
    OBVIOUS
  <2>7. tally' = [tally EXCEPT ![p] = t] /\ tally'[p] = t
    BY <2>1, <2>6 DEF TallyIs
  <2>2. DOMAIN t = TallyFields /\ t[f] = x /\ \A g \in TallyFields \ {f} : t[g] = tally[p][g]
    BY <2>1, <2>6, TallySet
  <2>4. tally'[p].total = Cardinality(Selected(p)) /\ tally'[p].ids = tally[p].ids
    BY <2>0, <2>2, <2>7, TallyHas DEF f
  <2>5. ListOK(p)' /\ CardOK(p)'
    <3>1. s = "count rows" => tally'[p].total = Cardinality(Selected(p)) /\ tally'[p].ids = tally[p].ids
      BY <2>4
    <3>2. s \in {"count rows", "find rows"} /\ ~(s = "find rows")
      BY Zenon
    <3> HIDE DEF s
    <3> QED BY <1>1, <2>3, <3>1, <3>2, Looked
  <2> QED BY <2>2, <2>5, <2>7 DEF Tallies
<1>3. ASSUME FindRows(p) PROVE Tallies(p)
  <2> DEFINE s == "find rows"
             f == "ids"
  <2>0. PICK x : x = Selected(p)
    OBVIOUS
  <2>1. tally' = [tally EXCEPT ![p][f] = x] /\ f \in TallyFields
    BY <1>3, <2>0, TallyHas DEF FindRows
  <2>3. At(p, s) /\ proc' = Advance(p)
    BY <1>3 DEF FindRows
  <2> HIDE DEF f
  <2>6. PICK t : t = [tally[p] EXCEPT ![f] = x]
    OBVIOUS
  <2>7. tally' = [tally EXCEPT ![p] = t] /\ tally'[p] = t
    BY <2>1, <2>6 DEF TallyIs
  <2>2. DOMAIN t = TallyFields /\ t[f] = x /\ \A g \in TallyFields \ {f} : t[g] = tally[p][g]
    BY <2>1, <2>6, TallySet
  <2>4. tally'[p].ids = Selected(p) /\ tally'[p].total = tally[p].total
    BY <2>0, <2>2, <2>7, TallyHas DEF f
  <2>5. ListOK(p)' /\ CardOK(p)'
    <3>1. s = "find rows" => tally'[p].ids = Selected(p) /\ tally'[p].total = tally[p].total
      BY <2>4
    <3>2. s \in {"count rows", "find rows"} /\ ~(s = "count rows")
      BY Zenon
    <3> HIDE DEF s
    <3> QED BY <1>1, <2>3, <3>1, <3>2, Looked
  <2> QED BY <2>2, <2>5, <2>7 DEF Tallies
<1> QED BY <1>1, <1>2, <1>3
LEMMA CardsAre ==
  /\ DOMAIN Cards = 1..4 /\ Cards[1] = "total" /\ Cards[2] = "A" /\ Cards[3] = "B" /\ Cards[4] = "C"
  /\ \A n \in DOMAIN Cards : Cards[n] \in TallyFields
<1>1. DOMAIN Cards = 1..4 /\ Cards[1] = "total" /\ Cards[2] = "A" /\ Cards[3] = "B" /\ Cards[4] = "C"
  BY DEF Cards
<1>2. \A n \in 1..4 : n = 1 \/ n = 2 \/ n = 3 \/ n = 4
  OBVIOUS
<1> QED BY <1>1, <1>2, TallyHas
(* A card is counted, and what was counted stays.                          *)
LEMMA Summed ==
  ASSUME ProcInv, FlowInv, TallyIs, NEW p \in Handlers, Summarize(p), CardOK(p)
  PROVE  Tallies(p) /\ answer' = answer
<1>1. ListStep(p) /\ answer' = answer
  BY DEF ListStep, Summarize
<1>2. UNCHANGED <<accounts, tenancy, book>>
  BY <1>1, ListWorks
<1> DEFINE s == "cards"
           Value(card) == Cardinality(Matching(p, Card(card, ParseLeadFilter(Query(p)))))
<1>3. PICK i \in proc[p].marks :
        /\ At(p, s)
        /\ tally' = [tally EXCEPT ![p][Cards[i]] = Value(Cards[i])]
        /\ proc' = [proc EXCEPT ![p].marks = @ \ {i}, ![p].todo = IF proc[p].marks = {i} THEN Tail(@) ELSE @]
  BY DEF Summarize
<1>4. s \in ListClan
  BY ListIn
<1>5. s \in OtherWords /\ Kind(s) = "list" /\ "list" \in Kinds
  BY <1>4, ListKin, KindsAre
<1>6. Away(proc[p])
  BY <1>3, <1>5, AtKind
<1> DEFINE todo == IF proc[p].marks = {i} THEN Tail(proc[p].todo) ELSE proc[p].todo
           m == proc[p].marks \ {i}
<1>7. proc' = [proc EXCEPT ![p].todo = todo, ![p].marks = m]
  BY <1>3, <1>6 DEF ProcInv
<1> HIDE DEF todo, m, Value
<1>8. Alters(p, {"todo", "marks"}) /\ proc'[p].todo = todo /\ proc'[p].marks = m
  BY <1>6, <1>7, SetMarks
<1>9. Going1(p)
  BY <1>8, AlterGoing
<1>10. s \in Ahead(p) /\ \A w \in Ahead(p) : w = s \/ Comes(s, w)
  BY <1>3, <1>4, ListLast
<1>11. ~Comes(s, s) /\ ~Comes(s, "answer list")
  BY ListNever
<1>12. /\ proc[p].marks = {i} => Passes(p, s)
       /\ proc[p].marks # {i} => Ahead(p)' = Ahead(p)
  <2>1. ASSUME proc[p].marks = {i} PROVE Passes(p, s)
    <3>1. proc'[p].todo = Tail(proc[p].todo)
      BY <1>8, <2>1 DEF todo
    <3> QED BY <1>3, <1>5, <3>1, Tailed
  <2>2. ASSUME proc[p].marks # {i} PROVE Ahead(p)' = Ahead(p)
    BY <1>8, <2>2 DEF todo, Ahead
  <2> QED BY <2>1, <2>2
<1>13. \A w \in Ahead(p)' : w \in Ahead(p)
  BY <1>12 DEF Passes
<1>14. "answer list" \notin Ahead(p)' /\ ("answer kpis" \in Ahead(p)' => "answer kpis" \in Ahead(p))
  <2>1. s # "answer list"
    BY Zenon
  <2> QED BY <1>10, <1>11, <1>13, <2>1
<1>15. ListOK(p)'
  BY <1>14, Zenon DEF ListOK, Listing
<1>16. s \in Ahead(p)' <=> proc[p].marks # {i}
  BY <1>10, <1>11, <1>12 DEF Passes
<1>17. Uncounted(p) = proc[p].marks /\ Uncounted(p)' = proc[p].marks \ {i}
  <2>1. Uncounted(p)' = IF s \in Ahead(p)' THEN proc'[p].marks ELSE {}
    BY DEF Uncounted
  <2>2. Uncounted(p) = IF s \in Ahead(p) THEN proc[p].marks ELSE {}
    BY DEF Uncounted
  <2> HIDE DEF s
  <2> QED BY <1>8, <1>10, <1>16, <2>1, <2>2 DEF m
<1>18. PICK x : x = Value(Cards[i])
  OBVIOUS
<1>19. PICK card : card = Cards[i]
  OBVIOUS
<1>20. PICK t : t = [tally[p] EXCEPT ![card] = x]
  OBVIOUS
<1>21. tally' = [tally EXCEPT ![p] = t] /\ tally'[p] = t
  <2>1. tally' = [tally EXCEPT ![p][card] = x]
    BY <1>3, <1>18, <1>19
  <2> QED BY <1>20, <2>1 DEF TallyIs
<1>22. DOMAIN t = TallyFields /\ (card \in TallyFields => t[card] = x) /\ \A g \in TallyFields \ {card} : t[g] = tally[p][g]
  <2>1. DOMAIN tally[p] = TallyFields
    BY DEF TallyIs, TallyFields
  <2> QED BY <1>20, <2>1
<1>23. CardOK(p)'
  <2>1. SUFFICES ASSUME Carding(p)' PROVE CardOK(p)'
    BY DEF CardOK
  <2>2. Carding(p)
    BY <1>14, <2>1 DEF Carding
  <2>3. PICK j \in DOMAIN Queries : AskedIn(p, j) /\ (proc[p].saw = edits => CardRight(p, j))
    BY <2>2 DEF CardOK
  <2>4. /\ AskedIn(p, j)' /\ proc'[p].saw = proc[p].saw /\ edits' = edits
        /\ \A c : CardedBy(p, j, c)' = CardedBy(p, j, c)
    BY <1>2, <1>9, <2>3, OwnStay
  <2>5. x = Cardinality(CardedBy(p, j, card))
    BY <1>18, <1>19, <2>3 DEF Value, CardedBy, Query, AskedIn
  <2>6. ASSUME proc'[p].saw = edits', NEW n \in DOMAIN Cards \ Uncounted(p)'
        PROVE  tally'[p][Cards[n]] = Cardinality(CardedBy(p, j, Cards[n])')
    <3>1. PICK c : c = Cards[n]
      OBVIOUS
    <3>2. c \in TallyFields
      BY <2>6, <3>1, CardsAre
    <3>3. CASE c = card
      BY <1>21, <1>22, <2>4, <2>5, <3>1, <3>2, <3>3
    <3>4. CASE c # card
      <4>1. n # i
        BY <1>19, <3>1, <3>4
      <4>2. n \in DOMAIN Cards \ Uncounted(p)
        BY <1>17, <2>6, <4>1
      <4>3. tally[p][c] = Cardinality(CardedBy(p, j, c))
        BY <2>3, <2>4, <2>6, <3>1, <4>2 DEF CardRight
      <4> QED BY <1>21, <1>22, <2>4, <3>1, <3>2, <3>4, <4>3
    <3> QED BY <3>3, <3>4
  <2>7. proc'[p].saw = edits' => CardRight(p, j)'
    BY <2>6 DEF CardRight
  <2> QED BY <2>3, <2>4, <2>7 DEF CardOK
<1> QED BY <1>1, <1>15, <1>21, <1>22, <1>23 DEF Tallies
(* What a list and the cards find is what their filter asks for.           *)
WantedBy(q, see) == {l \in DOMAIN leads :
  /\ see /\ Shown(q.mode, leads[l]) /\ Picks(q, leads[l].score)
  /\ leads[l].signals >= q.signals /\ (q.tech => leads[l].tech)}
LEMMA QueryIs == \A i \in DOMAIN Queries : Queries[i] \in QueryRow
<1>1. Queries \in Seq(QueryRow)
  BY ListAssumption
<1> QED BY <1>1
LEMMA QueryFields ==
  ASSUME NEW q \in QueryRow
  PROVE  q.prio \in SUBSET {"A", "B", "C"} /\ q.min \in Nat /\ q.max \in Nat /\ q.signals \in Nat
  BY DEF QueryRow
LEMMA MatchingIs ==
  ASSUME NEW p, NEW where
  PROVE  Matching(p, where) = {l \in DOMAIN leads : /\ Ours(p) /\ Within(where.score, leads[l].score)
                                                    /\ Alternative(where.any, leads[l].score) /\ Shown(where.mode, leads[l])}
  BY Zenon DEF Matching, Ours, Alternative
LEMMA ListFits ==
  ASSUME ThreshB <= ThreshA, LeadRows, NEW p, NEW i \in DOMAIN Queries, NEW found, NEW see \in BOOLEAN,
         found = {l \in FoundBy(p, i) : /\ Queries[i].signals > 0 => leads[l].signals >= Queries[i].signals
                                        /\ Queries[i].tech => leads[l].tech /\ proc[p].org = 1},
         see <=> Ours(p) /\ (Queries[i].tech => proc[p].org = 1)
  PROVE  /\ WantedBy(Queries[i], see) \subseteq found
         /\ ~Widened(Queries[i]) => found = WantedBy(Queries[i], see)
<1>1. PICK q \in QueryRow : q = Queries[i]
  BY QueryIs
<1>2. q.signals \in Nat /\ ThreshA \in Nat /\ ThreshB \in Nat
  BY QueryFields, ListAssumption
<1>3. \A l \in DOMAIN leads : leads[l].score \in Nat /\ leads[l].signals \in Nat
  BY DEF LeadRows, LeadIs
<1>4. \A l \in DOMAIN leads : /\ Picks(q, leads[l].score) => Holds(q, leads[l].score)
                              /\ ~Widened(q) /\ Holds(q, leads[l].score) => Picks(q, leads[l].score)
  BY <1>2, <1>3, FilterSelects
<1>5. FoundBy(p, i) = {l \in DOMAIN leads : Ours(p) /\ Holds(q, leads[l].score) /\ Shown(q.mode, leads[l])}
  BY <1>1, MatchingIs, ParsedAre, Zenon DEF FoundBy, Holds
<1>6. \A l \in DOMAIN leads : leads[l].signals >= q.signals <=> (q.signals > 0 => leads[l].signals >= q.signals)
  BY <1>2, <1>3
<1>7. found = {l \in DOMAIN leads : /\ Ours(p) /\ Holds(q, leads[l].score) /\ Shown(q.mode, leads[l])
                                    /\ leads[l].signals >= q.signals
                                    /\ q.tech => leads[l].tech /\ proc[p].org = 1}
  BY <1>1, <1>5, <1>6
<1>8. see <=> Ours(p) /\ (q.tech => proc[p].org = 1)
  BY <1>1
<1>9. found = {l \in DOMAIN leads : /\ see /\ Holds(q, leads[l].score) /\ Shown(q.mode, leads[l])
                                    /\ leads[l].signals >= q.signals
                                    /\ q.tech => leads[l].tech}
  BY <1>7, <1>8
<1>10. WantedBy(q, see) \subseteq found /\ (~Widened(q) => found = WantedBy(q, see))
  BY <1>4, <1>9 DEF WantedBy
<1> QED BY <1>1, <1>10
LEMMA AlternativeIs ==
  ASSUME ThreshB <= ThreshA, NEW q \in QueryRow, NEW s \in Nat
  PROVE  Alternative(ParseLeadFilter(q).any, s) <=> Cardinality(q.prio) = 1 \/ q.prio = {} \/ (s # 0 /\ Bucket(s) \in q.prio)
<1>1. q.prio \in SUBSET {"A", "B", "C"} /\ ThreshA \in Nat /\ ThreshB \in Nat
  BY QueryFields, ListAssumption
<1>2. ParseLeadFilter(q).any = IF Cardinality(q.prio) = 1 THEN {} ELSE {PriorityToRange(x) : x \in q.prio}
  BY ParsedAre
<1>3. \A x \in q.prio : Within(PriorityToRange(x), s) <=> s # 0 /\ Bucket(s) = x
  BY <1>1, PriorityFits
<1> QED BY <1>2, <1>3 DEF Alternative
Wide(q) == [q EXCEPT !.min = 0, !.max = 0, !.signals = 0, !.tech = FALSE, !.prio = IF Cardinality(@) = 1 THEN {} ELSE @]
LEMMA WideIs ==
  ASSUME NEW q \in QueryRow
  PROVE  /\ Wide(q).min = 0 /\ Wide(q).max = 0 /\ Wide(q).signals = 0 /\ Wide(q).tech = FALSE
         /\ Wide(q).prio = IF Cardinality(q.prio) = 1 THEN {} ELSE q.prio
         /\ Wide(q).mode = q.mode
  BY DEF Wide, QueryRow
LEMMA CardsFit ==
  ASSUME ThreshB <= ThreshA, LeadRows, NEW p, NEW i \in DOMAIN Queries
  PROVE  Cardinality(CardedBy(p, i, "A")) + Cardinality(CardedBy(p, i, "B")) + Cardinality(CardedBy(p, i, "C"))
           = Cardinality({l \in WantedBy(Wide(Queries[i]), Ours(p)) : leads[l].score # 0})
<1>1. PICK q \in QueryRow : q = Queries[i]
  BY QueryIs
<1>2. ThreshA \in Nat /\ ThreshB \in Nat
  BY ListAssumption
<1>3. IsFiniteSet(DOMAIN leads) /\ \A l \in DOMAIN leads : leads[l].score \in Nat /\ leads[l].signals \in Nat
  BY DEF LeadRows, LeadIs
<1> DEFINE fits(l) == Cardinality(q.prio) = 1 \/ q.prio = {} \/ (leads[l].score # 0 /\ Bucket(leads[l].score) \in q.prio)
           S(c) == {l \in DOMAIN leads : /\ Ours(p) /\ leads[l].score # 0 /\ Bucket(leads[l].score) = c /\ fits(l)
                                         /\ Shown(q.mode, leads[l])}
           W == {l \in WantedBy(Wide(q), Ours(p)) : leads[l].score # 0}
<1>4. ASSUME NEW c \in {"A", "B", "C"} PROVE CardedBy(p, i, c) = S(c)
  <2>1. /\ Card(c, ParseLeadFilter(q)).score = PriorityToRange(c)
        /\ Card(c, ParseLeadFilter(q)).any = ParseLeadFilter(q).any
        /\ Card(c, ParseLeadFilter(q)).mode = q.mode
    BY ParsedAre DEF Card, ParseLeadFilter
  <2>2. \A l \in DOMAIN leads : Within(PriorityToRange(c), leads[l].score) <=> leads[l].score # 0 /\ Bucket(leads[l].score) = c
    BY <1>2, <1>3, PriorityFits
  <2>3. \A l \in DOMAIN leads : Alternative(ParseLeadFilter(q).any, leads[l].score) <=> fits(l)
    BY <1>3, AlternativeIs
  <2>4. CardedBy(p, i, c) = {l \in DOMAIN leads : /\ Ours(p) /\ Within(PriorityToRange(c), leads[l].score)
                                                  /\ Alternative(ParseLeadFilter(q).any, leads[l].score) /\ Shown(q.mode, leads[l])}
    BY <1>1, <2>1, MatchingIs DEF CardedBy
  <2> HIDE DEF fits
  <2> QED BY <2>2, <2>3, <2>4
<1>5. W = {l \in DOMAIN leads : Ours(p) /\ leads[l].score # 0 /\ fits(l) /\ Shown(q.mode, leads[l])}
  <2>1. \A l \in DOMAIN leads : leads[l].score # 0 => (Picks(Wide(q), leads[l].score) <=> fits(l))
    BY WideIs DEF Picks
  <2>2. \A l \in DOMAIN leads : leads[l].signals >= Wide(q).signals /\ ~Wide(q).tech
    <3>1. Wide(q).signals = 0
      BY WideIs
    <3>2. ~Wide(q).tech
      BY WideIs, Zenon
    <3> QED BY <1>3, <3>1, <3>2
  <2>3. Wide(q).mode = q.mode
    BY WideIs
  <2> HIDE DEF fits
  <2> QED BY <2>1, <2>2, <2>3 DEF WantedBy
<1>6. \A l : Bucket(leads[l].score) \in {"A", "B", "C"}
  BY DEF Bucket
<1> HIDE DEF fits
<1>7. W = S("A") \cup (S("B") \cup S("C")) /\ S("A") \cap (S("B") \cup S("C")) = {} /\ S("B") \cap S("C") = {}
  BY <1>5, <1>6
<1>8. IsFiniteSet(S("A")) /\ IsFiniteSet(S("B")) /\ IsFiniteSet(S("C"))
  <2>1. \A c : S(c) \subseteq DOMAIN leads
    OBVIOUS
  <2> HIDE DEF S
  <2> QED BY <1>3, <2>1, FS_Subset
<1> HIDE DEF S, W
<1>9. PICK a, b, c : a = S("A") /\ b = S("B") /\ c = S("C")
  OBVIOUS
<1>10. IsFiniteSet(b \cup c) /\ Cardinality(b \cup c) = Cardinality(b) + Cardinality(c) - Cardinality(b \cap c)
  BY <1>8, <1>9, FS_Union
<1>11. Cardinality(a \cup (b \cup c)) = Cardinality(a) + Cardinality(b \cup c) - Cardinality(a \cap (b \cup c))
  BY <1>8, <1>9, <1>10, FS_Union
<1>12. Cardinality(b \cap c) = 0 /\ Cardinality(a \cap (b \cup c)) = 0
  BY <1>7, <1>9, FS_EmptySet
<1>13. Cardinality(a) \in Nat /\ Cardinality(b) \in Nat /\ Cardinality(c) \in Nat
  BY <1>8, <1>9, FS_CardinalityType
<1>14. Cardinality(a \cup (b \cup c)) = Cardinality(a) + Cardinality(b) + Cardinality(c)
  BY <1>10, <1>11, <1>12, <1>13
<1>15. CardedBy(p, i, "A") = a /\ CardedBy(p, i, "B") = b /\ CardedBy(p, i, "C") = c
  BY <1>4, <1>9
<1>16. W = a \cup (b \cup c)
  BY <1>7, <1>9
<1>17. W = {l \in WantedBy(Wide(Queries[i]), Ours(p)) : leads[l].score # 0}
  BY <1>1 DEF W
<1> QED BY <1>14, <1>15, <1>16, <1>17
(* The answer of a list, or of the cards, is what its request found.       *)
LEMMA WantedNext ==
  ASSUME leads' = leads, NEW q, NEW see \in BOOLEAN, Visible(q)' <=> see
  PROVE  Wanted(q)' = WantedBy(q, see)
<1>1. Wanted(q)' = {l \in DOMAIN leads :
        /\ Visible(q)' /\ Shown(q.mode, leads[l]) /\ Scored(q, l)' /\ Between(q, l)'
        /\ leads[l].signals >= q.signals /\ (q.tech => leads[l].tech)}
  BY DEF Wanted, Shown
<1>2. \A l : Scored(q, l)' /\ Between(q, l)' <=> Picks(q, leads[l].score)
  BY Zenon DEF Scored, Between, Picks, Bucket
<1> QED BY <1>1, <1>2 DEF WantedBy
LEMMA AnsweredFit ==
  ASSUME ThreshB <= ThreshA, ProcInv, FlowInv, LeadRows, NEW p \in Handlers, ListOK(p), CardOK(p), Answer(p)
  PROVE  AnswerOK'
<1>1. PICK kind \in {"list", "kpis"} :
        /\ At(p, Answers(kind))
        /\ answer' = [kind |-> kind, query |-> proc[p].id, org |-> proc[p].org, staff |-> Unscoped(p),
                      found |-> tally[p], since |-> proc[p].saw]
  BY DEF Answer
<1>2. ListStep(p)
  BY DEF ListStep
<1>3. leads' = leads /\ edits' = edits
  BY <1>2, ListWorks DEF book
<1> DEFINE s == Answers(kind)
<1>4. s \in ListClan /\ \A w : ~Comes(s, w)
  <2>1. s = "answer list" \/ s = "answer kpis"
    BY Zenon DEF Answers
  <2> QED BY <2>1, ListIn, NoneAfter, Zenon
<1>5. s \in Ahead(p) /\ \A w \in Ahead(p) : w = s
  <2>1. At(p, s)
    BY <1>1
  <2> HIDE DEF s
  <2> QED BY <1>4, <2>1, ListLast
<1>6. /\ answer'.kind = kind /\ answer'.query = proc[p].id /\ answer'.org = proc[p].org
      /\ answer'.found = tally[p] /\ answer'.since = proc[p].saw
  BY <1>1
<1>7. answer'.staff <=> Unscoped(p)
  BY <1>1
<1>8. Ours(p) <=> Unscoped(p) \/ proc[p].org = 1
  BY DEF Ours, Sees
<1>9. CASE kind = "list"
  <2>1. s = "answer list"
    BY <1>9 DEF Answers
  <2>2. Listing(p)
    BY <1>5, <2>1 DEF Listing
  <2>3. PICK i \in DOMAIN Queries : AskedIn(p, i) /\ (proc[p].saw = edits => ListRight(p, i))
    BY <2>2, Zenon DEF ListOK
  <2>4. "count rows" \notin Ahead(p) /\ "find rows" \notin Ahead(p) /\ "signals" \notin Ahead(p) /\ "tech" \notin Ahead(p)
    <3>1. s # "count rows" /\ s # "find rows" /\ s # "signals" /\ s # "tech"
      BY <2>1, Zenon
    <3> QED BY <1>5, <3>1
  <2>5. answer'.since \in Nat /\ answer'.since <= edits' /\ answer'.query = i
    BY <1>3, <1>6, <2>3 DEF AskedIn
  <2>6. KpisFit'
    BY <1>6, <1>9 DEF KpisFit
  <2>7. ListExact'
    <3>1. SUFFICES ASSUME answer'.since = edits' PROVE ListExact'
      BY DEF ListExact, Quiet
    <3>2. ListRight(p, i)
      BY <1>3, <1>6, <2>3, <3>1
    <3> DEFINE q == Queries[i]
               ids == tally[p].ids
               see == Ours(p) /\ (q.tech => proc[p].org = 1)
               sieve == {l \in DOMAIN leads : /\ q.signals > 0 => leads[l].signals >= q.signals /\ Ours(p)
                                              /\ q.tech => leads[l].tech /\ proc[p].org = 1}
    <3>3. Sifted(p, i) = sieve
      BY <2>4, Zenon DEF Sifted
    <3>4. proc[p].marks = sieve /\ ids = FoundBy(p, i) \cap proc[p].marks /\ tally[p].total = Cardinality(FoundBy(p, i) \cap proc[p].marks)
      BY <2>4, <3>2, <3>3 DEF ListRight
    <3>5. \A l \in FoundBy(p, i) : l \in DOMAIN leads /\ Ours(p)
      BY MatchingIs DEF FoundBy
    <3>6. ids = {l \in FoundBy(p, i) : /\ q.signals > 0 => leads[l].signals >= q.signals
                                       /\ q.tech => leads[l].tech /\ proc[p].org = 1}
      BY <3>4, <3>5
    <3>7. see \in BOOLEAN
      OBVIOUS
    <3>8. WantedBy(q, see) \subseteq ids /\ (~Widened(q) => ids = WantedBy(q, see))
      BY <3>6, ListFits
    <3>9. Visible(q)' <=> see
      BY <1>6, <1>7, <1>8 DEF Visible
    <3> HIDE DEF see
    <3>10. Wanted(q)' = WantedBy(q, see)
      BY <1>3, <3>7, <3>9, WantedNext
    <3>11. tally[p].total = Cardinality(ids)
      BY <3>4
    <3>12. answer'.org # 1 /\ ~answer'.staff => ids = {}
      BY <1>6, <1>7, <1>8, <3>4, <3>5
    <3> HIDE DEF q, ids
    <3>13. answer'.found.ids = ids /\ answer'.found.total = Cardinality(ids)
      BY <1>6, <3>11 DEF ids
    <3>14. q = Queries[answer'.query] /\ (Widened(q)' <=> Widened(q))
      BY <2>5 DEF q, Widened
    <3> QED BY <3>8, <3>10, <3>12, <3>13, <3>14 DEF ListExact
  <2> QED BY <2>5, <2>6, <2>7 DEF AnswerOK, FilterKept
<1>10. CASE kind = "kpis"
  <2>1. s = "answer kpis"
    BY <1>10 DEF Answers
  <2>2. Carding(p)
    BY <1>5, <2>1 DEF Carding
  <2>3. PICK i \in DOMAIN Queries : AskedIn(p, i) /\ (proc[p].saw = edits => CardRight(p, i))
    BY <2>2 DEF CardOK
  <2>4. Uncounted(p) = {}
    <3>1. s # "cards"
      BY <2>1, Zenon
    <3> QED BY <1>5, <3>1 DEF Uncounted
  <2>5. answer'.since \in Nat /\ answer'.since <= edits' /\ answer'.query = i
    BY <1>3, <1>6, <2>3 DEF AskedIn
  <2>6. ListExact'
    BY <1>6, <1>10 DEF ListExact
  <2>7. KpisFit'
    <3>1. SUFFICES ASSUME answer'.since = edits' PROVE KpisFit'
      BY DEF KpisFit, Quiet
    <3>2. CardRight(p, i)
      BY <1>3, <1>6, <2>3, <3>1
    <3>3. \A n \in DOMAIN Cards : tally[p][Cards[n]] = Cardinality(CardedBy(p, i, Cards[n]))
      BY <2>4, <3>2 DEF CardRight
    <3>4. /\ tally[p].A = Cardinality(CardedBy(p, i, "A")) /\ tally[p].B = Cardinality(CardedBy(p, i, "B"))
          /\ tally[p].C = Cardinality(CardedBy(p, i, "C"))
      <4>1. 2 \in DOMAIN Cards /\ 3 \in DOMAIN Cards /\ 4 \in DOMAIN Cards
        BY CardsAre
      <4> QED BY <3>3, <4>1, CardsAre
    <3> DEFINE q == Queries[i]
    <3>5. PICK w : w = Wide(q)
      OBVIOUS
    <3>6. w.tech = FALSE
      BY <3>5, QueryIs, WideIs
    <3>7. Visible(w)' <=> Ours(p)
      BY <1>6, <1>7, <1>8, <3>6 DEF Visible
    <3>8. Ours(p) \in BOOLEAN
      BY DEF Ours, Sees, Unscoped
    <3>9. Wanted(w)' = WantedBy(w, Ours(p))
      BY <1>3, <3>7, <3>8, WantedNext
    <3>10. tally[p].A + tally[p].B + tally[p].C = Cardinality({l \in WantedBy(w, Ours(p)) : leads[l].score # 0})
      BY <3>4, <3>5, CardsFit
    <3>11. w = [Queries[answer'.query] EXCEPT !.min = 0, !.max = 0, !.signals = 0, !.tech = FALSE,
                                              !.prio = IF Cardinality(@) = 1 THEN {} ELSE @]
      BY <2>5, <3>5 DEF Wide
    <3> HIDE DEF q
    <3>12. answer'.found.A + answer'.found.B + answer'.found.C = Cardinality({l \in Wanted(w)' : leads'[l].score # 0})
      BY <1>3, <1>6, <3>9, <3>10
    <3> QED BY <3>11, <3>12, Zenon DEF KpisFit
  <2> QED BY <2>5, <2>6, <2>7 DEF AnswerOK, FilterKept
<1> QED BY <1>9, <1>10
LEMMA AnsweredEnds ==
  ASSUME ProcInv, NEW p \in Handlers, Answer(p)
  PROVE  Tallies(p)
<1>1. tally' = [tally EXCEPT ![p] = NoTally] /\ proc' = Ended(p)
  BY DEF Answer
<1>2. proc'[p] = Idle
  BY <1>1 DEF Ended, ProcInv
<1>3. ListOK(p)' /\ CardOK(p)'
  BY <1>2, NothingAhead, KindsAre, ListNone
<1> QED BY <1>1, <1>3, NoTallyIs DEF Tallies
(* An answer stays what was asked for, until a lead is written.            *)
LEMMA AnswerStays ==
  ASSUME LeadRows, AnswerOK, Edited, answer' = answer
  PROVE  AnswerOK'
<1>1. answer.since \in Nat /\ answer.since <= edits /\ ListExact /\ KpisFit /\ edits \in Nat
  BY DEF AnswerOK, FilterKept, LeadRows
<1>2. CASE LeadsLike
  <2>1. edits' = edits /\ DOMAIN leads' = DOMAIN leads /\ \A l \in DOMAIN leads : RowLike(leads'[l], leads[l])
    BY <1>2 DEF LeadsLike
  <2>2. \A l \in DOMAIN leads : /\ leads'[l].score = leads[l].score /\ leads'[l].signals = leads[l].signals
                                /\ leads'[l].tech = leads[l].tech /\ leads'[l].rejected = leads[l].rejected
    BY <2>1 DEF RowLike
  <2>3. ASSUME NEW q PROVE Wanted(q)' = Wanted(q)
    <3>1. Visible(q)' <=> Visible(q)
      BY DEF Visible
    <3>2. ASSUME NEW l \in DOMAIN leads
          PROVE  /\ Shown(q.mode, leads[l])' <=> Shown(q.mode, leads[l])
                 /\ Scored(q, l)' <=> Scored(q, l)
                 /\ Between(q, l)' <=> Between(q, l)
      BY <2>2, <3>2 DEF Shown, Scored, Between, Bucket
    <3> QED BY <2>1, <2>2, <3>1, <3>2 DEF Wanted
  <2>4. Quiet' <=> Quiet
    BY <2>1 DEF Quiet
  <2>5. ListExact'
    BY <1>1, <2>3, <2>4 DEF ListExact, Widened
  <2>6. KpisFit'
    <3>1. ASSUME NEW w PROVE {l \in Wanted(w)' : leads'[l].score # 0} = {l \in Wanted(w) : leads[l].score # 0}
      <4>1. Wanted(w) \subseteq DOMAIN leads
        BY DEF Wanted
      <4> QED BY <2>2, <2>3, <4>1
    <3> QED BY <1>1, <2>4, <3>1 DEF KpisFit
  <2> QED BY <1>1, <2>1, <2>5, <2>6 DEF AnswerOK, FilterKept
<1>3. CASE edits' = edits + 1
  <2>1. ~Quiet'
    BY <1>1, <1>3 DEF Quiet
  <2> QED BY <1>1, <1>3, <2>1 DEF AnswerOK, FilterKept, ListExact, KpisFit
<1> QED BY <1>2, <1>3 DEF Edited
(* A step of a request for the list or the cards.                          *)
LEMMA ListWorked ==
  ASSUME ThreshB <= ThreshA, ProcInv, FlowInv, menu \in Menus, ListSafe, NEW p \in Handlers, ListStep(p)
  PROVE  (Tallies(p) \/ (tally' = tally /\ ListOK(p)' /\ CardOK(p)')) /\ (answer' = answer \/ AnswerOK')
<1>1. LeadRows /\ TallyIs /\ ListOK(p) /\ CardOK(p)
  BY DEF ListSafe
<1>2. CASE ListLeads(p) \/ LeadKpis(p)
  BY <1>1, <1>2, ListAsked, CardsAsked
<1>3. CASE Narrow(p)
  BY <1>1, <1>3, Narrowed
<1>4. CASE CountLeads(p) \/ FindRows(p)
  BY <1>1, <1>4, RowsLooked
<1>5. CASE Summarize(p)
  BY <1>1, <1>5, Summed
<1>6. CASE Answer(p)
  BY <1>1, <1>6, AnsweredEnds, AnsweredFit
<1> QED BY <1>2, <1>3, <1>4, <1>5, <1>6 DEF ListStep
LEMMA ListStepped ==
  ASSUME ThreshB <= ThreshA, ProcInv, FlowInv, menu \in Menus, ListSafe, LeadRows', NEW p \in Handlers, ListStep(p)
  PROVE  ListSafe'
<1>1. LeadRows /\ TallyIs /\ AnswerOK /\ (\A q \in Handlers : ListOK(q) /\ CardOK(q)) /\ edits \in Nat
  BY DEF ListSafe, LeadRows
<1>2. Deed(p, "list") /\ UNCHANGED <<accounts, tenancy, book>> /\ "list" \in Kinds
  BY ListWorks, KindsAre
<1>3. sessions' = sessions /\ leads' = leads /\ edits' = edits
  BY <1>2 DEF accounts, book
<1>4. SessionsStay /\ Edited
  BY <1>3 DEF SessionsStay, Edited, LeadsLike, RowLike
<1>5. Tallies(p) \/ (tally' = tally /\ ListOK(p)' /\ CardOK(p)')
  BY ListWorked
<1>6. answer' = answer \/ AnswerOK'
  BY ListWorked
<1>7. ListOK(p)' /\ CardOK(p)'
  BY <1>5 DEF Tallies
<1>8. (\A q \in Handlers \ {p} : tally'[q] = tally[q]) /\ TallyIs'
  <2>1. CASE tally' = tally
    BY <1>1, <2>1 DEF TallyIs
  <2>2. CASE Tallies(p)
    <3>1. PICK t : tally' = [tally EXCEPT ![p] = t] /\ DOMAIN t = TallyFields
      BY <2>2 DEF Tallies
    <3> QED BY <1>1, <3>1 DEF TallyIs, TallyFields
  <2> QED BY <1>5, <2>1, <2>2
<1>9. ASSUME NEW q \in Handlers \ {p} PROVE ListOK(q)' /\ CardOK(q)'
  <2>1. CASE Has(proc'[q], "list")
    <3>1. Intact(q, "list")
      BY <1>2, <2>1, DeedAlike
    <3> QED BY <1>1, <1>4, <1>8, <3>1, ListIntact
  <2>2. CASE ~Has(proc'[q], "list")
    BY <2>2, ListNone
  <2> QED BY <2>1, <2>2
<1>10. AnswerOK'
  BY <1>1, <1>4, <1>6, AnswerStays
<1> QED BY <1>7, <1>8, <1>9, <1>10 DEF ListSafe
(* Any other step leaves the lists, and the requests for them.             *)
LEMMA ListDeed ==
  ASSUME FlowInv, NEW p \in Handlers, NEW k \in Kinds \ {"list"}, Deed(p, k)
  PROVE  Beside("list")
<1>1. "list" \in Kinds \ {k}
  BY KindsAre
<1> QED BY <1>1, DeedFlow
LEMMA ListRest ==
  ASSUME Core, Steady, [Next]_vars
  PROVE  (\E p \in Handlers : ListStep(p)) \/ (Beside("list") /\ UNCHANGED lists)
<1>1. ProcInv /\ FlowInv /\ NicheSafe /\ BookSafe /\ PageSafe
  BY DEF Core, Steady
<1>2. (\E p \in Handlers : ListStep(p)) \/ UNCHANGED lists
  <2>1. PageStep => UNCHANGED lists
    BY <1>1, PageWorks
  <2>2. LeadsPageStep => UNCHANGED lists
    BY DeskStays DEF BesideDesk
  <2>3. UNCHANGED vars => UNCHANGED lists
    BY DEF vars
  <2> QED BY <2>1, <2>2, <2>3, Zenon DEF Next, Admitted, Request, World
<1>3. (\E p \in Handlers : ListStep(p)) \/ Beside("list")
  <2>1. ASSUME Elsewhere PROVE Beside("list")
    BY <2>1, KindsAre DEF Elsewhere
  <2>2. ASSUME NEW p \in Handlers, TenancyStep(p) PROVE Beside("list")
    <3>1. NicheWork(p) \/ OtherWork(p) \/ ConfigWork(p) \/ MetricWork(p)
      BY <2>2, TenancyWork
    <3>2. Deed(p, "niche") \/ Deed(p, "other") \/ Deed(p, "config") \/ Deed(p, "metric")
      BY <1>1, <3>1, NicheWorks, OtherDeed, ConfigDeed, MetricDeed
    <3> QED BY <1>1, <3>2, ListDeed, KindsAre, NicheIs
  <2>3. ASSUME BookStep PROVE Beside("list")
    <3>1. (\E p \in Handlers : Deed(p, "retry")) \/ proc' = proc
      BY <1>1, <2>3, BookWorks
    <3> QED BY <1>1, <3>1, ListDeed, SameFlow, KindsAre
  <2>4. ASSUME PageStep PROVE Beside("list")
    <3>1. (\E p \in Handlers : Deed(p, "engine")) \/ proc' = proc
      BY <1>1, <2>4, PageWorks
    <3> QED BY <1>1, <3>1, ListDeed, SameFlow, KindsAre
  <2>5. ASSUME LeadsPageStep PROVE Beside("list")
    <3>1. (\E p \in Handlers : Deed(p, "desk")) \/ (\E p \in Handlers : Deed(p, "retry")) \/ proc' = proc
      BY <1>1, <2>5, DeskWorks, ConfirmedRetry
    <3> QED BY <1>1, <3>1, ListDeed, SameFlow, KindsAre
  <2> QED BY <1>1, <2>1, <2>2, <2>3, <2>4, <2>5, Division
<1> QED BY <1>2, <1>3
LEMMA ListNext == ASSUME ThreshB <= ThreshA, Core, Steady, ListSafe, [Next]_vars PROVE ListSafe'
<1>1. ProcInv /\ FlowInv /\ menu \in Menus
  BY DEF Core, Steady
<1>2. LeadRows /\ TallyIs /\ AnswerOK /\ (\A q \in Handlers : ListOK(q) /\ CardOK(q)) /\ edits \in Nat
  BY DEF ListSafe, LeadRows
<1>3. LeadRows' /\ Edited
  BY <1>2, LeadsKeep DEF Edited
<1>4. CASE \E p \in Handlers : ListStep(p)
  BY <1>1, <1>3, <1>4, ListStepped
<1>5. CASE Beside("list") /\ UNCHANGED lists
  <2>1. SessionsStay /\ "list" \in Kinds
    BY AllSessionsStay, KindsAre
  <2>2. tally' = tally /\ answer' = answer
    BY <1>5 DEF lists
  <2>3. ASSUME NEW q \in Handlers PROVE ListOK(q)' /\ CardOK(q)'
    <3>1. CASE Has(proc'[q], "list")
      <4>1. Intact(q, "list")
        BY <1>1, <1>5, <2>1, <3>1, BesideAlike
      <4>2. tally'[q] = tally[q]
        BY <2>2
      <4> QED BY <1>2, <1>3, <2>1, <4>1, <4>2, ListIntact
    <3>2. CASE ~Has(proc'[q], "list")
      BY <3>2, ListNone
    <3> QED BY <3>1, <3>2
  <2>4. AnswerOK'
    BY <1>2, <1>3, <2>2, AnswerStays
  <2> QED BY <1>2, <1>3, <2>2, <2>3, <2>4 DEF ListSafe, TallyIs
<1> QED BY <1>4, <1>5, ListRest
LEMMA RowIs ==
  ASSUME NEW score \in Nat, NEW signals \in Nat, NEW tech \in BOOLEAN, NEW rejected \in BOOLEAN
  PROVE  LeadIs([score |-> score, verdict |-> "none", address |-> 0, tech |-> tech, signals |-> signals, rejected |-> rejected])
<1> DEFINE row == [score |-> score, verdict |-> "none", address |-> 0, tech |-> tech, signals |-> signals, rejected |-> rejected]
<1>1. DOMAIN row = LeadFields
  BY DEF LeadFields
<1>2. row.score = score /\ row.signals = signals
  OBVIOUS
<1>3. row.tech = tech /\ row.rejected = rejected
  BY Zenon
<1> QED BY <1>1, <1>2, <1>3, Zenon DEF LeadIs
LEMMA ListStarts == Init => ListSafe
<1> SUFFICES ASSUME Init PROVE ListSafe
  OBVIOUS
<1>1. LeadRows
  <2>1. PICK a, b, c : leads = <<a, b, c>> /\ LeadIs(a) /\ LeadIs(b) /\ LeadIs(c)
    <3> DEFINE row(score, tech, signals, rejected) ==
                 [score |-> score, verdict |-> "none", address |-> 0, tech |-> tech, signals |-> signals, rejected |-> rejected]
    <3>1. leads = <<row(3, TRUE, 1, FALSE), row(0, FALSE, 0, TRUE), row(1, TRUE, 2, FALSE)>>
      BY DEF Init, BookInit
    <3>2. LeadIs(row(3, TRUE, 1, FALSE)) /\ LeadIs(row(0, FALSE, 0, TRUE)) /\ LeadIs(row(1, TRUE, 2, FALSE))
      BY RowIs
    <3> HIDE DEF row
    <3> QED BY <3>1, <3>2
  <2>2. DOMAIN leads = 1..3 /\ \A l \in 1..3 : LeadIs(leads[l])
    BY <2>1
  <2>3. IsFiniteSet(1..3)
    <3>1. 1 \in Int /\ 3 \in Int
      OBVIOUS
    <3> QED BY <3>1, FS_Interval
  <2>4. edits \in Nat
    BY DEF Init, BookInit
  <2> QED BY <2>2, <2>3, <2>4 DEF LeadRows
<1>2. TallyIs
  BY DEF Init, ListInit, NoTally, TallyIs
<1>3. AnswerOK
  BY DEF Init, ListInit, BookInit, AnswerOK, FilterKept, ListExact, KpisFit
<1>4. ASSUME NEW q \in Handlers PROVE ListOK(q) /\ CardOK(q)
  <2>1. proc[q].todo = <<>>
    BY DEF Init, Idle
  <2>2. Ahead(q) = {}
    BY <2>1 DEF Ahead, Words
  <2>3. ~Listing(q) /\ ~Carding(q)
    BY <2>2, Zenon DEF Listing, Carding
  <2> QED BY <2>3, Zenon DEF ListOK, CardOK
<1> QED BY <1>1, <1>2, <1>3, <1>4 DEF ListSafe
(* A list that was answered while no lead was written is what its filter   *)
(* asks for, and so are the cards above it, for any thresholds of which    *)
(* that of B is not above that of A, any filters, leads and requests.      *)
THEOREM FilterStaysKept ==
  ASSUME ThreshB <= ThreshA
  PROVE  Spec => []FilterKept
<1>1. Init => Core /\ Steady /\ ListSafe
  BY InitCore, NicheStarts, BookStarts, PageStarts, ListStarts DEF Steady
<1>2. Core /\ Steady /\ ListSafe /\ [Next]_vars => (Core /\ Steady /\ ListSafe)'
  BY CoreNext, SteadyNext, ListNext
<1>3. ListSafe => FilterKept
  BY DEF ListSafe, AnswerOK
<1> QED BY <1>1, <1>2, <1>3, PTL DEF Spec
=============================================================================
