---------------------------- MODULE ConsoleProofs ----------------------------
(***************************************************************************)
(* The rest of the console but for its leads (PagesProofs): the tables of  *)
(* an organisation, bulk retries and the page of engines.  FlowInv says    *)
(* which awaits a request that is no sign-in may have left, all of one     *)
(* kind, and in which order.  A step of one kind leaves the requests of    *)
(* another alone (Beside), so that the invariant of each kind goes through *)
(* the steps of its own and through one lemma for all the others.          *)
(***************************************************************************)
EXTENDS AccountsProofs

(* The awaits of each kind of request, and the doors they come in by.      *)
Doors == {"enter", "context", "token"}
NicheClan == {"begin", "mark day", "lock day", "commit", "find niche", "write", "delete niche"}
ConfigClan == {"validate", "put a", "put b"}
MetricClan == {"ensure", "bump"}
RetryClan == {"load", "next", "find mail", "call", "rewrite", "write lead"}
ListClan == {"signals", "tech", "count rows", "find rows", "answer list", "cards", "answer kpis"}
OtherClan == {"create view", "update view", "delete view", "find offer", "find icp", "create offer", "create icp",
              "update offer", "update icp", "seed offer", "seed icp"}
Kinds == {"niche", "config", "metric", "retry", "list", "engine", "desk", "other"}
Kind(w) ==
  IF w \in Doors THEN "door" ELSE IF w \in NicheClan THEN "niche" ELSE IF w \in ConfigClan THEN "config"
  ELSE IF w \in MetricClan THEN "metric" ELSE IF w \in RetryClan THEN "retry" ELSE IF w \in ListClan THEN "list"
  ELSE IF w \in PageWords THEN "engine" ELSE IF w \in DeskWords THEN "desk"
  ELSE IF w \in OtherClan THEN "other" ELSE "none"
Kin(k) == {w \in OtherSteps : Kind(w) = k \/ (Kind(w) = "door" /\ k \notin {"metric", "engine", "desk"})}
(* The requests that have awaits of a kind.                                *)
Serving(k) ==
  CASE k = "niche" -> {"niche", "legacy"} [] k = "config" -> {"config", "legacy"} [] k = "metric" -> {"metric"}
    [] k = "retry" -> {"retry", "legacy"} [] k = "list" -> {"list", "kpis", "legacy"}
    [] k = "engine" -> {"latest", "run", "unlock"} [] k = "desk" -> {"rows", "detail", "note", "bulk", "dry"}
    [] OTHER -> {"view", "single", "boot", "legacy"}
(* What may come after an await, at once or later.                         *)
Comes(v, w) ==
  /\ v = "find niche" => w \in {"begin", "mark day", "lock day", "write", "commit", "delete niche"}
  /\ v = "begin" => w \in {"mark day", "lock day", "write", "commit"}
  /\ v = "mark day" => w \in {"lock day", "write", "commit"}
  /\ v = "lock day" => w \in {"write", "commit"}
  /\ v = "write" => w = "commit"
  /\ v = "validate" => w \in {"put a", "put b"}
  /\ v = "put a" => w = "put b"
  /\ v = "find mail" => w \in {"call", "rewrite"}
  /\ v = "call" => w \in {"rewrite", "write lead"}
  /\ v = "signals" => w \in {"tech", "count rows", "find rows", "answer list"}
  /\ v = "tech" => w \in {"count rows", "find rows", "answer list"}
  /\ v = "count rows" => w \in {"find rows", "answer list"}
  /\ v = "find rows" => w \in {"count rows", "answer list"}
  /\ v = "cards" => w = "answer kpis"
  /\ v = "reject" => w \in {"rejected", "serve rows", "rows"}
  /\ v = "rejected" => w \in {"serve rows", "rows"}
  /\ v = "serve rows" => w = "rows"
  /\ v = "serve latest" => w = "latest"
  /\ v \notin {"commit", "delete niche", "put b", "load", "next", "rewrite", "write lead", "answer list", "answer kpis", "rows",
                "serve run"}
Ordered(t) == \A i, j \in 1..Len(t) : i < j => Comes(t[i], t[j])
Words(t) == {t[i] : i \in 1..Len(t)}

Clanned(r, k) == r.op \in Serving(k) /\ r.todo \in Seq(Kin(k)) /\ Ordered(r.todo)
FlowInv == \A p \in Handlers : Away(proc[p]) /\ proc[p].todo # <<>> => \E k \in Kinds : Clanned(proc[p], k)
Has(r, k) == \E w \in Words(r.todo) : Kind(w) = k

-----------------------------------------------------------------------------
(* Words *)
LEMMA DoorKind == \A w \in Doors : Kind(w) = "door"
  BY DEF Kind
LEMMA NicheKind == \A w \in NicheClan : Kind(w) = "niche"
<1>1. \A w \in NicheClan : w \notin Doors
  BY DEF NicheClan, Doors
<1> QED BY <1>1 DEF Kind
LEMMA ConfigKind == \A w \in ConfigClan : Kind(w) = "config"
<1>1. \A w \in ConfigClan : w \notin Doors /\ w \notin NicheClan
  BY DEF ConfigClan, Doors, NicheClan
<1> QED BY <1>1 DEF Kind
LEMMA MetricKind == \A w \in MetricClan : Kind(w) = "metric"
<1>1. \A w \in MetricClan : w \notin Doors /\ w \notin NicheClan /\ w \notin ConfigClan
  BY DEF MetricClan, Doors, NicheClan, ConfigClan
<1> QED BY <1>1 DEF Kind
LEMMA RetryKind == \A w \in RetryClan : Kind(w) = "retry"
<1>1. \A w \in RetryClan : w \notin Doors /\ w \notin NicheClan
  BY DEF RetryClan, Doors, NicheClan
<1>2. \A w \in RetryClan : w \notin ConfigClan /\ w \notin MetricClan
  BY DEF RetryClan, ConfigClan, MetricClan
<1> QED BY <1>1, <1>2 DEF Kind
LEMMA ListKind == \A w \in ListClan : Kind(w) = "list"
<1>1. \A w \in ListClan : w \notin Doors /\ w \notin NicheClan
  BY DEF ListClan, Doors, NicheClan
<1>2. \A w \in ListClan : w \notin ConfigClan /\ w \notin MetricClan /\ w \notin RetryClan
  BY DEF ListClan, ConfigClan, MetricClan, RetryClan
<1> QED BY <1>1, <1>2 DEF Kind
LEMMA EngineKind == \A w \in PageWords : Kind(w) = "engine"
<1>1. \A w \in PageWords : w \notin Doors /\ w \notin NicheClan
  BY DEF PageWords, Doors, NicheClan
<1>2. \A w \in PageWords : w \notin ConfigClan /\ w \notin MetricClan /\ w \notin RetryClan
  BY DEF PageWords, ConfigClan, MetricClan, RetryClan
<1>3. \A w \in PageWords : w \notin ListClan
  BY DEF PageWords, ListClan
<1> QED BY <1>1, <1>2, <1>3 DEF Kind
LEMMA DeskKind == \A w \in DeskWords : Kind(w) = "desk"
<1>1. \A w \in DeskWords : w \notin Doors /\ w \notin NicheClan
  BY DEF DeskWords, Doors, NicheClan
<1>2. \A w \in DeskWords : w \notin ConfigClan /\ w \notin MetricClan /\ w \notin RetryClan
  BY DEF DeskWords, ConfigClan, MetricClan, RetryClan
<1>3. \A w \in DeskWords : w \notin ListClan /\ w \notin PageWords
  BY ZenonT(40) DEF DeskWords, ListClan, PageWords
<1> QED BY <1>1, <1>2, <1>3 DEF Kind
LEMMA OtherKind == \A w \in OtherClan : Kind(w) = "other"
<1>1. \A w \in OtherClan : w \notin Doors /\ w \notin NicheClan
  BY DEF OtherClan, Doors, NicheClan
<1>2. \A w \in OtherClan : w \notin ConfigClan /\ w \notin MetricClan /\ w \notin RetryClan
  BY ZenonT(40) DEF OtherClan, ConfigClan, MetricClan, RetryClan
<1>3. \A w \in OtherClan : w \notin ListClan /\ w \notin PageWords
  BY ZenonT(40) DEF OtherClan, ListClan, PageWords
<1>4. \A w \in OtherClan : w \notin DeskWords
  BY ZenonT(40) DEF OtherClan, DeskWords
<1> QED BY <1>1, <1>2, <1>3, <1>4 DEF Kind

-----------------------------------------------------------------------------
(* Programs *)
LEMMA WordsOf == \A S : \A t \in Seq(S) : Words(t) \subseteq S /\ (t # <<>> => Head(t) \in Words(t))
  BY DEF Words
LEMMA OrderedTail ==
  ASSUME NEW S, NEW t \in Seq(S), t # <<>>
  PROVE  /\ Tail(t) \in Seq(S) /\ Words(t) = {Head(t)} \cup Words(Tail(t))
         /\ Ordered(t) => Ordered(Tail(t)) /\ \A w \in Words(Tail(t)) : Comes(Head(t), w)
<1>1. Tail(t) \in Seq(S) /\ Len(t) \in Nat /\ Len(t) > 0
  BY HeadTailProperties
<1>2. Len(Tail(t)) = Len(t) - 1 /\ \A i \in 1..Len(t) - 1 : Tail(t)[i] = t[i + 1]
  BY <1>1
<1>3. Words(t) = {Head(t)} \cup Words(Tail(t))
  <2>1. ASSUME NEW i \in 1..Len(t) PROVE t[i] \in {Head(t)} \cup Words(Tail(t))
    <3>1. CASE i = 1
      BY <3>1
    <3>2. CASE i > 1
      <4>1. i - 1 \in 1..Len(t) - 1 /\ Tail(t)[i - 1] = t[i]
        BY <1>1, <1>2, <3>2
      <4> QED BY <1>2, <4>1 DEF Words
    <3> QED BY <3>1, <3>2
  <2>2. ASSUME NEW i \in 1..Len(Tail(t)) PROVE Tail(t)[i] \in Words(t)
    <3>1. i + 1 \in 1..Len(t) /\ Tail(t)[i] = t[i + 1]
      BY <1>1, <1>2
    <3> QED BY <3>1 DEF Words
  <2>3. Head(t) \in Words(t)
    BY <1>1 DEF Words
  <2> QED BY <2>1, <2>2, <2>3 DEF Words
<1>4. ASSUME Ordered(t), NEW i \in 1..Len(Tail(t)), NEW j \in 1..Len(Tail(t)), i < j
      PROVE  Comes(Tail(t)[i], Tail(t)[j])
  <2>1. i \in 1..Len(t) - 1 /\ j \in 1..Len(t) - 1
    BY <1>2, <1>4
  <2>2. i + 1 \in 1..Len(t) /\ j + 1 \in 1..Len(t) /\ i + 1 < j + 1
    BY <1>1, <1>4, <2>1
  <2>3. Tail(t)[i] = t[i + 1] /\ Tail(t)[j] = t[j + 1]
    BY <1>2, <2>1
  <2>4. Comes(t[i + 1], t[j + 1])
    BY <1>4, <2>2 DEF Ordered
  <2> QED BY <2>3, <2>4
<1>5. ASSUME Ordered(t), NEW j \in 1..Len(Tail(t)) PROVE Comes(Head(t), Tail(t)[j])
  <2>1. 1 \in 1..Len(t) /\ j + 1 \in 1..Len(t) /\ 1 < j + 1
    BY <1>1, <1>2
  <2>2. Tail(t)[j] = t[j + 1] /\ Head(t) = t[1]
    BY <1>1, <1>2
  <2>3. Comes(t[1], t[j + 1])
    BY <1>5, <2>1 DEF Ordered
  <2> QED BY <2>2, <2>3
<1> QED BY <1>1, <1>3, <1>4, <1>5 DEF Ordered, Words

LEMMA OrderedShort ==
  /\ Ordered(<<>>) /\ Words(<<>>) = {}
  /\ \A a : Ordered(<<a>>) /\ Words(<<a>>) = {a}
  /\ \A a, b : Words(<<a, b>>) = {a, b} /\ (Comes(a, b) => Ordered(<<a, b>>))
  BY DEF Ordered, Words
LEMMA OrderedJoin ==
  ASSUME NEW S, NEW s \in Seq(S), NEW t \in Seq(S)
  PROVE  /\ s \o t \in Seq(S) /\ Words(s \o t) = Words(s) \cup Words(t)
         /\ Ordered(s) /\ Ordered(t) /\ (\A v \in Words(s), w \in Words(t) : Comes(v, w)) => Ordered(s \o t)
<1>1. /\ s \o t \in Seq(S) /\ Len(s \o t) = Len(s) + Len(t) /\ Len(s) \in Nat /\ Len(t) \in Nat
      /\ \A i \in 1..Len(s) + Len(t) : (s \o t)[i] = IF i <= Len(s) THEN s[i] ELSE t[i - Len(s)]
  OBVIOUS
<1>2. Words(s \o t) = Words(s) \cup Words(t)
  <2>1. ASSUME NEW i \in 1..Len(s \o t) PROVE (s \o t)[i] \in Words(s) \cup Words(t)
    <3>1. CASE i <= Len(s)
      BY <1>1, <3>1 DEF Words
    <3>2. CASE i > Len(s)
      <4>1. i - Len(s) \in 1..Len(t) /\ (s \o t)[i] = t[i - Len(s)]
        BY <1>1, <3>2
      <4> QED BY <4>1 DEF Words
    <3> QED BY <1>1, <3>1, <3>2
  <2>2. ASSUME NEW i \in 1..Len(s) PROVE s[i] \in Words(s \o t)
    <3>1. i \in 1..Len(s \o t) /\ (s \o t)[i] = s[i]
      BY <1>1
    <3> QED BY <3>1 DEF Words
  <2>3. ASSUME NEW i \in 1..Len(t) PROVE t[i] \in Words(s \o t)
    <3>1. i + Len(s) \in 1..Len(s \o t) /\ (s \o t)[i + Len(s)] = t[i]
      BY <1>1
    <3> QED BY <3>1 DEF Words
  <2> QED BY <2>1, <2>2, <2>3 DEF Words
<1>3. ASSUME Ordered(s), Ordered(t), \A v \in Words(s), w \in Words(t) : Comes(v, w),
             NEW i \in 1..Len(s \o t), NEW j \in 1..Len(s \o t), i < j
      PROVE  Comes((s \o t)[i], (s \o t)[j])
  <2>1. CASE j <= Len(s)
    <3>1. i \in 1..Len(s) /\ j \in 1..Len(s) /\ (s \o t)[i] = s[i] /\ (s \o t)[j] = s[j]
      BY <1>1, <1>3, <2>1
    <3>2. Comes(s[i], s[j])
      BY <1>3, <3>1 DEF Ordered
    <3> QED BY <3>1, <3>2
  <2>2. CASE i > Len(s)
    <3>1. /\ i - Len(s) \in 1..Len(t) /\ j - Len(s) \in 1..Len(t) /\ i - Len(s) < j - Len(s)
          /\ (s \o t)[i] = t[i - Len(s)] /\ (s \o t)[j] = t[j - Len(s)]
      BY <1>1, <1>3, <2>2
    <3>2. Comes(t[i - Len(s)], t[j - Len(s)])
      BY <1>3, <3>1 DEF Ordered
    <3> QED BY <3>1, <3>2
  <2>3. CASE i <= Len(s) /\ j > Len(s)
    <3>1. /\ i \in 1..Len(s) /\ j - Len(s) \in 1..Len(t)
          /\ (s \o t)[i] = s[i] /\ (s \o t)[j] = t[j - Len(s)]
      BY <1>1, <2>3
    <3>2. s[i] \in Words(s) /\ t[j - Len(s)] \in Words(t)
      BY <3>1 DEF Words
    <3> QED BY <1>3, <3>1, <3>2
  <2> QED BY <1>1, <2>1, <2>2, <2>3
<1> QED BY <1>1, <1>2, <1>3 DEF Ordered

-----------------------------------------------------------------------------
(* What a step leaves alone *)

(* A request that is let in through a door.                                *)
LetIn(q) ==
  /\ proc[q].todo # <<>> /\ Head(proc[q].todo) \in Doors
  /\ DOMAIN proc'[q] = Fields /\ \A f \in Fields \ {"todo"} : proc'[q][f] = proc[q][f]
  /\ proc'[q].todo = Tail(proc[q].todo)
(* Whoever has awaits of a kind had them before, and is as it was.         *)
Beside(k) == \A q \in Handlers : Has(proc'[q], k) => proc'[q] = proc[q] \/ LetIn(q)
(* p is done, with the process or alone, or has awaits of a kind left.     *)
Deed(p, k) == proc' = Died \/ (Only(p) /\ (proc'[p] = Idle \/ (DOMAIN proc'[p] = Fields /\ Clanned(proc'[p], k))))
KinMove(p, k) ==
  \/ proc' = Ended(p) \/ proc' = Thrown(p) \/ proc' = Advance(p)
  \/ /\ Only(p) /\ DOMAIN proc'[p] = Fields /\ proc'[p].op \in Serving(k)
     /\ \/ proc'[p].todo = proc[p].todo
        \/ proc'[p].todo = Tail(proc[p].todo)
        \/ proc'[p].todo \in Seq(Kin(k)) /\ Ordered(proc'[p].todo)

LEMMA NoDoor == \A k \in Kinds : k # "door" /\ k # "none"
  BY DEF Kinds
LEMMA IdleHas == ~(\E k \in Kinds : Has(Idle, k)) /\ Idle.todo = <<>>
  BY OrderedShort DEF Has, Idle
LEMMA ClannedHas ==
  ASSUME NEW r, NEW k \in Kinds, Clanned(r, k), NEW j \in Kinds, Has(r, j)
  PROVE  j = k
<1>1. PICK w \in Words(r.todo) : Kind(w) = j
  BY DEF Has
<1>2. w \in Kin(k)
  BY <1>1, WordsOf DEF Clanned
<1> QED BY <1>1, <1>2, NoDoor DEF Kin

LEMMA AtKind ==
  ASSUME ProcInv, FlowInv, NEW p \in Handlers, NEW s \in OtherWords, NEW k \in Kinds, Kind(s) = k, At(p, s)
  PROVE  /\ Clanned(proc[p], k) /\ DOMAIN proc[p] = Fields /\ proc[p].todo # <<>> /\ Head(proc[p].todo) = s
         /\ Away(proc[p]) /\ s \in Words(proc[p].todo)
<1>1. Away(proc[p]) /\ DOMAIN proc[p] = Fields /\ proc[p].todo # <<>> /\ Head(proc[p].todo) = s
  BY TailAway DEF At
<1>2. PICK j \in Kinds : Clanned(proc[p], j)
  BY <1>1 DEF FlowInv
<1>3. s \in Words(proc[p].todo)
  BY <1>1, <1>2, WordsOf DEF Clanned
<1>4. j = k
  BY <1>2, <1>3, ClannedHas DEF Has
<1> QED BY <1>1, <1>2, <1>3, <1>4

LEMMA ClannedTail ==
  ASSUME NEW r, NEW k, Clanned(r, k), r.todo # <<>>
  PROVE  Tail(r.todo) \in Seq(Kin(k)) /\ Ordered(Tail(r.todo))
  BY OrderedTail DEF Clanned

LEMMA DeedStep ==
  ASSUME ProcInv, FlowInv, NEW p \in Handlers, NEW s \in OtherWords, NEW k \in Kinds, Kind(s) = k, At(p, s), KinMove(p, k)
  PROVE  Deed(p, k)
<1>1. Clanned(proc[p], k) /\ DOMAIN proc[p] = Fields /\ proc[p].todo # <<>>
  BY AtKind
<1>2. Tail(proc[p].todo) \in Seq(Kin(k)) /\ Ordered(Tail(proc[p].todo))
  BY <1>1, ClannedTail
<1>3. ASSUME GoesOn(p), ProcInv' PROVE Deed(p, k)
  <2>1. CASE proc'[p] = Idle
    BY <1>3, <2>1 DEF GoesOn, Deed
  <2>2. CASE proc'[p] # Idle
    <3>1. proc'[p].op = proc[p].op /\ proc'[p].todo = Tail(proc[p].todo)
      BY <1>3, <2>2 DEF GoesOn, Fields
    <3>2. DOMAIN proc'[p] = Fields
      BY <1>3 DEF ProcInv, Inside, Away
    <3> QED BY <1>1, <1>2, <1>3, <3>1, <3>2 DEF GoesOn, Deed, Clanned
  <2> QED BY <2>1, <2>2
<1>4. CASE proc' = Ended(p)
  BY <1>3, <1>4, EndedOK
<1>5. CASE proc' = Thrown(p)
  BY <1>3, <1>5, ThrownOK DEF Moved, Deed
<1>6. CASE proc' = Advance(p)
  BY <1>1, <1>3, <1>6, AdvanceOK
<1>7. CASE /\ Only(p) /\ DOMAIN proc'[p] = Fields /\ proc'[p].op \in Serving(k)
           /\ \/ proc'[p].todo = proc[p].todo
              \/ proc'[p].todo = Tail(proc[p].todo)
              \/ proc'[p].todo \in Seq(Kin(k)) /\ Ordered(proc'[p].todo)
  BY <1>1, <1>2, <1>7 DEF Deed, Clanned
<1> QED BY <1>4, <1>5, <1>6, <1>7 DEF KinMove

LEMMA GoesMove ==
  ASSUME ProcInv, FlowInv, NEW p \in Handlers, NEW s \in OtherWords, NEW k \in Kinds, Kind(s) = k, At(p, s),
         NEW t \in Seq(Kin(k)), Ordered(t), proc' = Goes(p, t)
  PROVE  /\ KinMove(p, k) /\ Only(p) /\ DOMAIN proc'[p] = Fields /\ proc'[p].todo = t
         /\ \A f \in Fields \ {"todo"} : proc'[p][f] = proc[p][f]
<1>1. Clanned(proc[p], k) /\ DOMAIN proc[p] = Fields
  BY AtKind
<1>2. Only(p) /\ proc'[p] = [proc[p] EXCEPT !.todo = t]
  BY DEF ProcInv, Only, Goes
<1>3. /\ DOMAIN proc'[p] = Fields /\ proc'[p].todo = t /\ proc'[p].op = proc[p].op
      /\ \A f \in Fields \ {"todo"} : proc'[p][f] = proc[p][f]
  BY <1>1, <1>2, TodoChanged
<1> QED BY <1>1, <1>2, <1>3 DEF KinMove, Clanned

LEMMA DeedBegun ==
  ASSUME ProcInv, NEW p \in Handlers, NEW kind, NEW request, Begin(p, kind, request), DOMAIN request = Fields,
         NEW k, Clanned(request, k)
  PROVE  /\ Deed(p, k) /\ Only(p) /\ DOMAIN proc'[p] = Fields /\ proc'[p].no = calls + 1
         /\ \A f \in Fields \ {"no"} : proc'[p][f] = request[f]
<1> DEFINE r == [request EXCEPT !.no = calls + 1]
<1>1. proc' = [proc EXCEPT ![p] = r]
  BY DEF Begin
<1>2. DOMAIN r = Fields /\ r.no = calls + 1 /\ \A f \in Fields \ {"no"} : r[f] = request[f]
  BY DEF Fields
<1>3. r.op = request.op /\ r.todo = request.todo
  BY <1>2 DEF Fields
<1>4. Only(p) /\ proc'[p] = r
  BY <1>1, SetOK
<1> HIDE DEF r
<1> QED BY <1>2, <1>3, <1>4 DEF Deed, Clanned

(* What follows for the requests of the other kinds.                       *)
LEMMA DeedFlow ==
  ASSUME FlowInv, NEW p \in Handlers, NEW k \in Kinds, Deed(p, k)
  PROVE  FlowInv' /\ \A j \in Kinds \ {k} : Beside(j)
<1>1. ASSUME NEW q \in Handlers
      PROVE  proc'[q] = proc[q] \/ proc'[q] = Idle \/ Clanned(proc'[q], k)
  BY DEF Deed, Died, Only
<1>2. FlowInv'
  BY <1>1, IdleHas DEF FlowInv
<1>3. ASSUME NEW j \in Kinds \ {k}, NEW q \in Handlers, Has(proc'[q], j) PROVE proc'[q] = proc[q]
  BY <1>1, <1>3, IdleHas, ClannedHas
<1> QED BY <1>2, <1>3 DEF Beside

LEMMA SameFlow == FlowInv /\ proc' = proc => FlowInv' /\ \A j \in Kinds : Beside(j)
  BY DEF FlowInv, Beside

LEMMA KindIn == \A w : Kind(w) \in Kinds => w \in OtherWords
<1>1. \A w \in NicheClan : w \in OtherWords
  BY NicheFacts DEF NicheClan
<1>2. \A w \in ConfigClan \cup MetricClan : w \in OtherWords
  BY TableFacts DEF ConfigClan, MetricClan
<1>3. \A w \in RetryClan \cup ListClan : w \in OtherWords
  BY ListFacts DEF RetryClan, ListClan
<1>4. \A w \in PageWords \cup DeskWords : w \in OtherWords
  BY DEF OtherWords
<1>5. \A w \in OtherClan : w \in OtherWords
  BY NicheFacts, TableFacts DEF OtherClan
<1> QED BY <1>1, <1>2, <1>3, <1>4, <1>5, NoDoor, ZenonT(40) DEF Kind

LEMMA InsideHas ==
  ASSUME NEW r, Inside(r), NEW j \in Kinds
  PROVE  ~Has(r, j)
<1> SUFFICES ASSUME Has(r, j) PROVE FALSE
  OBVIOUS
<1>1. PICK w \in Words(r.todo) : Kind(w) = j
  BY DEF Has
<1>2. w \in OtherWords
  BY <1>1, KindIn
<1>3. w \in Steps
  BY <1>1, WordsOf DEF Inside, Program
<1> QED BY <1>2, <1>3, OtherWordsApart

(* Steps of sign-ins and memberships.                                      *)
Alien == \A q \in Handlers : proc'[q] = proc[q] \/ proc'[q] = Idle \/ Inside(proc'[q])
LEMMA AlienFlow ==
  ASSUME FlowInv, Alien
  PROVE  FlowInv' /\ \A j \in Kinds : Beside(j)
<1>1. FlowInv'
  BY IdleHas DEF FlowInv, Alien, Inside, Away
<1>2. ASSUME NEW j \in Kinds, NEW q \in Handlers, Has(proc'[q], j) PROVE proc'[q] = proc[q]
  BY <1>2, IdleHas, InsideHas DEF Alien
<1> QED BY <1>1, <1>2 DEF Beside

(* A request comes in, or is turned away.                                  *)
LEMMA Words1 == \A r : DOMAIN r = Fields /\ r.todo \in Seq(OtherSteps) /\ r.todo # <<>> =>
                         Words(r.todo) = {Head(r.todo)} \cup Words(Tail(r.todo)) /\ Tail(r.todo) \in Seq(OtherSteps)
  BY OrderedTail
LEMMA LetInFlow ==
  ASSUME ProcInv, FlowInv, NEW p \in Handlers, Only(p), proc'[p] = Idle \/ LetIn(p)
  PROVE  FlowInv' /\ \A j \in Kinds : Beside(j)
<1>1. \A q \in Handlers \ {p} : proc'[q] = proc[q]
  BY DEF Only
<1>2. CASE proc'[p] = Idle
  <2>1. Alien
    BY <1>1, <1>2 DEF Alien
  <2> QED BY <2>1, AlienFlow
<1>3. CASE LetIn(p)
  <2>1. \A j \in Kinds : Beside(j)
    BY <1>1, <1>3 DEF Beside
  <2>2. ASSUME Away(proc'[p]), proc'[p].todo # <<>> PROVE \E k \in Kinds : Clanned(proc'[p], k)
    <3>1. proc'[p].op = proc[p].op /\ proc'[p].todo = Tail(proc[p].todo) /\ proc[p].todo # <<>>
      BY <1>3 DEF LetIn, Fields
    <3>2. Away(proc[p])
      BY <2>2, <3>1 DEF ProcInv, Inside, Away
    <3>3. PICK k \in Kinds : Clanned(proc[p], k)
      BY <3>1, <3>2 DEF FlowInv
    <3>4. Clanned(proc'[p], k)
      BY <3>1, <3>3, ClannedTail DEF Clanned
    <3> QED BY <3>4
  <2>3. FlowInv'
    BY <1>1, <2>2 DEF FlowInv
  <2> QED BY <2>1, <2>3
<1> QED BY <1>2, <1>3

LEMMA AdmittedFlow ==
  ASSUME ProcInv, FlowInv, RefInv, NEW p \in Handlers, Enter(p) \/ Context(p) \/ Token(p)
  PROVE  FlowInv' /\ \A j \in Kinds : Beside(j)
<1>1. /\ At(p, "enter") \/ At(p, "context") \/ At(p, "token")
      /\ proc' = Advance(p) \/ proc' = Ended(p)
  BY DEF Enter, Context, Token
<1>2. proc[p].todo # <<>> /\ Head(proc[p].todo) \in Doors
  BY <1>1 DEF At, Doors
<1>3. GoesOn(p) /\ ProcInv'
  BY <1>1, <1>2, AdvanceOK, EndedOK
<1>4. Only(p) /\ (proc'[p] = Idle \/ LetIn(p))
  <2>1. DOMAIN proc'[p] = Fields
    BY <1>3 DEF ProcInv, Inside, Away
  <2> QED BY <1>2, <1>3, <2>1 DEF GoesOn, LetIn
<1> QED BY <1>4, LetInFlow

(* Whoever has awaits of a kind after a step of another one.               *)
LEMMA BesideSame ==
  ASSUME ProcInv, FlowInv, NEW k \in Kinds, Beside(k), NEW q \in Handlers, Has(proc'[q], k)
  PROVE  /\ Clanned(proc[q], k) /\ Has(proc[q], k) /\ Away(proc[q]) /\ DOMAIN proc'[q] = Fields
         /\ \A f \in Fields \ {"todo"} : proc'[q][f] = proc[q][f]
         /\ \A w : Kind(w) = k => (w \in Words(proc'[q].todo) <=> w \in Words(proc[q].todo))
         /\ proc'[q].todo # proc[q].todo => LetIn(q) /\ proc[q].todo # <<>> /\ Kind(Head(proc[q].todo)) = "door"
<1>1. proc'[q] = proc[q] \/ LetIn(q)
  BY DEF Beside
<1>2. CASE proc'[q] = proc[q]
  <2>1. Has(proc[q], k)
    BY <1>2
  <2>2. Away(proc[q])
    BY <2>1, InsideHas DEF ProcInv
  <2>3. proc[q].todo # <<>>
    BY <2>1, OrderedShort DEF Has
  <2>4. PICK j \in Kinds : Clanned(proc[q], j)
    BY <2>2, <2>3 DEF FlowInv
  <2>5. j = k
    BY <2>1, <2>4, ClannedHas
  <2>6. DOMAIN proc'[q] = Fields
    BY <1>2, <2>2 DEF Away
  <2> QED BY <1>2, <2>1, <2>2, <2>4, <2>5, <2>6
<1>3. CASE LetIn(q)
  <2>1. /\ proc[q].todo # <<>> /\ Head(proc[q].todo) \in Doors /\ DOMAIN proc'[q] = Fields
        /\ \A f \in Fields \ {"todo"} : proc'[q][f] = proc[q][f]
        /\ proc'[q].todo = Tail(proc[q].todo)
    BY <1>3 DEF LetIn
  <2>2. PICK S : proc[q].todo \in Seq(S)
    BY DEF ProcInv, Inside, Away, Program
  <2>3. Words(proc[q].todo) = {Head(proc[q].todo)} \cup Words(proc'[q].todo)
    BY <2>1, <2>2, OrderedTail
  <2>4. Has(proc[q], k)
    BY <2>3 DEF Has
  <2>5. Away(proc[q])
    BY <2>4, InsideHas DEF ProcInv
  <2>6. PICK j \in Kinds : Clanned(proc[q], j)
    BY <2>1, <2>5 DEF FlowInv
  <2>7. j = k
    BY <2>4, <2>6, ClannedHas
  <2>8. Kind(Head(proc[q].todo)) = "door"
    BY <2>1, DoorKind
  <2>9. \A w : Kind(w) = k => (w \in Words(proc'[q].todo) <=> w \in Words(proc[q].todo))
    BY <2>3, <2>8, NoDoor
  <2> QED BY <1>3, <2>1, <2>4, <2>5, <2>6, <2>7, <2>8, <2>9
<1> QED BY <1>1, <1>2, <1>3

LEMMA AlienBy ==
  ASSUME ProcInv', NEW p \in Handlers, Only(p), proc'[p] = Idle \/ proc'[p].op \in AccountOps
  PROVE  Alien
<1>1. proc'[p] = Idle \/ Inside(proc'[p])
  BY DEF ProcInv, Away
<1> QED BY <1>1 DEF Only, Alien

LEMMA AlienTurn ==
  ASSUME ProcInv, NEW p \in Handlers, NEW step \in AccountSteps, At(p, step),
         proc' = Advance(p) \/ proc' = Ended(p) \/ proc' = Thrown(p)
  PROVE  Alien
<1>1. Inside(proc[p]) /\ proc[p].todo # <<>>
  BY AtInside DEF At
<1>2. Moved(p) /\ ProcInv'
  BY <1>1, AdvanceOK, EndedOK, ThrownOK DEF Moved
<1>3. CASE proc' = Died
  BY <1>3 DEF Died, Alien
<1>4. CASE GoesOn(p)
  <2>1. proc'[p] = Idle \/ proc'[p].op = proc[p].op
    BY <1>4 DEF GoesOn, Fields
  <2>2. Only(p)
    BY <1>4 DEF GoesOn
  <2> QED BY <1>1, <1>2, <2>1, <2>2, AlienBy DEF Inside
<1> QED BY <1>2, <1>3, <1>4 DEF Moved

LEMMA TodoSet ==
  ASSUME ProcInv, NEW p \in Handlers, Inside(proc[p]), NEW t, proc' = [proc EXCEPT ![p].todo = t]
  PROVE  Only(p) /\ proc'[p].op = proc[p].op
<1>1. Only(p) /\ proc'[p] = [proc[p] EXCEPT !.todo = t]
  BY DEF ProcInv, Only
<1> QED BY <1>1, TodoChanged DEF Inside

LEMMA FindCodeOp ==
  ASSUME ProcInv, RefInv, NEW p \in Handlers, FindCode(p)
  PROVE  Only(p) /\ (proc'[p] = Idle \/ proc'[p].op \in AccountOps)
<1> DEFINE good == {k \in DOMAIN codes : codes[k].user = proc[p].who /\ codes[k].state = "live" /\ ~codes[k].late}
<1>1. Only(p) /\ (proc'[p] = Idle \/ proc'[p].op = "verify")
  <2> HIDE DEF good
  <2> QED BY FindCodeMoves DEF good
<1>2. "verify" \in AccountOps
  BY DEF AccountOps
<1> QED BY <1>1, <1>2

LEMMA FindHomeOp ==
  ASSUME ProcInv, RefInv, NEW p \in Handlers, FindHome(p)
  PROVE  Only(p) /\ (proc'[p] = Idle \/ proc'[p].op \in AccountOps)
<1>1. At(p, "home")
  BY DEF FindHome, Home
<1>2. Inside(proc[p]) /\ proc[p].op \in AccountOps
  BY <1>1, StepWords3, AtInside DEF Inside
<1>3. CASE proc' = Goes(p, Founding \o Signs(p))
  <2> DEFINE t == Founding \o Signs(p)
  <2>1. proc' = [proc EXCEPT ![p].todo = t]
    BY <1>3 DEF Goes
  <2> HIDE DEF t
  <2> QED BY <1>2, <2>1, TodoSet
<1>4. CASE proc' = Ended(p)
  BY <1>4, SetOK DEF Ended
<1>5. ASSUME NEW t, NEW x, NEW n, proc' = [proc EXCEPT ![p].todo = t, ![p].org = x, ![p].saw = n]
      PROVE  Only(p) /\ proc'[p].op \in AccountOps
  <2>1. Only(p) /\ \A f \in Fields \ {"todo", "org", "saw"} : proc'[p][f] = proc[p][f]
    BY <1>2, <1>5, ChangedOrg
  <2> QED BY <1>2, <2>1 DEF Fields
<1>6. CASE \E m \in HomesOf(proc[p].who) :
             proc' = [proc EXCEPT ![p].todo = Signs(p), ![p].org = m.org, ![p].saw = IF m.role = "owner" THEN 1 ELSE 0]
  <2>1. PICK m \in HomesOf(proc[p].who) :
             proc' = [proc EXCEPT ![p].todo = Signs(p), ![p].org = m.org, ![p].saw = IF m.role = "owner" THEN 1 ELSE 0]
    BY <1>6
  <2> DEFINE t == Signs(p)
             x == m.org
             n == IF m.role = "owner" THEN 1 ELSE 0
  <2>2. proc' = [proc EXCEPT ![p].todo = t, ![p].org = x, ![p].saw = n]
    BY <2>1
  <2> HIDE DEF t, x, n
  <2> QED BY <1>5, <2>2
<1> QED BY <1>3, <1>4, <1>6 DEF FindHome, Home

LEMMA MakeOrgOp ==
  ASSUME ProcInv, NEW p \in Handlers, MakeOrg(p)
  PROVE  Only(p) /\ proc'[p].op \in AccountOps
<1>1. At(p, "make org") /\ proc' = [proc EXCEPT ![p].todo = Tail(@), ![p].org = Len(orgs) + 1, ![p].saw = 1]
  BY DEF MakeOrg
<1>2. Inside(proc[p]) /\ proc[p].op \in AccountOps
  <2>1. Inside(proc[p])
    BY <1>1, StepWords3, AtInside
  <2> QED BY <2>1 DEF Inside
<1> DEFINE t == Tail(proc[p].todo)
           n == Len(orgs) + 1
<1>3. proc' = [proc EXCEPT ![p].todo = t, ![p].org = n, ![p].saw = 1]
  BY <1>1 DEF ProcInv
<1> HIDE DEF t, n
<1>4. Only(p) /\ \A f \in Fields \ {"todo", "org", "saw"} : proc'[p][f] = proc[p][f]
  BY <1>2, <1>3, ChangedOrg
<1> QED BY <1>2, <1>4 DEF Fields

LEMMA FindMemberOp ==
  ASSUME ProcInv, NEW p \in Handlers, FindMember(p)
  PROVE  Only(p) /\ (proc'[p] = Idle \/ proc'[p].op \in AccountOps)
<1>1. At(p, "find member") /\ (proc' = Ended(p) \/ \E x : proc' = [proc EXCEPT ![p].todo = Tail(@), ![p].id = x])
  BY DEF FindMember, FoundMember
<1>2. Inside(proc[p]) /\ proc[p].op \in AccountOps
  BY <1>1, StepWords3, AtInside DEF Inside
<1>3. CASE proc' = Ended(p)
  BY <1>3, SetOK DEF Ended
<1>4. CASE \E x : proc' = [proc EXCEPT ![p].todo = Tail(@), ![p].id = x]
  <2>1. DOMAIN proc[p] = Fields
    BY <1>2 DEF Inside
  <2> QED BY <1>2, <1>4, <2>1 DEF ProcInv, Only, Fields
<1> QED BY <1>1, <1>3, <1>4

LEMMA AccountsAlone ==
  ASSUME ProcInv, RefInv, menu \in Menus, NEW p \in Handlers, AccountsStep(p)
  PROVE  Alien
<1>1. ProcInv'
  BY AccountsCatalog
<1>2. CASE Asks(p)
  <2>1. PICK kind, r : Begin(p, kind, r) /\ Entry(r)
    BY <1>2, Entries
  <2>2. Only(p) /\ proc'[p].op = r.op
    BY <2>1, EntryOK DEF Fields
  <2>3. r.op \in AccountOps
    BY <2>1 DEF Entry
  <2> QED BY <1>1, <2>2, <2>3, AlienBy
<1>3. CASE AdminCreate(p)
  <2>1. PICK u : Begin(p, "found", [Idle EXCEPT !.op = "found", !.org = Len(orgs) + 1, !.who = u])
    BY <1>3 DEF AdminCreate
  <2> DEFINE r == [Idle EXCEPT !.op = "found", !.org = Len(orgs) + 1, !.who = u]
             n == [r EXCEPT !.no = calls + 1]
  <2>2. n.op = "found"
    BY DEF Idle
  <2>3. proc' = [proc EXCEPT ![p] = n]
    BY <2>1 DEF Begin
  <2> HIDE DEF n
  <2>4. Only(p) /\ proc'[p].op = "found"
    BY <2>2, <2>3, SetOK
  <2>5. "found" \in AccountOps
    BY DEF AccountOps
  <2> QED BY <1>1, <2>4, <2>5, AlienBy
<1>4. CASE PlainStep(p) /\ ~FindUser(p)
  <2>1. /\ At(p, "upsert user") \/ At(p, "make user") \/ At(p, "not a member") \/ At(p, "leave")
        /\ proc' = Advance(p) \/ proc' = Ended(p) \/ proc' = Thrown(p)
    BY <1>4 DEF PlainStep, UpsertUser, MakeUser, NotAMember, Leave
  <2> QED BY <2>1, StepWords1, AlienTurn
<1>5. CASE FindUser(p)
  <2>1. At(p, "find user") /\ \E t : proc' = [proc EXCEPT ![p].todo = t]
    BY <1>5 DEF FindUser, Goes
  <2>2. Inside(proc[p])
    BY <2>1, StepWords3, AtInside
  <2> QED BY <1>1, <2>1, <2>2, TodoSet, AlienBy DEF Inside
<1>6. CASE CodeStep(p) \/ OrgStep(p)
  <2>1. /\ \/ At(p, "store code") \/ At(p, "count") \/ At(p, "spend") \/ At(p, "sweep codes")
           \/ At(p, "suspend") \/ At(p, "reset") \/ At(p, "drop org")
        /\ proc' = Advance(p) \/ proc' = Ended(p) \/ proc' = Thrown(p)
    BY <1>6 DEF CodeStep, StoreCode, Count, Spend, SweepCodes, OrgStep, SuspendOrg, ResetOrg, OrgUpdate, DropOrg
  <2> QED BY <2>1, StepWords1, StepWords2, AlienTurn, ZenonT(40)
<1>7. CASE TokenStep(p) \/ (PeopleStep(p) /\ ~AdminCreate(p))
  <2>1. /\ \/ At(p, "sign") \/ At(p, "revoke token") \/ At(p, "impersonate") \/ At(p, "add") \/ At(p, "drop")
           \/ At(p, "set role") \/ At(p, "drop members")
        /\ proc' = Advance(p) \/ proc' = Ended(p) \/ proc' = Thrown(p)
    BY <1>7 DEF TokenStep, Sign, RevokeToken, Revoked, ImpersonateMember, PeopleStep, Add, Drop, SetRole, RoleSet, DropMembers
  <2> QED BY <2>1, StepWords1, StepWords2, AlienTurn, ZenonT(40)
<1>8. CASE SubscribeOrg(p) \/ Join(p) \/ CountSeats(p) \/ CutOrg(p) \/ DropSub(p)
  <2>1. /\ At(p, "subscribe") \/ At(p, "join") \/ At(p, "seats") \/ At(p, "cut") \/ At(p, "drop sub")
        /\ proc' = Advance(p) \/ proc' = Ended(p) \/ proc' = Thrown(p)
    BY <1>8 DEF SubscribeOrg, Join, CountSeats, CutOrg, Cut, DropSub
  <2> QED BY <2>1, StepWords3, AlienTurn
<1>9. CASE FindCode(p) \/ FindHome(p) \/ MakeOrg(p) \/ FindMember(p)
  BY <1>1, <1>9, FindCodeOp, FindHomeOp, MakeOrgOp, FindMemberOp, AlienBy
<1>12. Asks(p) \/ PlainStep(p) \/ CodeStep(p) \/ OrgStep(p) \/ PeopleStep(p) \/ TokenStep(p) \/ HeldStep(p)
  BY DEF AccountsStep, Asks, PlainStep, CodeStep, OrgStep, PeopleStep, TokenStep, HeldStep
<1>13. HeldStep(p) => Alien
  BY <1>8, <1>9, Zenon DEF HeldStep
<1> QED BY <1>2, <1>3, <1>4, <1>5, <1>6, <1>7, <1>12, <1>13, Zenon

(* Whose a session is does not change.                                     *)
SessionsStay == \A s \in DOMAIN sessions :
  s \in DOMAIN sessions' /\ sessions'[s].org = sessions[s].org /\ sessions'[s].staff = sessions[s].staff

LEMMA SessionsAlike ==
  ASSUME RefInv
  PROVE  /\ sessions' = sessions => SessionsStay
         /\ \A o \in DOMAIN orgs : SignsOne(o) => SessionsStay
         /\ \A p \in Handlers : RevokeToken(p) => SessionsStay
<1>1. RowInv
  BY DEF RefInv
<1>2. \A o \in DOMAIN orgs : SignsOne(o) => SessionsStay
  BY <1>1, TokenNew DEF SessionsStay
<1>3. ASSUME NEW p \in Handlers, RevokeToken(p) PROVE SessionsStay
  <2> DEFINE s == proc[p].by
  <2>1. PICK d : sessions' = [sessions EXCEPT ![s].denied = d, ![s].out = TRUE]
    BY <1>3 DEF RevokeToken, Revoked
  <2>2. \A i \in DOMAIN sessions : sessions[i] \in TokenRow
    BY <1>1, SeqAt DEF RowInv
  <2>3. DOMAIN sessions' = DOMAIN sessions /\ \A i \in DOMAIN sessions \ {s} : sessions'[i] = sessions[i]
    BY <2>1
  <2>4. ASSUME s \in DOMAIN sessions PROVE sessions'[s].org = sessions[s].org /\ sessions'[s].staff = sessions[s].staff
    <3>1. sessions'[s] = [sessions[s] EXCEPT !.denied = d, !.out = TRUE]
      BY <2>1, <2>4
    <3> HIDE DEF s
    <3> QED BY <2>2, <2>4, <3>1 DEF TokenRow
  <2> QED BY <2>3, <2>4 DEF SessionsStay
<1> QED BY <1>2, <1>3 DEF SessionsStay

LEMMA AllSessionsStay ==
  ASSUME Core, [Next]_vars
  PROVE  SessionsStay
<1>1. ProcInv /\ RefInv /\ menu \in Menus
  BY DEF Core
<1>2. Catalogued
  BY <1>1, Catalog
<1>3. CASE Still \/ Ageing
  BY <1>1, <1>3, CodeExpiresRows, SessionsAlike DEF Still, Stored, Ageing, RestOfCodes
<1>4. ASSUME NEW p \in Handlers, CodeStep(p) \/ OrgStep(p) PROVE SessionsStay
  BY <1>1, <1>4, StoreCodeRows, CountRows, SpendRows, SweepCodesRows, OrgStepRows, SessionsAlike DEF CodeStep, RestOfCodes, RestOfOrgs
<1>5. ASSUME NEW p \in Handlers, PeopleStep(p) PROVE SessionsStay
  BY <1>1, <1>5, AddRows, DropRows, SetRoleRows, AdminCreateRows, SessionsAlike DEF PeopleStep
<1>6. ASSUME NEW p \in Handlers, TokenStep(p) PROVE SessionsStay
  BY <1>1, <1>6, SignRows, ImpersonateRows, SessionsAlike DEF TokenStep
<1>7. ASSUME NEW p \in Handlers, HeldStep(p) PROVE SessionsStay
  <2>1. CASE FindCode(p) \/ FindMember(p)
    BY <1>1, <2>1, FindCodeRows, SessionsAlike DEF RestOfCodes, FindMember, FoundMember, accounts
  <2>2. CASE FindHome(p) \/ Join(p)
    BY <1>1, <2>2, HomeRows, JoinRows, SessionsAlike
  <2>3. CASE MakeOrg(p) \/ SubscribeOrg(p) \/ CutOrg(p) \/ DropSub(p)
    BY <1>1, <2>3, SessionsAlike DEF MakeOrg, SubscribeOrg, CutOrg, Cut, DropSub
  <2>4. CASE CountSeats(p)
    BY <1>1, <2>4, SessionsAlike DEF CountSeats
  <2> QED BY <1>7, <2>1, <2>2, <2>3, <2>4, Zenon DEF HeldStep
<1> QED BY <1>2, <1>3, <1>4, <1>5, <1>6, <1>7, Zenon DEF Catalogued, Steadily

-----------------------------------------------------------------------------
(* The steps of each kind *)

LEMMA DoorComes == \A v \in Doors : \A w : Comes(v, w)
  BY DEF Doors, Comes
LEMMA DoorsIn ==
  ASSUME NEW k \in Kinds \ {"metric", "engine", "desk"}
  PROVE  Doors \subseteq Kin(k)
<1>1. Doors \subseteq OtherSteps
  BY NicheFacts, OtherWordsApart, WordsIn, Enters DEF Doors
<1> QED BY <1>1, DoorKind DEF Kin
LEMMA DoorLists ==
  ASSUME NEW k \in Kinds \ {"metric", "engine", "desk"}
  PROVE  /\ <<"enter", "context">> \in Seq(Kin(k)) /\ Ordered(<<"enter", "context">>)
         /\ <<"token">> \in Seq(Kin(k)) /\ Ordered(<<"token">>)
         /\ Words(<<"enter", "context">>) \subseteq Doors /\ Words(<<"token">>) \subseteq Doors
<1>1. "enter" \in Doors /\ "context" \in Doors /\ "token" \in Doors
  BY DEF Doors
<1>2. \A a, b \in Kin(k) : <<a, b>> \in Seq(Kin(k)) /\ <<a>> \in Seq(Kin(k))
  OBVIOUS
<1>3. \A a, b \in Doors : Ordered(<<a, b>>) /\ Words(<<a, b>>) \subseteq Doors /\ Ordered(<<a>>) /\ Words(<<a>>) \subseteq Doors
  <2> SUFFICES ASSUME NEW a \in Doors, NEW b \in Doors
      PROVE  Ordered(<<a, b>>) /\ Words(<<a, b>>) \subseteq Doors /\ Ordered(<<a>>) /\ Words(<<a>>) \subseteq Doors
    OBVIOUS
  <2>1. Comes(a, b)
    BY DoorComes
  <2>2. Words(<<a, b>>) = {a, b} /\ Ordered(<<a, b>>) /\ Words(<<a>>) = {a} /\ Ordered(<<a>>)
    BY <2>1, OrderedShort, Zenon
  <2> QED BY <2>2
<1> QED BY <1>1, <1>2, <1>3, DoorsIn
(* How a request is let in.                                                *)
Firsts == {<<"enter", "context">>, <<"token">>, <<"context">>}
LEMMA FirstsAre == <<"enter", "context">> \in Firsts /\ <<"token">> \in Firsts /\ <<"context">> \in Firsts
  BY DEF Firsts
LEMMA DoorJoin ==
  ASSUME NEW k \in Kinds \ {"metric", "engine", "desk"}, NEW program \in Seq(Kin(k)), Ordered(program),
         NEW first \in Firsts
  PROVE  /\ first \o program \in Seq(Kin(k)) /\ Ordered(first \o program)
         /\ \A w \in Words(first \o program) : w \in Doors \/ w \in Words(program)
         /\ Words(program) \subseteq Words(first \o program)
<1>1. first \in Seq(Kin(k)) /\ Ordered(first) /\ Words(first) \subseteq Doors
  <2>1. "context" \in Doors
    BY DEF Doors
  <2>2. <<"context">> \in Seq(Kin(k)) /\ Ordered(<<"context">>) /\ Words(<<"context">>) \subseteq Doors
    BY <2>1, DoorsIn, OrderedShort
  <2> QED BY <2>2, DoorLists DEF Firsts
<1>2. \A v \in Words(first), w \in Words(program) : Comes(v, w)
  BY <1>1, DoorComes
<1> HIDE DEF Kin
<1> QED BY <1>1, <1>2, OrderedJoin

LEMMA EditFields ==
  ASSUME NEW op, NEW s, NEW o, NEW id, NEW day, NEW t
  PROVE  LET r == [Idle EXCEPT !.op = op, !.by = s, !.org = o, !.id = id, !.who = day, !.todo = t] IN
         /\ DOMAIN r = Fields /\ r.op = op /\ r.by = s /\ r.org = o /\ r.id = id /\ r.who = day /\ r.todo = t
         /\ r.saw = 0 /\ r.marks = {} /\ r.locks = {}
  BY DEF Idle, Fields

(* A request of an organisation for its tables.                            *)
NewEdit(p, kind, id, day, words) ==
  /\ DOMAIN proc'[p] = Fields /\ proc'[p].op \in {kind, "legacy"}
  /\ proc'[p].by \in Tokens /\ proc'[p].org = OrgOf(proc'[p].by)
  /\ proc'[p].id = id /\ proc'[p].who = day /\ proc'[p].saw = 0 /\ proc'[p].marks = {} /\ proc'[p].locks = {}
  /\ proc'[p].no = calls + 1 /\ calls' = calls + 1
  /\ proc[p].todo = <<>>
  /\ \A w : w \notin Doors => (w \in Words(proc'[p].todo) <=> w \in words)
LEMMA EditMove ==
  ASSUME ProcInv, NEW p \in Handlers, NEW kind, NEW id, NEW day, NEW k \in Kinds \ {"metric", "engine", "desk"},
         kind \in Serving(k), "legacy" \in Serving(k), NEW program \in Seq(Kin(k)), Ordered(program),
         Edit(p, kind, id, day, program)
  PROVE  /\ Deed(p, k) /\ Only(p) /\ NewEdit(p, kind, id, day, Words(program))
         /\ UNCHANGED <<accounts, tenancy>>
<1> DEFINE request(s, op, first) == [Idle EXCEPT !.op = op, !.by = s, !.org = OrgOf(s),
                                             !.id = id, !.who = day, !.todo = first \o program]
<1>1. PICK s \in Tokens : \/ Begin(p, kind, request(s, kind, <<"enter", "context">>))
                          \/ Begin(p, kind, request(s, "legacy", <<"token">>))
  BY DEF Edit
<1>2. \A op, first : LET r == request(s, op, first) IN
         /\ DOMAIN r = Fields /\ r.op = op /\ r.by = s /\ r.org = OrgOf(s) /\ r.id = id /\ r.who = day
         /\ r.todo = first \o program /\ r.saw = 0 /\ r.marks = {} /\ r.locks = {}
  BY EditFields
<1> HIDE DEF request
<1>3. ASSUME NEW op \in Serving(k), op \in {kind, "legacy"}, NEW first \in Firsts,
             Begin(p, kind, request(s, op, first))
      PROVE  Deed(p, k) /\ Only(p) /\ NewEdit(p, kind, id, day, Words(program))
  <2> DEFINE t == first \o program
  <2>1. /\ t \in Seq(Kin(k)) /\ Ordered(t) /\ \A w \in Words(t) : w \in Doors \/ w \in Words(program)
        /\ Words(program) \subseteq Words(t)
    BY DoorJoin
  <2> HIDE DEF t
  <2> DEFINE r == request(s, op, first)
  <2>2. /\ DOMAIN r = Fields /\ r.op = op /\ r.by = s /\ r.org = OrgOf(s) /\ r.id = id /\ r.who = day
        /\ r.todo = t /\ r.saw = 0 /\ r.marks = {} /\ r.locks = {}
    BY <1>2 DEF t
  <2>3. Begin(p, kind, r)
    BY <1>3
  <2> HIDE DEF r
  <2>4. Clanned(r, k)
    BY <1>3, <2>1, <2>2 DEF Clanned
  <2>5. /\ Deed(p, k) /\ Only(p) /\ DOMAIN proc'[p] = Fields /\ proc'[p].no = calls + 1
        /\ \A f \in Fields \ {"no"} : proc'[p][f] = r[f]
    BY <2>2, <2>3, <2>4, DeedBegun
  <2>6. proc[p].todo = <<>> /\ calls' = calls + 1
    BY <2>3 DEF Begin, Busy
  <2>7. /\ proc'[p].op = op /\ proc'[p].by = s /\ proc'[p].org = OrgOf(s) /\ proc'[p].id = id
        /\ proc'[p].who = day /\ proc'[p].saw = 0 /\ proc'[p].marks = {} /\ proc'[p].locks = {} /\ proc'[p].todo = t
    BY <2>2, <2>5 DEF Fields
  <2>8. NewEdit(p, kind, id, day, Words(program))
    BY <1>1, <1>3, <2>1, <2>5, <2>6, <2>7 DEF NewEdit
  <2> QED BY <2>5, <2>8
<1>6. UNCHANGED <<accounts, tenancy>>
  BY DEF Edit
<1>4. CASE Begin(p, kind, request(s, kind, <<"enter", "context">>))
  BY <1>3, <1>4, <1>6, FirstsAre
<1>5. CASE Begin(p, kind, request(s, "legacy", <<"token">>))
  BY <1>3, <1>5, <1>6, FirstsAre
<1> QED BY <1>1, <1>4, <1>5

(* One request with other values in some of its fields.                    *)
Alters(p, fs) == Only(p) /\ DOMAIN proc'[p] = Fields /\ \A f \in Fields \ fs : proc'[p][f] = proc[p][f]
LEMMA AllFields ==
  /\ "op" \in Fields /\ "no" \in Fields /\ "by" \in Fields /\ "who" \in Fields /\ "org" \in Fields /\ "id" \in Fields
  /\ "saw" \in Fields /\ "todo" \in Fields /\ "marks" \in Fields /\ "locks" \in Fields
  BY DEF Fields
LEMMA SetMarks ==
  ASSUME ProcInv, NEW p \in Handlers, Away(proc[p]), NEW t, NEW x,
         proc' = [proc EXCEPT ![p].todo = t, ![p].marks = x]
  PROVE  Alters(p, {"todo", "marks"}) /\ proc'[p].todo = t /\ proc'[p].marks = x
<1>1. DOMAIN proc[p] = Fields /\ DOMAIN proc = Handlers
  BY DEF Away, ProcInv
<1>2. Only(p)
  BY <1>1 DEF Only
<1>3. proc'[p] = [[proc[p] EXCEPT !.todo = t] EXCEPT !.marks = x]
  BY <1>1, AllFields
<1> QED BY <1>1, <1>2, <1>3, AllFields DEF Alters
LEMMA SetLocks ==
  ASSUME ProcInv, NEW p \in Handlers, Away(proc[p]), NEW t, NEW x,
         proc' = [proc EXCEPT ![p].todo = t, ![p].locks = x]
  PROVE  Alters(p, {"todo", "locks"}) /\ proc'[p].todo = t /\ proc'[p].locks = x
<1>1. DOMAIN proc[p] = Fields /\ DOMAIN proc = Handlers
  BY DEF Away, ProcInv
<1>2. Only(p)
  BY <1>1 DEF Only
<1>3. proc'[p] = [[proc[p] EXCEPT !.todo = t] EXCEPT !.locks = x]
  BY <1>1, AllFields
<1> QED BY <1>1, <1>2, <1>3, AllFields DEF Alters
LEMMA SetSaw ==
  ASSUME ProcInv, NEW p \in Handlers, Away(proc[p]), NEW t, NEW x,
         proc' = [proc EXCEPT ![p].todo = t, ![p].saw = x]
  PROVE  Alters(p, {"todo", "saw"}) /\ proc'[p].todo = t /\ proc'[p].saw = x
<1>1. DOMAIN proc[p] = Fields /\ DOMAIN proc = Handlers
  BY DEF Away, ProcInv
<1>2. Only(p)
  BY <1>1 DEF Only
<1>3. proc'[p] = [[proc[p] EXCEPT !.todo = t] EXCEPT !.saw = x]
  BY <1>1, AllFields
<1> QED BY <1>1, <1>2, <1>3, AllFields DEF Alters
LEMMA SetOp ==
  ASSUME ProcInv, NEW p \in Handlers, Away(proc[p]), NEW t, NEW x,
         proc' = [proc EXCEPT ![p].op = x, ![p].todo = t]
  PROVE  Alters(p, {"op", "todo"}) /\ proc'[p].todo = t /\ proc'[p].op = x
<1>1. DOMAIN proc[p] = Fields /\ DOMAIN proc = Handlers
  BY DEF Away, ProcInv
<1>2. Only(p)
  BY <1>1 DEF Only
<1>3. proc'[p] = [[proc[p] EXCEPT !.op = x] EXCEPT !.todo = t]
  BY <1>1, AllFields
<1> QED BY <1>1, <1>2, <1>3, AllFields DEF Alters
LEMMA MarksSet ==
  ASSUME ProcInv, NEW p \in Handlers, Away(proc[p]), NEW t, NEW x,
         proc' = [proc EXCEPT ![p].marks = x, ![p].todo = t]
  PROVE  Alters(p, {"todo", "marks"}) /\ proc'[p].todo = t /\ proc'[p].marks = x
<1>1. DOMAIN proc[p] = Fields /\ DOMAIN proc = Handlers
  BY DEF Away, ProcInv
<1>2. Only(p)
  BY <1>1 DEF Only
<1>3. proc'[p] = [[proc[p] EXCEPT !.marks = x] EXCEPT !.todo = t]
  BY <1>1, AllFields
<1> QED BY <1>1, <1>2, <1>3, AllFields DEF Alters
LEMMA SetMarksLocks ==
  ASSUME ProcInv, NEW p \in Handlers, Away(proc[p]), NEW t, NEW x, NEW y,
         proc' = [proc EXCEPT ![p].todo = t, ![p].marks = x, ![p].locks = y]
  PROVE  Alters(p, {"todo", "marks", "locks"}) /\ proc'[p].todo = t /\ proc'[p].marks = x /\ proc'[p].locks = y
<1>1. DOMAIN proc[p] = Fields /\ DOMAIN proc = Handlers
  BY DEF Away, ProcInv
<1>2. Only(p)
  BY <1>1 DEF Only
<1>3. proc'[p] = [[[proc[p] EXCEPT !.todo = t] EXCEPT !.marks = x] EXCEPT !.locks = y]
  BY <1>1, AllFields
<1> QED BY <1>1, <1>2, <1>3, AllFields DEF Alters
LEMMA SetMarksSaw ==
  ASSUME ProcInv, NEW p \in Handlers, Away(proc[p]), NEW t, NEW x, NEW y,
         proc' = [proc EXCEPT ![p].todo = t, ![p].marks = x, ![p].saw = y]
  PROVE  Alters(p, {"todo", "marks", "saw"}) /\ proc'[p].todo = t /\ proc'[p].marks = x /\ proc'[p].saw = y
<1>1. DOMAIN proc[p] = Fields /\ DOMAIN proc = Handlers
  BY DEF Away, ProcInv
<1>2. Only(p)
  BY <1>1 DEF Only
<1>3. proc'[p] = [[[proc[p] EXCEPT !.todo = t] EXCEPT !.marks = x] EXCEPT !.saw = y]
  BY <1>1, AllFields
<1> QED BY <1>1, <1>2, <1>3, AllFields DEF Alters
LEMMA SetWho ==
  ASSUME ProcInv, NEW p \in Handlers, Away(proc[p]), NEW t, NEW x, NEW y,
         proc' = [proc EXCEPT ![p].who = x, ![p].marks = y, ![p].todo = t]
  PROVE  Alters(p, {"todo", "marks", "who"}) /\ proc'[p].todo = t /\ proc'[p].who = x /\ proc'[p].marks = y
<1>1. DOMAIN proc[p] = Fields /\ DOMAIN proc = Handlers
  BY DEF Away, ProcInv
<1>2. Only(p)
  BY <1>1 DEF Only
<1>3. proc'[p] = [[[proc[p] EXCEPT !.who = x] EXCEPT !.marks = y] EXCEPT !.todo = t]
  BY <1>1, AllFields
<1> QED BY <1>1, <1>2, <1>3, AllFields DEF Alters
LEMMA SetRows ==
  ASSUME ProcInv, NEW p \in Handlers, Away(proc[p]), NEW t, NEW x, NEW y, NEW z,
         proc' = [proc EXCEPT ![p].todo = t, ![p].marks = x, ![p].locks = y, ![p].saw = z]
  PROVE  /\ Alters(p, {"todo", "marks", "locks", "saw"})
         /\ proc'[p].todo = t /\ proc'[p].marks = x /\ proc'[p].locks = y /\ proc'[p].saw = z
<1>1. DOMAIN proc[p] = Fields /\ DOMAIN proc = Handlers
  BY DEF Away, ProcInv
<1>2. Only(p)
  BY <1>1 DEF Only
<1>3. proc'[p] = [[[[proc[p] EXCEPT !.todo = t] EXCEPT !.marks = x] EXCEPT !.locks = y] EXCEPT !.saw = z]
  BY <1>1, AllFields
<1> QED BY <1>1, <1>2, <1>3, AllFields DEF Alters

LEMMA AltersMove ==
  ASSUME ProcInv, FlowInv, NEW p \in Handlers, NEW s \in OtherWords, NEW k \in Kinds, Kind(s) = k, At(p, s),
         NEW fs, "op" \notin fs, Alters(p, fs),
         \/ proc'[p].todo = proc[p].todo
         \/ proc'[p].todo = Tail(proc[p].todo)
         \/ proc'[p].todo \in Seq(Kin(k)) /\ Ordered(proc'[p].todo)
  PROVE  Deed(p, k)
<1>1. Clanned(proc[p], k)
  BY AtKind
<1>2. proc'[p].op = proc[p].op
  BY AllFields DEF Alters
<1>3. KinMove(p, k)
  BY <1>1, <1>2 DEF KinMove, Alters, Clanned
<1> QED BY <1>3, DeedStep
LEMMA GoneMove ==
  ASSUME ProcInv, FlowInv, NEW p \in Handlers, NEW s \in OtherWords, NEW k \in Kinds, Kind(s) = k, At(p, s),
         proc' = Ended(p) \/ proc' = Thrown(p) \/ proc' = Advance(p)
  PROVE  Deed(p, k)
  BY DeedStep DEF KinMove

(* Short programs.                                                         *)
LEMMA ShortLists ==
  ASSUME NEW S, NEW a \in S, NEW b \in S
  PROVE  /\ <<>> \in Seq(S) /\ Ordered(<<>>) /\ Words(<<>>) = {}
         /\ <<a>> \in Seq(S) /\ Ordered(<<a>>) /\ Words(<<a>>) = {a}
         /\ <<a, b>> \in Seq(S) /\ Words(<<a, b>>) = {a, b} /\ (Comes(a, b) => Ordered(<<a, b>>))
<1>1. <<>> \in Seq(S) /\ <<a>> \in Seq(S) /\ <<a, b>> \in Seq(S)
  OBVIOUS
<1> QED BY <1>1, OrderedShort, Zenon
LEMMA TwoIn == \A S : \A a, b \in S : <<a, b>> \in Seq(S)
  OBVIOUS
LEMMA ThreeLists ==
  ASSUME NEW S, NEW s \in Seq(S), NEW t \in Seq(S), NEW u \in Seq(S), Ordered(s), Ordered(t), Ordered(u),
         \A v \in Words(s) : (\A w \in Words(t) : Comes(v, w)) /\ (\A w \in Words(u) : Comes(v, w)),
         \A v \in Words(t), w \in Words(u) : Comes(v, w)
  PROVE  s \o t \o u \in Seq(S) /\ Ordered(s \o t \o u) /\ Words(s \o t \o u) = Words(s) \cup Words(t) \cup Words(u)
<1>1. s \o t \in Seq(S) /\ Ordered(s \o t) /\ Words(s \o t) = Words(s) \cup Words(t)
  BY OrderedJoin
<1> DEFINE v == s \o t
<1>2. v \in Seq(S) /\ Ordered(v) /\ Words(v) = Words(s) \cup Words(t)
  BY <1>1
<1> HIDE DEF v
<1>3. v \o u \in Seq(S) /\ Ordered(v \o u) /\ Words(v \o u) = Words(v) \cup Words(u)
  BY <1>2, OrderedJoin
<1> QED BY <1>2, <1>3 DEF v
LEMMA ThreeWords ==
  ASSUME NEW S, NEW a \in S, NEW b \in S, NEW c \in S
  PROVE  /\ <<a, b, c>> \in Seq(S) /\ Words(<<a, b, c>>) = {a, b, c}
         /\ (Comes(a, b) /\ Comes(a, c) /\ Comes(b, c) => Ordered(<<a, b, c>>))
  BY DEF Ordered, Words
LEMMA KinHas == \A k : \A w \in OtherWords : Kind(w) = k => w \in Kin(k)
  BY WordsIn DEF Kin

(* Niches.                                                                 *)
NicheWork(p) ==
  \/ CreateNiche(p) \/ UpdateNiche(p) \/ DeleteNiche(p) \/ FindNiche(p) \/ BeginTransaction(p)
  \/ MarkDay(p) \/ LockDay(p) \/ WriteNiche(p) \/ Commit(p) \/ RemoveNiche(p) \/ AbortOne(p)
LEMMA NicheIs == "niche" \in Kinds \ {"metric", "engine", "desk"} /\ "niche" \in Serving("niche") /\ "legacy" \in Serving("niche")
  BY DEF Kinds, Serving
LEMMA NicheKin == \A w \in NicheClan : w \in Kin("niche") /\ w \in OtherWords
  BY NicheKind, NicheFacts, KinHas DEF NicheClan
LEMMA NicheIn ==
  /\ "begin" \in NicheClan /\ "mark day" \in NicheClan /\ "lock day" \in NicheClan /\ "commit" \in NicheClan
  /\ "find niche" \in NicheClan /\ "write" \in NicheClan /\ "delete niche" \in NicheClan
  BY DEF NicheClan
LEMMA NicheComes ==
  /\ Comes("find niche", "begin") /\ Comes("find niche", "mark day") /\ Comes("find niche", "lock day")
  /\ Comes("find niche", "write") /\ Comes("find niche", "commit") /\ Comes("find niche", "delete niche")
  /\ Comes("begin", "mark day") /\ Comes("begin", "lock day") /\ Comes("begin", "write") /\ Comes("begin", "commit")
  /\ Comes("mark day", "lock day") /\ Comes("mark day", "write") /\ Comes("mark day", "commit")
  /\ Comes("lock day", "write") /\ Comes("lock day", "commit") /\ Comes("write", "commit")
  BY ZenonT(40) DEF Comes
ClearingWords(day) == IF day = 0 THEN {} ELSE {"mark day", "lock day"}
LEMMA ClearingIs == \A d : /\ Clearing(d) \in Seq(Kin("niche")) /\ Ordered(Clearing(d))
                           /\ Words(Clearing(d)) = ClearingWords(d)
<1>1. /\ <<>> \in Seq(Kin("niche")) /\ Ordered(<<>>) /\ Words(<<>>) = {}
      /\ <<"mark day", "lock day">> \in Seq(Kin("niche")) /\ Ordered(<<"mark day", "lock day">>)
      /\ Words(<<"mark day", "lock day">>) = {"mark day", "lock day"}
  BY NicheIn, NicheKin, NicheComes, ShortLists, Zenon
<1> QED BY <1>1, Zenon DEF Clearing, ClearingWords
LEMMA NichePrograms ==
  ASSUME NEW d
  PROVE  LET new == <<"begin">> \o Clearing(d) \o <<"commit">>
             upd == <<"find niche", "begin">> \o Clearing(d) \o <<"write", "commit">>
             del == <<"find niche", "delete niche">> IN
         /\ new \in Seq(Kin("niche")) /\ Ordered(new) /\ Words(new) = {"begin"} \cup ClearingWords(d) \cup {"commit"}
         /\ upd \in Seq(Kin("niche")) /\ Ordered(upd)
         /\ Words(upd) = {"find niche", "begin"} \cup ClearingWords(d) \cup {"write", "commit"}
         /\ del \in Seq(Kin("niche")) /\ Ordered(del) /\ Words(del) = {"find niche", "delete niche"}
<1> DEFINE c == Clearing(d)
<1>1. c \in Seq(Kin("niche")) /\ Ordered(c) /\ Words(c) = ClearingWords(d)
  BY ClearingIs
<1>2. \A w \in ClearingWords(d) : w = "mark day" \/ w = "lock day"
  BY DEF ClearingWords
<1> HIDE DEF c
<1>3. /\ <<"begin">> \in Seq(Kin("niche")) /\ Ordered(<<"begin">>) /\ Words(<<"begin">>) = {"begin"}
      /\ <<"commit">> \in Seq(Kin("niche")) /\ Ordered(<<"commit">>) /\ Words(<<"commit">>) = {"commit"}
  BY NicheIn, NicheKin, ShortLists, Zenon
<1>4. /\ <<"find niche", "begin">> \in Seq(Kin("niche")) /\ Ordered(<<"find niche", "begin">>)
      /\ Words(<<"find niche", "begin">>) = {"find niche", "begin"}
      /\ <<"write", "commit">> \in Seq(Kin("niche")) /\ Ordered(<<"write", "commit">>)
      /\ Words(<<"write", "commit">>) = {"write", "commit"}
  BY NicheIn, NicheKin, NicheComes, ShortLists, Zenon
<1>5. /\ <<"find niche", "delete niche">> \in Seq(Kin("niche")) /\ Ordered(<<"find niche", "delete niche">>)
      /\ Words(<<"find niche", "delete niche">>) = {"find niche", "delete niche"}
  BY NicheIn, NicheKin, NicheComes, ShortLists, Zenon
<1>6. \A v \in {"begin"} : (\A w \in Words(c) : Comes(v, w)) /\ (\A w \in {"commit"} : Comes(v, w))
  BY <1>1, <1>2, NicheComes
<1>7. \A v \in Words(c), w \in {"commit"} : Comes(v, w)
  BY <1>1, <1>2, NicheComes
<1>8. \A v \in {"find niche", "begin"} : (\A w \in Words(c) : Comes(v, w)) /\ (\A w \in {"write", "commit"} : Comes(v, w))
  BY <1>1, <1>2, NicheComes
<1>9. \A v \in Words(c), w \in {"write", "commit"} : Comes(v, w)
  BY <1>1, <1>2, NicheComes
<1>10. ASSUME NEW s \in Seq(Kin("niche")), NEW u \in Seq(Kin("niche")), Ordered(s), Ordered(u),
              NEW A, NEW B, Words(s) = A, Words(u) = B,
              \A v \in A : (\A w \in Words(c) : Comes(v, w)) /\ (\A w \in B : Comes(v, w)),
              \A v \in Words(c), w \in B : Comes(v, w)
       PROVE  /\ s \o c \o u \in Seq(Kin("niche")) /\ Ordered(s \o c \o u)
              /\ Words(s \o c \o u) = A \cup ClearingWords(d) \cup B
  BY <1>1, <1>10, ThreeLists
<1>11. LET new == <<"begin">> \o c \o <<"commit">> IN
       new \in Seq(Kin("niche")) /\ Ordered(new) /\ Words(new) = {"begin"} \cup ClearingWords(d) \cup {"commit"}
  <2> DEFINE s == <<"begin">>
             u == <<"commit">>
  <2>1. s \in Seq(Kin("niche")) /\ Ordered(s) /\ Words(s) = {"begin"} /\ u \in Seq(Kin("niche")) /\ Ordered(u) /\ Words(u) = {"commit"}
    BY <1>3
  <2> HIDE DEF s, u
  <2>2. s \o c \o u \in Seq(Kin("niche")) /\ Ordered(s \o c \o u) /\ Words(s \o c \o u) = {"begin"} \cup ClearingWords(d) \cup {"commit"}
    BY <1>6, <1>7, <1>10, <2>1
  <2> QED BY <2>2 DEF s, u
<1>12. LET upd == <<"find niche", "begin">> \o c \o <<"write", "commit">> IN
       /\ upd \in Seq(Kin("niche")) /\ Ordered(upd)
       /\ Words(upd) = {"find niche", "begin"} \cup ClearingWords(d) \cup {"write", "commit"}
  <2> DEFINE s == <<"find niche", "begin">>
             u == <<"write", "commit">>
             A == {"find niche", "begin"}
             B == {"write", "commit"}
  <2>1. /\ s \in Seq(Kin("niche")) /\ Ordered(s) /\ Words(s) = A
        /\ u \in Seq(Kin("niche")) /\ Ordered(u) /\ Words(u) = B
    BY <1>4
  <2>2. /\ \A v \in A : (\A w \in Words(c) : Comes(v, w)) /\ (\A w \in B : Comes(v, w))
        /\ \A v \in Words(c), w \in B : Comes(v, w)
    BY <1>8, <1>9
  <2> HIDE DEF s, u, A, B
  <2>3. s \o c \o u \in Seq(Kin("niche")) /\ Ordered(s \o c \o u) /\ Words(s \o c \o u) = A \cup ClearingWords(d) \cup B
    BY <1>10, <2>1, <2>2
  <2> QED BY <2>3 DEF s, u, A, B
<1> QED BY <1>5, <1>11, <1>12, Zenon DEF c

(* What the steps do to the request.                                       *)
LEMMA NewNiche ==
  ASSUME ProcInv, NEW p \in Handlers
  PROVE  /\ CreateNiche(p) => \E d \in NicheDays :
              /\ Deed(p, "niche") /\ Only(p) /\ UNCHANGED <<accounts, tenancy>>
              /\ NewEdit(p, "niche", 0, d, {"begin"} \cup ClearingWords(d) \cup {"commit"})
         /\ UpdateNiche(p) => \E i \in DOMAIN niches, d \in NicheDays :
              /\ Deed(p, "niche") /\ Only(p) /\ UNCHANGED <<accounts, tenancy>>
              /\ NewEdit(p, "niche", i, d, {"find niche", "begin"} \cup ClearingWords(d) \cup {"write", "commit"})
         /\ DeleteNiche(p) => \E i \in DOMAIN niches :
              /\ Deed(p, "niche") /\ Only(p) /\ UNCHANGED <<accounts, tenancy>>
              /\ NewEdit(p, "niche", i, 0, {"find niche", "delete niche"})
<1>1. ASSUME NEW i, NEW d, NEW program \in Seq(Kin("niche")), Ordered(program), Edit(p, "niche", i, d, program)
      PROVE  Deed(p, "niche") /\ Only(p) /\ UNCHANGED <<accounts, tenancy>> /\ NewEdit(p, "niche", i, d, Words(program))
  BY <1>1, NicheIs, EditMove
<1>2. ASSUME CreateNiche(p)
      PROVE  \E d \in NicheDays :
              /\ Deed(p, "niche") /\ Only(p) /\ UNCHANGED <<accounts, tenancy>>
              /\ NewEdit(p, "niche", 0, d, {"begin"} \cup ClearingWords(d) \cup {"commit"})
  <2>1. PICK d \in NicheDays : Edit(p, "niche", 0, d, <<"begin">> \o Clearing(d) \o <<"commit">>)
    BY <1>2 DEF CreateNiche
  <2> DEFINE t == <<"begin">> \o Clearing(d) \o <<"commit">>
  <2>2. t \in Seq(Kin("niche")) /\ Ordered(t) /\ Words(t) = {"begin"} \cup ClearingWords(d) \cup {"commit"}
    BY NichePrograms
  <2>3. Edit(p, "niche", 0, d, t)
    BY <2>1
  <2> HIDE DEF t
  <2>4. Deed(p, "niche") /\ Only(p) /\ UNCHANGED <<accounts, tenancy>> /\ NewEdit(p, "niche", 0, d, Words(t))
    BY <1>1, <2>2, <2>3
  <2>5. NewEdit(p, "niche", 0, d, {"begin"} \cup ClearingWords(d) \cup {"commit"})
    BY <2>2, <2>4
  <2> QED BY <2>4, <2>5, Zenon
<1>3. ASSUME UpdateNiche(p)
      PROVE  \E i \in DOMAIN niches, d \in NicheDays :
              /\ Deed(p, "niche") /\ Only(p) /\ UNCHANGED <<accounts, tenancy>>
              /\ NewEdit(p, "niche", i, d, {"find niche", "begin"} \cup ClearingWords(d) \cup {"write", "commit"})
  <2>1. PICK i \in DOMAIN niches, d \in NicheDays :
          Edit(p, "niche", i, d, <<"find niche", "begin">> \o Clearing(d) \o <<"write", "commit">>)
    BY <1>3 DEF UpdateNiche
  <2> DEFINE t == <<"find niche", "begin">> \o Clearing(d) \o <<"write", "commit">>
  <2>2. /\ t \in Seq(Kin("niche")) /\ Ordered(t)
        /\ Words(t) = {"find niche", "begin"} \cup ClearingWords(d) \cup {"write", "commit"}
    BY NichePrograms
  <2>3. Edit(p, "niche", i, d, t)
    BY <2>1
  <2> HIDE DEF t
  <2>4. Deed(p, "niche") /\ Only(p) /\ UNCHANGED <<accounts, tenancy>> /\ NewEdit(p, "niche", i, d, Words(t))
    BY <1>1, <2>2, <2>3
  <2>5. NewEdit(p, "niche", i, d, {"find niche", "begin"} \cup ClearingWords(d) \cup {"write", "commit"})
    BY <2>2, <2>4
  <2> QED BY <2>4, <2>5, Zenon
<1>4. ASSUME DeleteNiche(p)
      PROVE  \E i \in DOMAIN niches :
              /\ Deed(p, "niche") /\ Only(p) /\ UNCHANGED <<accounts, tenancy>>
              /\ NewEdit(p, "niche", i, 0, {"find niche", "delete niche"})
  <2>1. PICK i \in DOMAIN niches : Edit(p, "niche", i, 0, <<"find niche", "delete niche">>)
    BY <1>4 DEF DeleteNiche
  <2> DEFINE t == <<"find niche", "delete niche">>
  <2>2. t \in Seq(Kin("niche")) /\ Ordered(t) /\ Words(t) = {"find niche", "delete niche"}
    BY NichePrograms
  <2>3. Edit(p, "niche", i, 0, t)
    BY <2>1
  <2> HIDE DEF t
  <2> QED BY <1>1, <2>2, <2>3
<1> QED BY <1>2, <1>3, <1>4

-----------------------------------------------------------------------------
(* What a request has ahead of it *)

Ahead(q) == Words(proc[q].todo)
(* p goes past an await.                                                   *)
Passes(p, s) == Ahead(p) = {s} \cup Ahead(p)' /\ \A w \in Ahead(p)' : Comes(s, w)
(* q is as it was, but for a door it may have come through.                *)
Intact(q, k) ==
  /\ DOMAIN proc'[q] = Fields /\ \A f \in Fields \ {"todo"} : proc'[q][f] = proc[q][f]
  /\ \A w : Kind(w) = k => (w \in Ahead(q)' <=> w \in Ahead(q))

LEMMA TodoSeq == ASSUME ProcInv, NEW p \in Handlers PROVE \E S : proc[p].todo \in Seq(S)
  BY DEF ProcInv, Inside, Away, Program
LEMMA AwaitsIs == ASSUME ProcInv, NEW p \in Handlers PROVE \A w : Awaits(p, w) <=> w \in Ahead(p)
<1>1. PICK S : proc[p].todo \in Seq(S)
  BY TodoSeq
<1>2. DOMAIN proc[p].todo = 1..Len(proc[p].todo)
  BY <1>1
<1> QED BY <1>2 DEF Awaits, Ahead, Words
LEMMA AwaitsNext == ProcInv' => \A p \in Handlers : \A w : Awaits(p, w)' <=> w \in Ahead(p)'
<1> DEFINE I == ProcInv => \A p \in Handlers : \A w : Awaits(p, w) <=> w \in Ahead(p)
<1>1. I
  BY AwaitsIs
<1>2. I'
  BY <1>1, PTL
<1> QED BY <1>2
LEMMA BusyIs == ASSUME ProcInv, NEW p \in Handlers, NEW w, w \in Ahead(p) PROVE p \in Busy /\ proc[p].todo # <<>>
<1>1. proc[p].todo # <<>>
  BY OrderedShort DEF Ahead
<1> QED BY <1>1 DEF Busy

LEMMA Tailed ==
  ASSUME ProcInv, FlowInv, NEW p \in Handlers, NEW s \in OtherWords, NEW k \in Kinds, Kind(s) = k, At(p, s),
         proc'[p].todo = Tail(proc[p].todo)
  PROVE  Passes(p, s)
<1>1. Clanned(proc[p], k) /\ proc[p].todo # <<>> /\ Head(proc[p].todo) = s
  BY AtKind
<1>2. proc[p].todo \in Seq(Kin(k)) /\ Ordered(proc[p].todo)
  BY <1>1 DEF Clanned
<1>3. /\ Words(proc[p].todo) = {s} \cup Words(Tail(proc[p].todo))
      /\ \A w \in Words(Tail(proc[p].todo)) : Comes(s, w)
  BY <1>1, <1>2, OrderedTail
<1> QED BY <1>3 DEF Passes, Ahead
LEMMA TurnMove ==
  ASSUME ProcInv, FlowInv, NEW p \in Handlers, NEW s \in OtherWords, NEW k \in Kinds, Kind(s) = k, At(p, s),
         proc' = Advance(p)
  PROVE  Deed(p, k) /\ Only(p) /\ (proc'[p] = Idle \/ (Alters(p, {"todo"}) /\ Passes(p, s)))
<1>1. proc[p].todo # <<>> /\ Deed(p, k)
  BY GoneMove DEF At
<1>2. GoesOn(p) /\ ProcInv'
  BY <1>1, AdvanceOK
<1>3. ASSUME proc'[p] # Idle PROVE Alters(p, {"todo"}) /\ Passes(p, s)
  <2>1. DOMAIN proc'[p] = Fields
    BY <1>2 DEF ProcInv, Inside, Away
  <2>2. proc'[p].todo = Tail(proc[p].todo) /\ Alters(p, {"todo"})
    BY <1>2, <1>3, <2>1 DEF GoesOn, Alters
  <2> QED BY <2>2, Tailed
<1> QED BY <1>1, <1>2, <1>3 DEF GoesOn

LEMMA NothingAhead == ASSUME NEW q, proc'[q] = Idle PROVE \A j \in Kinds : ~Has(proc'[q], j)
  BY IdleHas
LEMMA SameAlike == ASSUME NEW q, NEW k, DOMAIN proc[q] = Fields, proc'[q] = proc[q] PROVE Intact(q, k)
  BY DEF Intact, Ahead
LEMMA BesideAlike ==
  ASSUME ProcInv, FlowInv, NEW k \in Kinds, Beside(k), NEW q \in Handlers, Has(proc'[q], k)
  PROVE  Intact(q, k) /\ Has(proc[q], k) /\ Away(proc[q])
  BY BesideSame DEF Intact, Ahead
(* Whoever else has awaits of the kind of a deed is as it was.             *)
LEMMA DeedAlike ==
  ASSUME ProcInv, NEW p \in Handlers, NEW k \in Kinds, Deed(p, k), NEW q \in Handlers \ {p}, Has(proc'[q], k)
  PROVE  proc'[q] = proc[q] /\ Intact(q, k) /\ Has(proc[q], k) /\ Away(proc[q])
<1>1. proc'[q] = proc[q]
  BY IdleHas DEF Deed, Died, Only
<1>2. Has(proc[q], k)
  BY <1>1
<1>3. Away(proc[q])
  BY <1>2, InsideHas DEF ProcInv
<1>4. DOMAIN proc[q] = Fields
  BY <1>3 DEF Away
<1> QED BY <1>1, <1>2, <1>3, <1>4, SameAlike

-----------------------------------------------------------------------------
(* Niches *)

NicheRow == [org : Nat, day : Nat, alive : BOOLEAN]
NicheOf(o, d) == {i \in DOMAIN niches : niches[i].alive /\ niches[i].org = o /\ niches[i].day = d}
(* The transaction has looked for the day; the rows it is to clear.        *)
Past(q) == "commit" \in Ahead(q) /\ "begin" \notin Ahead(q) /\ "mark day" \notin Ahead(q)
ToClear(q) == IF "lock day" \in Ahead(q) THEN proc[q].marks \cup proc[q].locks ELSE proc[q].locks
(* Hardly a niche has the day but those it clears, and its own.            *)
Few(q) == \A o \in Nat : Unscoped(q) \/ o = proc[q].org =>
  Cardinality(NicheOf(o, proc[q].who) \ (ToClear(q) \cup {proc[q].id})) <= raced
Locked(q) == \A m \in proc[q].locks :
  /\ m \in DOMAIN niches /\ Sees(q, niches[m]) /\ niches[m].alive
  /\ m # proc[q].id => niches[m].day = proc[q].who /\ proc[q].who # 0
Marked(q) == \A m \in proc[q].marks : m \in DOMAIN niches /\ Sees(q, niches[m]) /\ m # proc[q].id
NicheOK(q) ==
  /\ proc[q].op \in {"niche", "legacy"} /\ (proc[q].by = 0 \/ proc[q].by \in DOMAIN sessions) /\ proc[q].org \in Nat
  /\ proc[q].who \in NicheDays /\ (proc[q].id = 0 \/ proc[q].id \in DOMAIN niches)
  /\ "find niche" \notin Ahead(q) /\ proc[q].id # 0 => Sees(q, niches[proc[q].id])
  /\ "write" \in Ahead(q) \/ "delete niche" \in Ahead(q) \/ "find niche" \in Ahead(q) => proc[q].id # 0
  /\ "commit" \in Ahead(q) /\ "begin" \in Ahead(q) /\ proc[q].who # 0 => "mark day" \in Ahead(q)
  /\ ("mark day" \in Ahead(q) => "lock day" \in Ahead(q)) /\ ("lock day" \in Ahead(q) => proc[q].who # 0)
  /\ "commit" \in Ahead(q) /\ proc[q].id # 0 /\ "write" \notin Ahead(q) => proc[q].id \in proc[q].locks
  /\ "commit" \in Ahead(q) => Locked(q)
  /\ "lock day" \in Ahead(q) /\ "mark day" \notin Ahead(q) => Marked(q)
  /\ Past(q) /\ proc[q].who # 0 => Few(q)
Disjoint == \A p, q \in Handlers :
  p # q /\ "commit" \in Ahead(p) /\ "commit" \in Ahead(q) => proc[p].locks \cap proc[q].locks = {}
FewADay == \A o \in Nat, d \in Days : Cardinality(NicheOf(o, d)) <= 1 + raced
NicheSafe ==
  /\ niches \in Seq(NicheRow) /\ raced \in Nat
  /\ \A q \in Handlers : Has(proc[q], "niche") => NicheOK(q)
  /\ Disjoint /\ FewADay

LEMMA NicheAt == niches \in Seq(NicheRow) => \A i \in DOMAIN niches : niches[i] \in NicheRow
  BY SeqAt
LEMMA SeesIs ==
  ASSUME NEW q, proc'[q].by = proc[q].by, proc'[q].op = proc[q].op, proc'[q].org = proc[q].org,
         proc[q].by = 0 \/ proc[q].by \in DOMAIN sessions, SessionsStay
  PROVE  (Unscoped(q)' <=> Unscoped(q)) /\ \A m : niches'[m].org = niches[m].org => (Sees(q, niches[m])' <=> Sees(q, niches[m]))
  BY DEF Unscoped, Sees, SessionsStay
LEMMA CardSub == ASSUME NEW A, NEW B, A \subseteq B, IsFiniteSet(B) PROVE IsFiniteSet(A) /\ Cardinality(A) <= Cardinality(B) /\ Cardinality(A) \in Nat
  BY FS_Subset, FS_CardinalityType
LEMMA CardMore == ASSUME NEW A, NEW B, NEW x, A \subseteq B \cup {x}, IsFiniteSet(B) PROVE IsFiniteSet(A) /\ Cardinality(A) \in Nat /\ Cardinality(A) <= Cardinality(B) + 1
<1>1. IsFiniteSet(B \cup {x}) /\ Cardinality(B \cup {x}) <= Cardinality(B) + 1
  <2>1. IsFiniteSet(B \cup {x}) /\ (Cardinality(B \cup {x}) = Cardinality(B) \/ Cardinality(B \cup {x}) = Cardinality(B) + 1)
    BY FS_AddElement
  <2>2. Cardinality(B) \in Nat
    BY FS_CardinalityType
  <2> QED BY <2>1, <2>2
<1>2. Cardinality(B) \in Nat /\ Cardinality(B \cup {x}) \in Nat
  BY <1>1, FS_CardinalityType
<1>3. IsFiniteSet(A) /\ Cardinality(A) <= Cardinality(B \cup {x}) /\ Cardinality(A) \in Nat
  BY <1>1, CardSub
<1> QED BY <1>1, <1>2, <1>3
LEMMA NicheFinite == ASSUME niches \in Seq(NicheRow) PROVE \A A : A \subseteq DOMAIN niches => IsFiniteSet(A)
<1>1. IsFiniteSet(DOMAIN niches)
  BY FS_Interval
<1> QED BY <1>1, FS_Subset

(* The request is as it was, and so are the niches.                        *)
LEMMA FewSame ==
  ASSUME NEW q, Few(q), Unscoped(q)' <=> Unscoped(q), proc'[q].org = proc[q].org, proc'[q].who = proc[q].who,
         proc'[q].id = proc[q].id, ToClear(q)' = ToClear(q), niches' = niches, raced' = raced
  PROVE  Few(q)'
<1>1. \A o : NicheOf(o, proc[q].who)' = NicheOf(o, proc[q].who)
  BY DEF NicheOf
<1> QED BY <1>1 DEF Few
LEMMA NicheSame ==
  ASSUME NEW q, NicheOK(q), SessionsStay, Intact(q, "niche"), niches' = niches, raced' = raced
  PROVE  NicheOK(q)'
<1>1. /\ proc'[q].op = proc[q].op /\ proc'[q].by = proc[q].by /\ proc'[q].org = proc[q].org /\ proc'[q].who = proc[q].who
      /\ proc'[q].id = proc[q].id /\ proc'[q].marks = proc[q].marks /\ proc'[q].locks = proc[q].locks
  BY AllFields DEF Intact
<1>2. \A w \in NicheClan : w \in Ahead(q)' <=> w \in Ahead(q)
  BY NicheKind DEF Intact
<1>3. (Unscoped(q)' <=> Unscoped(q)) /\ \A m : Sees(q, niches[m])' <=> Sees(q, niches[m])
  BY <1>1, SeesIs DEF NicheOK
<1>4. ToClear(q)' = ToClear(q) /\ (Past(q)' <=> Past(q))
  BY <1>1, <1>2, NicheIn DEF ToClear, Past
<1>5. Few(q) => Few(q)'
  BY <1>1, <1>3, <1>4, FewSame
<1>6. Locked(q) => Locked(q)'
  BY <1>1, <1>3 DEF Locked
<1>7. Marked(q) => Marked(q)'
  BY <1>1, <1>3 DEF Marked
<1>8. proc'[q].by = 0 \/ proc'[q].by \in DOMAIN sessions'
  BY <1>1 DEF NicheOK, SessionsStay
<1>9. /\ proc'[q].op \in {"niche", "legacy"} /\ proc'[q].org \in Nat /\ proc'[q].who \in NicheDays /\ (proc'[q].id = 0 \/ proc'[q].id \in DOMAIN niches')
      /\ "find niche" \notin Ahead(q)' /\ proc'[q].id # 0 => Sees(q, niches[proc[q].id])'
  BY <1>1, <1>2, <1>3, NicheIn DEF NicheOK
<1>10. /\ "write" \in Ahead(q)' \/ "delete niche" \in Ahead(q)' \/ "find niche" \in Ahead(q)' => proc'[q].id # 0
       /\ "commit" \in Ahead(q)' /\ "begin" \in Ahead(q)' /\ proc'[q].who # 0 => "mark day" \in Ahead(q)'
       /\ "commit" \in Ahead(q)' /\ proc'[q].id # 0 /\ "write" \notin Ahead(q)' => proc'[q].id \in proc'[q].locks
       /\ ("mark day" \in Ahead(q)' => "lock day" \in Ahead(q)') /\ ("lock day" \in Ahead(q)' => proc'[q].who # 0)
  BY <1>1, <1>2, NicheIn DEF NicheOK
<1>11. /\ "commit" \in Ahead(q)' => Locked(q)'
       /\ "lock day" \in Ahead(q)' /\ "mark day" \notin Ahead(q)' => Marked(q)'
       /\ Past(q)' /\ proc'[q].who # 0 => Few(q)'
  BY <1>1, <1>2, <1>4, <1>5, <1>6, <1>7, NicheIn DEF NicheOK
<1> QED BY <1>1, <1>8, <1>9, <1>10, <1>11 DEF NicheOK
LEMMA TableSame ==
  ASSUME niches' = niches, raced' = raced
  PROVE  (FewADay => FewADay') /\ (niches \in Seq(NicheRow) /\ raced \in Nat => niches' \in Seq(NicheRow) /\ raced' \in Nat)
<1>1. \A o, d : NicheOf(o, d)' = NicheOf(o, d)
  BY DEF NicheOf
<1> QED BY <1>1 DEF FewADay

(* A step of p that writes no niche.                                       *)
Clear(p) == \A q \in Handlers \ {p} : "commit" \in Ahead(q) => proc'[p].locks \cap proc[q].locks = {}
NicheGo(p) ==
  /\ Deed(p, "niche") /\ sessions' = sessions /\ niches' = niches /\ raced' = raced
  /\ Has(proc'[p], "niche") => NicheOK(p)' /\ ("commit" \in Ahead(p)' => Clear(p))
LEMMA CommitHas == \A q : ("commit" \in Ahead(q) => Has(proc[q], "niche")) /\ ("commit" \in Ahead(q)' => Has(proc'[q], "niche"))
  BY NicheIn, NicheKind DEF Ahead, Has
LEMMA DisjointNext ==
  ASSUME ProcInv, Disjoint, NEW p \in Handlers, Deed(p, "niche"), "commit" \in Ahead(p)' => Clear(p)
  PROVE  Disjoint'
<1> SUFFICES ASSUME NEW a \in Handlers, NEW b \in Handlers, a # b, "commit" \in Ahead(a)', "commit" \in Ahead(b)'
             PROVE  proc'[a].locks \cap proc'[b].locks = {}
  BY DEF Disjoint
<1>1. \A q \in Handlers \ {p} : "commit" \in Ahead(q)' => proc'[q] = proc[q] /\ "commit" \in Ahead(q)
  <2> SUFFICES ASSUME NEW q \in Handlers \ {p}, "commit" \in Ahead(q)' PROVE proc'[q] = proc[q] /\ "commit" \in Ahead(q)
    OBVIOUS
  <2>1. proc'[q] = proc[q]
    BY CommitHas, DeedAlike, NicheIs
  <2> QED BY <2>1 DEF Ahead
<1>2. CASE a # p /\ b # p
  BY <1>1, <1>2 DEF Disjoint
<1>3. CASE a = p
  <2>1. proc'[b] = proc[b] /\ "commit" \in Ahead(b) /\ b \in Handlers \ {p}
    BY <1>1, <1>3
  <2> QED BY <1>3, <2>1 DEF Clear
<1>4. CASE b = p
  <2>1. proc'[a] = proc[a] /\ "commit" \in Ahead(a) /\ a \in Handlers \ {p}
    BY <1>1, <1>4
  <2> QED BY <1>4, <2>1 DEF Clear
<1> QED BY <1>2, <1>3, <1>4
LEMMA NicheGoes ==
  ASSUME ProcInv, NicheSafe, NEW p \in Handlers, NicheGo(p)
  PROVE  NicheSafe'
<1>1. SessionsStay
  BY DEF NicheGo, SessionsStay
<1>2. ASSUME NEW q \in Handlers, Has(proc'[q], "niche") PROVE NicheOK(q)'
  <2>1. CASE q = p
    BY <1>2, <2>1 DEF NicheGo
  <2>2. CASE q # p
    <3>1. Intact(q, "niche") /\ Has(proc[q], "niche")
      BY <1>2, <2>2, DeedAlike, NicheIs DEF NicheGo
    <3> QED BY <1>1, <3>1, NicheSame DEF NicheGo, NicheSafe
  <2> QED BY <2>1, <2>2
<1>3. Disjoint'
  BY CommitHas, DisjointNext DEF NicheGo, NicheSafe
<1> QED BY <1>2, <1>3, TableSame DEF NicheSafe, NicheGo

LEMMA NicheAtKind ==
  ASSUME ProcInv, FlowInv, NicheSafe, NEW p \in Handlers, NEW s \in NicheClan, At(p, s)
  PROVE  /\ Away(proc[p]) /\ s \in Ahead(p) /\ s \in OtherWords /\ Kind(s) = "niche" /\ Has(proc[p], "niche") /\ NicheOK(p)
         /\ "niche" \in Kinds
<1>1. s \in OtherWords /\ Kind(s) = "niche" /\ "niche" \in Kinds
  BY NicheKind, NicheKin, NicheIs
<1>2. Away(proc[p]) /\ s \in Words(proc[p].todo)
  BY <1>1, AtKind
<1>3. Has(proc[p], "niche")
  BY <1>1, <1>2 DEF Has
<1> QED BY <1>1, <1>2, <1>3 DEF NicheSafe, Ahead
LEMMA NicheGone ==
  ASSUME NEW p, Deed(p, "niche"), sessions' = sessions, niches' = niches, raced' = raced, proc'[p] = Idle
  PROVE  NicheGo(p)
  BY NothingAhead, NicheIs DEF NicheGo
LEMMA ThrownGone ==
  ASSUME ProcInv, NEW p \in Handlers, proc' = Ended(p) \/ proc' = Thrown(p)
  PROVE  proc'[p] = Idle
  BY DEF ProcInv, Ended, Thrown, Died

(* It asks.                                                                *)
LEMMA AskedNiche ==
  ASSUME Core, NicheSafe, NEW p \in Handlers, CreateNiche(p) \/ UpdateNiche(p) \/ DeleteNiche(p)
  PROVE  NicheGo(p)
<1>1. 0 \in NicheDays /\ ProcInv /\ sessions \in Seq(TokenRow)
  BY DEF NicheDays, Core, RefInv, RowInv
<1>2. \E i, d, words :
         /\ Deed(p, "niche") /\ UNCHANGED <<accounts, tenancy>> /\ NewEdit(p, "niche", i, d, words)
         /\ d \in NicheDays /\ (i = 0 \/ i \in DOMAIN niches)
         /\ \/ words = {"begin"} \cup ClearingWords(d) \cup {"commit"} /\ i = 0
            \/ words = {"find niche", "begin"} \cup ClearingWords(d) \cup {"write", "commit"} /\ i \in DOMAIN niches
            \/ words = {"find niche", "delete niche"} /\ i \in DOMAIN niches
  BY <1>1, NewNiche, Zenon
<1>3. PICK i, d, words :
         /\ Deed(p, "niche") /\ UNCHANGED <<accounts, tenancy>> /\ NewEdit(p, "niche", i, d, words)
         /\ d \in NicheDays /\ (i = 0 \/ i \in DOMAIN niches)
         /\ \/ words = {"begin"} \cup ClearingWords(d) \cup {"commit"} /\ i = 0
            \/ words = {"find niche", "begin"} \cup ClearingWords(d) \cup {"write", "commit"} /\ i \in DOMAIN niches
            \/ words = {"find niche", "delete niche"} /\ i \in DOMAIN niches
  BY <1>2
<1>4. /\ niches' = niches /\ raced' = raced /\ sessions' = sessions
      /\ proc'[p].op \in {"niche", "legacy"} /\ proc'[p].by \in Tokens /\ proc'[p].id = i /\ proc'[p].who = d
      /\ proc'[p].marks = {} /\ proc'[p].locks = {} /\ proc'[p].org = OrgOf(proc'[p].by)
  BY <1>3 DEF NewEdit, tenancy, accounts
<1>11. proc'[p].by = 0 \/ proc'[p].by \in DOMAIN sessions'
  BY <1>4 DEF Tokens
<1>10. proc'[p].org \in Nat
  <2>1. CASE proc'[p].by = 0
    BY <1>4, <2>1 DEF OrgOf
  <2>2. CASE proc'[p].by # 0
    <3>1. sessions[proc'[p].by] \in TokenRow
      BY <1>1, <1>4, <1>11, <2>2, SeqAt
    <3> QED BY <1>4, <2>2, <3>1 DEF TokenRow, OrgOf
  <2> QED BY <2>1, <2>2
<1>5. \A w \in NicheClan : w \in Ahead(p)' <=> w \in words
  <2>1. \A w \in NicheClan : w \notin Doors
    BY NicheKind, DoorKind, NoDoor, NicheIs
  <2> QED BY <1>3, <2>1 DEF NewEdit, Ahead
<1>6. 0 \notin DOMAIN niches
  BY DEF NicheSafe
<1>7. /\ "find niche" \notin Ahead(p)' => i = 0
      /\ "write" \in Ahead(p)' \/ "delete niche" \in Ahead(p)' \/ "find niche" \in Ahead(p)' => i # 0
      /\ "commit" \in Ahead(p)' => "begin" \in Ahead(p)' /\ (d # 0 => "mark day" \in Ahead(p)')
      /\ "commit" \in Ahead(p)' /\ i # 0 => "write" \in Ahead(p)'
      /\ ("mark day" \in Ahead(p)' => "lock day" \in Ahead(p)') /\ ("lock day" \in Ahead(p)' => d # 0)
  BY <1>3, <1>5, <1>6, NicheIn DEF ClearingWords
<1>8. Locked(p)' /\ Marked(p)' /\ ~Past(p)'
  BY <1>4, <1>7 DEF Locked, Marked, Past
<1>9. NicheOK(p)'
  BY <1>3, <1>4, <1>7, <1>8, <1>10, <1>11 DEF NicheOK
<1> QED BY <1>3, <1>4, <1>9 DEF NicheGo, Clear

(* It finds the niche, and begins.                                         *)
LEMMA NicheNoMore ==
  /\ \A w : Comes("find niche", w) => w # "find niche"
  /\ \A w : Comes("begin", w) => w \notin {"begin", "find niche"}
  /\ \A w : Comes("mark day", w) => w \notin {"mark day", "begin", "find niche"}
  /\ \A w : Comes("lock day", w) => w \notin {"lock day", "mark day", "begin", "find niche", "delete niche"}
  /\ \A w : Comes("write", w) => w = "commit"
  /\ \A w : ~Comes("commit", w) /\ ~Comes("delete niche", w)
<1>1. \A w : Comes("find niche", w) => w # "find niche"
  BY DEF Comes
<1>2. \A w : Comes("begin", w) => w \notin {"begin", "find niche"}
  BY DEF Comes
<1>3. \A w : Comes("mark day", w) => w \notin {"mark day", "begin", "find niche"}
  BY DEF Comes
<1>4. \A w : Comes("lock day", w) => w \notin {"lock day", "mark day", "begin", "find niche", "delete niche"}
  BY DEF Comes
<1>5. (\A w : Comes("write", w) => w = "commit") /\ \A w : ~Comes("commit", w) /\ ~Comes("delete niche", w)
  BY DEF Comes
<1> QED BY <1>1, <1>2, <1>3, <1>4, <1>5
LEMMA NicheFields ==
  ASSUME NEW p, NEW fs, Alters(p, fs), "op" \notin fs, "by" \notin fs, "org" \notin fs, "who" \notin fs, "id" \notin fs
  PROVE  /\ proc'[p].op = proc[p].op /\ proc'[p].by = proc[p].by /\ proc'[p].org = proc[p].org
         /\ proc'[p].who = proc[p].who /\ proc'[p].id = proc[p].id
  BY AllFields DEF Alters
LEMMA NicheSees ==
  ASSUME NEW p, NicheOK(p), proc'[p].op = proc[p].op, proc'[p].by = proc[p].by, proc'[p].org = proc[p].org,
         sessions' = sessions, niches' = niches
  PROVE  (Unscoped(p)' <=> Unscoped(p)) /\ \A m : Sees(p, niches[m])' <=> Sees(p, niches[m])
<1>1. SessionsStay
  BY DEF SessionsStay
<1> QED BY <1>1, SeesIs DEF NicheOK

LEMMA FindNicheGo ==
  ASSUME ProcInv, FlowInv, NicheSafe, NEW p \in Handlers, FindNiche(p)
  PROVE  NicheGo(p)
<1>1. At(p, "find niche") /\ sessions' = sessions /\ niches' = niches /\ raced' = raced
  BY DEF FindNiche, accounts, tenancy
<1>2. NicheOK(p) /\ "find niche" \in Ahead(p) /\ "find niche" \in OtherWords /\ Kind("find niche") = "niche" /\ "niche" \in Kinds
  BY <1>1, NicheAtKind, NicheIn
<1>3. CASE proc' = Ended(p)
  BY <1>1, <1>2, <1>3, GoneMove, ThrownGone, NicheGone
<1>4. CASE proc' = Advance(p) /\ Sees(p, niches[proc[p].id])
  <2>1. Deed(p, "niche") /\ (proc'[p] = Idle \/ (Alters(p, {"todo"}) /\ Passes(p, "find niche")))
    BY <1>1, <1>2, <1>4, TurnMove
  <2>2. ASSUME Alters(p, {"todo"}), Passes(p, "find niche") PROVE NicheOK(p)' /\ ("commit" \in Ahead(p)' => Clear(p))
    <3>1. /\ proc'[p].op = proc[p].op /\ proc'[p].by = proc[p].by /\ proc'[p].org = proc[p].org
          /\ proc'[p].who = proc[p].who /\ proc'[p].id = proc[p].id
      BY <2>2, NicheFields
    <3>2. proc'[p].marks = proc[p].marks /\ proc'[p].locks = proc[p].locks
      BY <2>2, AllFields DEF Alters
    <3>3. \A w : w # "find niche" => (w \in Ahead(p)' <=> w \in Ahead(p))
      BY <2>2 DEF Passes
    <3>4. (Unscoped(p)' <=> Unscoped(p)) /\ \A m : Sees(p, niches[m])' <=> Sees(p, niches[m])
      BY <1>1, <1>2, <3>1, NicheSees
    <3>5. ToClear(p)' = ToClear(p) /\ (Past(p)' <=> Past(p))
      BY <3>2, <3>3 DEF ToClear, Past
    <3>6. (Few(p) => Few(p)') /\ (Locked(p) => Locked(p)') /\ (Marked(p) => Marked(p)')
      BY <1>1, <3>1, <3>2, <3>4, <3>5, FewSame DEF Locked, Marked
    <3>7. Sees(p, niches[proc[p].id])'
      BY <1>1, <1>4, <3>1, <3>4 DEF Sees
    <3>8. /\ "commit" \in Ahead(p)' => Locked(p)'
          /\ "lock day" \in Ahead(p)' /\ "mark day" \notin Ahead(p)' => Marked(p)'
          /\ Past(p)' /\ proc'[p].who # 0 => Few(p)'
      BY <1>2, <3>1, <3>3, <3>5, <3>6 DEF NicheOK
    <3>9. NicheOK(p)'
      BY <1>1, <1>2, <3>1, <3>2, <3>3, <3>7, <3>8 DEF NicheOK
    <3>10. "commit" \in Ahead(p)' => Clear(p)
      BY <3>2, <3>3 DEF Clear, NicheSafe, Disjoint
    <3> QED BY <3>9, <3>10
  <2> QED BY <1>1, <1>2, <2>1, <2>2, NothingAhead DEF NicheGo
<1> QED BY <1>3, <1>4 DEF FindNiche

LEMMA BeginGo ==
  ASSUME ProcInv, FlowInv, NicheSafe, NEW p \in Handlers, BeginTransaction(p)
  PROVE  NicheGo(p)
<1>1. At(p, "begin") /\ sessions' = sessions /\ niches' = niches /\ raced' = raced /\ proc' = Advance(p)
  BY DEF BeginTransaction, accounts, tenancy
<1>2. NicheOK(p) /\ "begin" \in Ahead(p) /\ "begin" \in OtherWords /\ Kind("begin") = "niche" /\ "niche" \in Kinds
  BY <1>1, NicheAtKind, NicheIn
<1>3. Deed(p, "niche") /\ (proc'[p] = Idle \/ (Alters(p, {"todo"}) /\ Passes(p, "begin")))
  BY <1>1, <1>2, TurnMove
<1>4. ASSUME Alters(p, {"todo"}), Passes(p, "begin") PROVE NicheOK(p)' /\ ("commit" \in Ahead(p)' => Clear(p))
  <2>1. /\ proc'[p].op = proc[p].op /\ proc'[p].by = proc[p].by /\ proc'[p].org = proc[p].org
        /\ proc'[p].who = proc[p].who /\ proc'[p].id = proc[p].id
    BY <1>4, NicheFields
  <2>2. proc'[p].marks = proc[p].marks /\ proc'[p].locks = proc[p].locks
    BY <1>4, AllFields DEF Alters
  <2>3. /\ \A w : w # "begin" => (w \in Ahead(p)' <=> w \in Ahead(p))
        /\ "find niche" \notin Ahead(p)' /\ "begin" \notin Ahead(p)'
    BY <1>4, NicheNoMore DEF Passes
  <2>4. (Unscoped(p)' <=> Unscoped(p)) /\ \A m : Sees(p, niches[m])' <=> Sees(p, niches[m])
    BY <1>1, <1>2, <2>1, NicheSees
  <2>5. Past(p)' => proc[p].who = 0
    BY <1>2, <2>3 DEF Past, NicheOK
  <2>6. (Locked(p) => Locked(p)') /\ (Marked(p) => Marked(p)')
    BY <1>1, <2>1, <2>2, <2>4 DEF Locked, Marked
  <2>7. proc'[p].id # 0 => Sees(p, niches[proc[p].id])'
    BY <1>2, <2>1, <2>3, <2>4 DEF NicheOK
  <2>8. /\ "commit" \in Ahead(p)' => Locked(p)'
        /\ "lock day" \in Ahead(p)' /\ "mark day" \notin Ahead(p)' => Marked(p)'
        /\ Past(p)' /\ proc'[p].who # 0 => Few(p)'
    BY <1>2, <2>1, <2>3, <2>5, <2>6 DEF NicheOK
  <2>9. NicheOK(p)'
    BY <1>1, <1>2, <2>1, <2>2, <2>3, <2>7, <2>8 DEF NicheOK
  <2>10. "commit" \in Ahead(p)' => Clear(p)
    BY <2>2, <2>3 DEF Clear, NicheSafe, Disjoint
  <2> QED BY <2>9, <2>10
<1> QED BY <1>1, <1>2, <1>3, <1>4, NothingAhead DEF NicheGo

(* It looks for the day, and waits for the rows that have it.              *)
LEMMA MarkDayGo ==
  ASSUME ProcInv, FlowInv, NicheSafe, NEW p \in Handlers, MarkDay(p)
  PROVE  NicheGo(p)
<1> DEFINE rows == {i \in OnDay(p) : Sees(p, niches[i]) /\ i # proc[p].id}
           t == Tail(proc[p].todo)
<1>1. /\ At(p, "mark day") /\ sessions' = sessions /\ niches' = niches /\ raced' = raced
      /\ proc' = [proc EXCEPT ![p].todo = Tail(@), ![p].marks = rows]
  BY DEF MarkDay, MarkedDay, accounts, tenancy
<1>2. /\ NicheOK(p) /\ "mark day" \in Ahead(p) /\ "mark day" \in OtherWords /\ Kind("mark day") = "niche" /\ "niche" \in Kinds
      /\ Away(proc[p])
  BY <1>1, NicheAtKind, NicheIn
<1>3. proc' = [proc EXCEPT ![p].todo = t, ![p].marks = rows]
  BY <1>1 DEF ProcInv
<1>4. Alters(p, {"todo", "marks"}) /\ proc'[p].todo = t /\ proc'[p].marks = rows
  <2> HIDE DEF t, rows
  <2> QED BY <1>2, <1>3, SetMarks
<1>5. Passes(p, "mark day") /\ Deed(p, "niche")
  BY <1>1, <1>2, <1>4, Tailed, AltersMove
<1>6. /\ proc'[p].op = proc[p].op /\ proc'[p].by = proc[p].by /\ proc'[p].org = proc[p].org
      /\ proc'[p].who = proc[p].who /\ proc'[p].id = proc[p].id
  BY <1>4, NicheFields
<1>7. proc'[p].locks = proc[p].locks
  BY <1>4, AllFields DEF Alters
<1>8. /\ \A w : w # "mark day" => (w \in Ahead(p)' <=> w \in Ahead(p))
      /\ "find niche" \notin Ahead(p)' /\ "begin" \notin Ahead(p)' /\ "mark day" \notin Ahead(p)'
  BY <1>5, NicheNoMore DEF Passes
<1>9. (Unscoped(p)' <=> Unscoped(p)) /\ \A m : Sees(p, niches[m])' <=> Sees(p, niches[m])
  BY <1>1, <1>2, <1>6, NicheSees
<1>10. Locked(p) => Locked(p)'
  BY <1>1, <1>6, <1>7, <1>9 DEF Locked
<1>11. Marked(p)'
  BY <1>1, <1>4, <1>6, <1>9 DEF Marked, OnDay
<1>12. Few(p)'
  <2> SUFFICES ASSUME NEW o \in Nat, Unscoped(p) \/ o = proc[p].org
               PROVE  Cardinality(NicheOf(o, proc[p].who)' \ (ToClear(p)' \cup {proc[p].id})) <= raced
    BY <1>1, <1>6, <1>9 DEF Few
  <2>1. "lock day" \in Ahead(p)'
    BY <1>2, <1>8 DEF NicheOK
  <2>2. rows \subseteq ToClear(p)'
    BY <1>4, <2>1 DEF ToClear
  <2>3. NicheOf(o, proc[p].who)' = NicheOf(o, proc[p].who)
    BY <1>1, <1>6 DEF NicheOf
  <2>4. \A i \in NicheOf(o, proc[p].who) : i = proc[p].id \/ i \in rows
    BY DEF NicheOf, OnDay, Sees
  <2>5. NicheOf(o, proc[p].who)' \ (ToClear(p)' \cup {proc[p].id}) = {}
    BY <2>2, <2>3, <2>4
  <2>6. Cardinality({}) = 0 /\ raced \in Nat
    BY FS_EmptySet DEF NicheSafe
  <2> QED BY <2>5, <2>6
<1>13. proc'[p].id # 0 => Sees(p, niches[proc[p].id])'
  BY <1>2, <1>6, <1>8, <1>9 DEF NicheOK
<1>14. "commit" \in Ahead(p)' => Locked(p)'
  BY <1>2, <1>8, <1>10 DEF NicheOK
<1>15. NicheOK(p)'
  BY <1>1, <1>2, <1>6, <1>7, <1>8, <1>11, <1>12, <1>13, <1>14 DEF NicheOK
<1>16. "commit" \in Ahead(p)' => Clear(p)
  BY <1>7, <1>8 DEF Clear, NicheSafe, Disjoint
<1> QED BY <1>1, <1>5, <1>15, <1>16 DEF NicheGo

LEMMA NotHeld ==
  ASSUME ProcInv, NicheSafe, NEW p \in Handlers, NEW rows, ~Held(p, rows)
  PROVE  \A q \in Handlers \ {p} : "commit" \in Ahead(q) => proc[q].locks \cap rows = {}
<1> SUFFICES ASSUME NEW q \in Handlers \ {p}, "commit" \in Ahead(q) PROVE proc[q].locks \cap rows = {}
  OBVIOUS
<1>1. q \in Others(p) /\ Awaits(q, "commit")
  BY BusyIs, AwaitsIs DEF Others
<1>2. Transaction(q)
  BY <1>1, CommitHas DEF Transaction, NicheSafe, NicheOK
<1> QED BY <1>1, <1>2 DEF Held

LEMMA LockDayGo ==
  ASSUME ProcInv, FlowInv, NicheSafe, NEW p \in Handlers, LockDay(p)
  PROVE  NicheGo(p)
<1> DEFINE rows == proc[p].locks \cup (proc[p].marks \cap OnDay(p))
           t == Tail(proc[p].todo)
<1>1. /\ At(p, "lock day") /\ sessions' = sessions /\ niches' = niches /\ raced' = raced /\ ~Held(p, proc[p].marks)
      /\ proc' = [proc EXCEPT ![p].todo = Tail(@), ![p].marks = {}, ![p].locks = @ \cup (proc[p].marks \cap OnDay(p))]
  BY DEF LockDay, accounts, tenancy
<1>2. /\ NicheOK(p) /\ "lock day" \in Ahead(p) /\ "lock day" \in OtherWords /\ Kind("lock day") = "niche" /\ "niche" \in Kinds
      /\ Away(proc[p])
  BY <1>1, NicheAtKind, NicheIn
<1>3. proc' = [proc EXCEPT ![p].todo = t, ![p].marks = {}, ![p].locks = rows]
  BY <1>1 DEF ProcInv
<1>4. Alters(p, {"todo", "marks", "locks"}) /\ proc'[p].todo = t /\ proc'[p].marks = {} /\ proc'[p].locks = rows
  <2> DEFINE none == {}
  <2>1. proc' = [proc EXCEPT ![p].todo = t, ![p].marks = none, ![p].locks = rows]
    BY <1>3
  <2> HIDE DEF t, rows, none
  <2>2. \A x, y, z : proc' = [proc EXCEPT ![p].todo = x, ![p].marks = y, ![p].locks = z] =>
          Alters(p, {"todo", "marks", "locks"}) /\ proc'[p].todo = x /\ proc'[p].marks = y /\ proc'[p].locks = z
    BY <1>2, SetMarksLocks
  <2>3. Alters(p, {"todo", "marks", "locks"}) /\ proc'[p].todo = t /\ proc'[p].marks = none /\ proc'[p].locks = rows
    BY <2>1, <2>2, Zenon
  <2> QED BY <2>3 DEF none
<1>5. Passes(p, "lock day") /\ Deed(p, "niche")
  BY <1>1, <1>2, <1>4, Tailed, AltersMove
<1>6. /\ proc'[p].op = proc[p].op /\ proc'[p].by = proc[p].by /\ proc'[p].org = proc[p].org
      /\ proc'[p].who = proc[p].who /\ proc'[p].id = proc[p].id
  BY <1>4, NicheFields
<1>7. proc[p].who # 0 /\ (Past(p) => Few(p)) /\ ("mark day" \notin Ahead(p) => Marked(p))
  BY <1>2 DEF NicheOK
<1>8. /\ \A w : w # "lock day" => (w \in Ahead(p)' <=> w \in Ahead(p))
      /\ "find niche" \notin Ahead(p)' /\ "begin" \notin Ahead(p)' /\ "mark day" \notin Ahead(p)' /\ "lock day" \notin Ahead(p)'
  BY <1>5, NicheNoMore DEF Passes
<1>9. (Unscoped(p)' <=> Unscoped(p)) /\ \A m : Sees(p, niches[m])' <=> Sees(p, niches[m])
  BY <1>1, <1>2, <1>6, NicheSees
<1>10. Marked(p)
  BY <1>7, <1>8
<1>11. Locked(p) => Locked(p)'
  BY <1>1, <1>4, <1>6, <1>7, <1>9, <1>10 DEF Locked, Marked, OnDay
<1>12. Past(p)' => Few(p)'
  <2> SUFFICES ASSUME Past(p)', NEW o \in Nat, Unscoped(p) \/ o = proc[p].org
               PROVE  Cardinality(NicheOf(o, proc[p].who)' \ (ToClear(p)' \cup {proc[p].id})) <= raced
    BY <1>1, <1>6, <1>9 DEF Few
  <2>1. Past(p)
    BY <1>8 DEF Past
  <2>2. NicheOf(o, proc[p].who)' = NicheOf(o, proc[p].who)
    BY <1>1, <1>6 DEF NicheOf
  <2>3. ToClear(p)' = rows /\ ToClear(p) = proc[p].marks \cup proc[p].locks
    BY <1>2, <1>4, <1>8 DEF ToClear
  <2>4. \A i \in NicheOf(o, proc[p].who) : i \in proc[p].marks => i \in rows
    BY DEF NicheOf, OnDay
  <2>5. Cardinality(NicheOf(o, proc[p].who) \ (ToClear(p) \cup {proc[p].id})) <= raced
    BY <1>7, <2>1 DEF Few
  <2> DEFINE A == NicheOf(o, proc[p].who)' \ (ToClear(p)' \cup {proc[p].id})
             B == NicheOf(o, proc[p].who) \ (ToClear(p) \cup {proc[p].id})
  <2>6. A \subseteq B
    BY <2>2, <2>3, <2>4
  <2>7. IsFiniteSet(B)
    BY NicheFinite DEF NicheSafe, NicheOf
  <2>8. Cardinality(A) <= Cardinality(B) /\ Cardinality(A) \in Nat /\ Cardinality(B) \in Nat
    BY <2>6, <2>7, CardSub, FS_CardinalityType
  <2>9. raced \in Nat
    BY DEF NicheSafe
  <2> QED BY <2>5, <2>8, <2>9
<1>13. proc'[p].id # 0 => Sees(p, niches[proc[p].id])'
  BY <1>2, <1>6, <1>8, <1>9 DEF NicheOK
<1>14. /\ "commit" \in Ahead(p)' => Locked(p)'
       /\ "commit" \in Ahead(p)' /\ proc'[p].id # 0 /\ "write" \notin Ahead(p)' => proc'[p].id \in proc'[p].locks
       /\ "write" \in Ahead(p)' \/ "delete niche" \in Ahead(p)' => proc'[p].id # 0
  BY <1>2, <1>4, <1>6, <1>8, <1>11 DEF NicheOK
<1>15. NicheOK(p)'
  BY <1>1, <1>2, <1>6, <1>8, <1>12, <1>13, <1>14 DEF NicheOK
<1>16. "commit" \in Ahead(p)' => Clear(p)
  <2>1. \A q \in Handlers \ {p} : "commit" \in Ahead(q) => proc[q].locks \cap proc[p].marks = {}
    BY <1>1, NotHeld
  <2> QED BY <1>4, <1>8, <2>1 DEF Clear, NicheSafe, Disjoint
<1> QED BY <1>1, <1>5, <1>15, <1>16 DEF NicheGo

(* It writes its own, once nobody else holds it.                           *)
LEMMA LastWord ==
  ASSUME ProcInv, FlowInv, NEW p \in Handlers, NEW s \in NicheClan, At(p, s)
  PROVE  \A w \in Ahead(p) : w = s \/ Comes(s, w)
<1>1. s \in OtherWords /\ Kind(s) = "niche" /\ "niche" \in Kinds
  BY NicheKind, NicheKin, NicheIs
<1>2. proc[p].todo \in Seq(Kin("niche")) /\ Ordered(proc[p].todo) /\ proc[p].todo # <<>> /\ Head(proc[p].todo) = s
  BY <1>1, AtKind DEF Clanned
<1> QED BY <1>2, OrderedTail DEF Ahead
LEMMA WriteNicheGo ==
  ASSUME ProcInv, FlowInv, NicheSafe, NEW p \in Handlers, WriteNiche(p)
  PROVE  NicheGo(p)
<1> DEFINE i == proc[p].id
           rows == proc[p].locks \cup {i}
           t == Tail(proc[p].todo)
<1>1. /\ At(p, "write") /\ sessions' = sessions /\ niches' = niches /\ raced' = raced /\ ~Held(p, {i})
      /\ \/ niches[i].alive /\ proc' = [proc EXCEPT ![p].todo = Tail(@), ![p].locks = @ \cup {i}]
         \/ proc' = Thrown(p)
  BY DEF WriteNiche, accounts, tenancy
<1>2. /\ NicheOK(p) /\ "write" \in Ahead(p) /\ "write" \in OtherWords /\ Kind("write") = "niche" /\ "niche" \in Kinds
      /\ Away(proc[p]) /\ "write" \in NicheClan
  BY <1>1, NicheAtKind, NicheIn
<1>3. CASE proc' = Thrown(p)
  BY <1>1, <1>2, <1>3, GoneMove, ThrownGone, NicheGone
<1>4. CASE niches[i].alive /\ proc' = [proc EXCEPT ![p].todo = Tail(@), ![p].locks = @ \cup {i}]
  <2>1. proc' = [proc EXCEPT ![p].todo = t, ![p].locks = rows]
    BY <1>4 DEF ProcInv
  <2>2. Alters(p, {"todo", "locks"}) /\ proc'[p].todo = t /\ proc'[p].locks = rows
    <3> HIDE DEF t, rows
    <3> QED BY <1>2, <2>1, SetLocks
  <2>3. Passes(p, "write") /\ Deed(p, "niche")
    BY <1>1, <1>2, <2>2, Tailed, AltersMove
  <2>4. /\ proc'[p].op = proc[p].op /\ proc'[p].by = proc[p].by /\ proc'[p].org = proc[p].org
        /\ proc'[p].who = proc[p].who /\ proc'[p].id = proc[p].id
    BY <2>2, NicheFields
  <2>5. (\A w \in Ahead(p)' : w = "commit") /\ \A w : w # "write" => (w \in Ahead(p)' <=> w \in Ahead(p))
    BY <2>3, NicheNoMore DEF Passes
  <2>6. "begin" \notin Ahead(p)' /\ "mark day" \notin Ahead(p)' /\ "lock day" \notin Ahead(p)' /\ "find niche" \notin Ahead(p)'
        /\ "write" \notin Ahead(p)' /\ "delete niche" \notin Ahead(p)'
    BY <2>5, NicheIn
  <2>7. (Unscoped(p)' <=> Unscoped(p)) /\ \A m : Sees(p, niches[m])' <=> Sees(p, niches[m])
    BY <1>1, <1>2, <2>4, NicheSees
  <2>8. i # 0 /\ i \in DOMAIN niches /\ Sees(p, niches[i])
    <3>1. i # 0 /\ i \in DOMAIN niches
      BY <1>2 DEF NicheOK
    <3>2. "find niche" \notin Ahead(p)
      BY <2>5, <2>6, NicheIn
    <3> QED BY <1>2, <3>1, <3>2 DEF NicheOK
  <2>9. Locked(p) => Locked(p)'
    BY <1>1, <1>4, <2>2, <2>4, <2>7, <2>8 DEF Locked
  <2>10. Past(p)' /\ proc[p].who # 0 => Few(p)'
    <3> SUFFICES ASSUME Past(p)', proc[p].who # 0, NEW o \in Nat, Unscoped(p) \/ o = proc[p].org
                 PROVE  Cardinality(NicheOf(o, proc[p].who)' \ (ToClear(p)' \cup {proc[p].id})) <= raced
      BY <1>1, <2>4, <2>7 DEF Few
    <3>1. "commit" \in Ahead(p) /\ "begin" \notin Ahead(p) /\ "mark day" \notin Ahead(p) /\ "lock day" \notin Ahead(p)
      BY <2>5, <2>6, NicheIn DEF Past
    <3>2. Few(p)
      BY <1>2, <3>1 DEF NicheOK, Past
    <3>3. ToClear(p)' = rows /\ ToClear(p) = proc[p].locks
      BY <2>2, <2>6, <3>1 DEF ToClear
    <3>4. NicheOf(o, proc[p].who)' = NicheOf(o, proc[p].who)
      BY <1>1, <2>4 DEF NicheOf
    <3>5. NicheOf(o, proc[p].who)' \ (ToClear(p)' \cup {proc[p].id}) = NicheOf(o, proc[p].who) \ (ToClear(p) \cup {proc[p].id})
      BY <3>3, <3>4
    <3> QED BY <3>2, <3>5 DEF Few
  <2>11. "commit" \in Ahead(p)' => Locked(p)'
    BY <1>2, <2>5, <2>9, NicheIn DEF NicheOK
  <2>12. NicheOK(p)'
    BY <1>1, <1>2, <2>2, <2>4, <2>6, <2>7, <2>8, <2>10, <2>11 DEF NicheOK
  <2>13. "commit" \in Ahead(p)' => Clear(p)
    <3>1. \A q \in Handlers \ {p} : "commit" \in Ahead(q) => proc[q].locks \cap {i} = {}
      BY <1>1, NotHeld
    <3>2. "commit" \in Ahead(p)' => "commit" \in Ahead(p)
      BY <2>5, NicheIn
    <3> QED BY <2>2, <3>1, <3>2 DEF Clear, NicheSafe, Disjoint
  <2> QED BY <1>1, <2>3, <2>12, <2>13 DEF NicheGo
<1> QED BY <1>1, <1>3, <1>4

LEMMA AbortGo ==
  ASSUME ProcInv, FlowInv, NicheSafe, NEW p \in Handlers, AbortOne(p)
  PROVE  NicheGo(p)
<1>1. /\ Wants(p) # {} /\ proc' = Thrown(p) /\ sessions' = sessions /\ niches' = niches /\ raced' = raced
  BY DEF AbortOne, Deadlocked, accounts, tenancy
<1>2. PICK s \in {"lock day", "write", "delete niche"} : At(p, s)
  BY <1>1 DEF Wants
<1>3. s \in NicheClan
  BY NicheIn
<1>4. s \in OtherWords /\ Kind(s) = "niche" /\ "niche" \in Kinds
  BY <1>2, <1>3, NicheAtKind
<1>5. Deed(p, "niche") /\ proc'[p] = Idle
  BY <1>1, <1>2, <1>4, GoneMove, ThrownGone
<1> QED BY <1>1, <1>5, NicheGone

(* It commits: its rows change, and nobody else holds them.                *)
LEMMA NicheShift ==
  ASSUME ProcInv, NicheSafe, NEW p \in Handlers, Deed(p, "niche"), sessions' = sessions, proc'[p] = Idle,
         niches' \in Seq(NicheRow), raced' \in Nat, DOMAIN niches \subseteq DOMAIN niches',
         \A j \in DOMAIN niches : niches'[j].org = niches[j].org,
         \A q \in Handlers \ {p} : "commit" \in Ahead(q) => \A m \in proc[q].locks : niches'[m] = niches[m],
         \A q \in Handlers \ {p} : NicheOK(q) /\ proc'[q] = proc[q] /\ Past(q) /\ proc[q].who # 0 => Few(q)',
         FewADay'
  PROVE  NicheSafe'
<1>1. SessionsStay
  BY DEF SessionsStay
<1>2. ASSUME NEW q \in Handlers, Has(proc'[q], "niche") PROVE NicheOK(q)'
  <2>1. q # p
    BY <1>2, NothingAhead, NicheIs
  <2>2. proc'[q] = proc[q] /\ Has(proc[q], "niche")
    BY <1>2, <2>1, DeedAlike, NicheIs
  <2>3. NicheOK(q) /\ Ahead(q)' = Ahead(q)
    BY <2>2 DEF NicheSafe, Ahead
  <2>4. (Unscoped(q)' <=> Unscoped(q)) /\ \A m \in DOMAIN niches : Sees(q, niches[m])' <=> Sees(q, niches[m])
    BY <1>1, <2>2, <2>3, SeesIs DEF NicheOK
  <2>5. ASSUME "commit" \in Ahead(q) PROVE Locked(q)'
    <3>1. Locked(q)
      BY <2>3, <2>5 DEF NicheOK
    <3>2. \A m \in proc[q].locks : niches'[m] = niches[m]
      BY <2>1, <2>5
    <3> SUFFICES ASSUME NEW m \in proc[q].locks
                 PROVE  /\ m \in DOMAIN niches' /\ Sees(q, niches[m])' /\ niches'[m].alive
                        /\ m # proc[q].id => niches'[m].day = proc[q].who /\ proc[q].who # 0
      BY <2>2 DEF Locked
    <3>3. m \in DOMAIN niches /\ Sees(q, niches[m]) /\ niches[m].alive
          /\ (m # proc[q].id => niches[m].day = proc[q].who /\ proc[q].who # 0)
      BY <3>1 DEF Locked
    <3> QED BY <2>4, <3>2, <3>3
  <2>6. Marked(q) => Marked(q)'
    BY <2>2, <2>4 DEF Marked
  <2>7. Past(q)' /\ proc'[q].who # 0 => Few(q)'
    BY <2>1, <2>2, <2>3 DEF Past
  <2>8. proc[q].id # 0 => (Sees(q, niches[proc[q].id])' <=> Sees(q, niches[proc[q].id]))
    BY <2>2, <2>3, <2>4 DEF NicheOK
  <2> QED BY <2>2, <2>3, <2>5, <2>6, <2>7, <2>8 DEF NicheOK
<1>3. Disjoint'
  <2>1. ~("commit" \in Ahead(p)')
    BY CommitHas, NothingAhead, NicheIs
  <2> QED BY <2>1, DisjointNext DEF NicheSafe
<1> QED BY <1>2, <1>3 DEF NicheSafe

LEMMA DaysCount == \A d \in NicheDays : d \in Nat
<1>1. \A d \in Days : d \in Nat
  BY TenancyAssumption
<1> QED BY <1>1 DEF NicheDays
LEMMA CommitRows ==
  ASSUME NEW p, niches \in Seq(NicheRow), NicheOK(p), "commit" \in Ahead(p), \A w \in Ahead(p) : w = "commit",
         Commit(p)
  PROVE  /\ niches' \in Seq(NicheRow) /\ DOMAIN niches \subseteq DOMAIN niches'
         /\ \A j \in DOMAIN niches : /\ niches'[j].org = niches[j].org /\ niches'[j].alive = niches[j].alive
                                     /\ j # proc[p].id /\ j \in proc[p].locks => niches'[j].day = 0
                                     /\ j # proc[p].id /\ j \notin proc[p].locks => niches'[j] = niches[j]
         /\ \E x \in DOMAIN niches' :
              /\ (x = proc[p].id \/ (proc[p].id = 0 /\ x \notin DOMAIN niches)) /\ DOMAIN niches' \subseteq DOMAIN niches \cup {x}
              /\ niches'[x].day = proc[p].who /\ niches'[x].alive /\ (Unscoped(p) \/ niches'[x].org = proc[p].org)
<1> DEFINE i == proc[p].id
           d == proc[p].who
           cleared == [j \in DOMAIN niches |->
             IF j = i THEN [niches[j] EXCEPT !.day = d]
             ELSE IF j \in proc[p].locks THEN [niches[j] EXCEPT !.day = 0] ELSE niches[j]]
           new == [org |-> OrgOfNew(p), day |-> d, alive |-> TRUE]
<1>1. niches' = IF i = 0 THEN Append(cleared, new) ELSE cleared
  BY DEF Commit
<1>2. /\ d \in Nat /\ (i = 0 \/ i \in DOMAIN niches) /\ Locked(p) /\ proc[p].org \in Nat
      /\ i # 0 => i \in proc[p].locks /\ Sees(p, niches[i])
  <2>1. "write" \notin Ahead(p) /\ "find niche" \notin Ahead(p)
    BY NicheIn
  <2>2. d \in NicheDays
    BY DEF NicheOK
  <2>3. d \in Nat
    BY <2>2, DaysCount
  <2> QED BY <2>1, <2>3 DEF NicheOK
<1>3. \A j \in DOMAIN niches : niches[j] \in NicheRow
  BY NicheAt
<1>4. /\ cleared \in Seq(NicheRow) /\ Len(cleared) = Len(niches) /\ DOMAIN cleared = DOMAIN niches
      /\ DOMAIN niches = 1..Len(niches) /\ Len(niches) \in Nat
  <2>1. \A j \in DOMAIN niches : cleared[j] \in NicheRow
    BY <1>2, <1>3 DEF NicheRow
  <2>2. DOMAIN cleared = 1..Len(niches) /\ Len(niches) \in Nat /\ DOMAIN niches = 1..Len(niches)
    OBVIOUS
  <2>3. cleared \in [1..Len(niches) -> NicheRow]
    BY <2>1, <2>2
  <2> QED BY <2>2, <2>3
<1>5. \A j \in DOMAIN niches : /\ cleared[j].org = niches[j].org /\ cleared[j].alive = niches[j].alive
                               /\ j = i => cleared[j].day = d
                               /\ j # i /\ j \in proc[p].locks => cleared[j].day = 0
                               /\ j # i /\ j \notin proc[p].locks => cleared[j] = niches[j]
  BY <1>3 DEF NicheRow
<1>6. CASE i # 0
  <2>1. niches' = cleared /\ i \in DOMAIN niches /\ niches[i].alive /\ Sees(p, niches[i])
    BY <1>1, <1>2, <1>6 DEF Locked
  <2>2. niches'[i].day = d /\ niches'[i].alive /\ (Unscoped(p) \/ niches'[i].org = proc[p].org)
    BY <1>5, <2>1 DEF Sees
  <2> HIDE DEF cleared
  <2> QED BY <1>4, <1>5, <2>1, <2>2
<1>7. CASE i = 0
  <2>1. new \in NicheRow
    BY <1>2 DEF NicheRow, OrgOfNew
  <2> DEFINE x == Len(niches) + 1
  <2> HIDE DEF cleared, new
  <2>2. /\ niches' \in Seq(NicheRow) /\ DOMAIN niches' = DOMAIN niches \cup {x} /\ x \notin DOMAIN niches /\ niches'[x] = new
        /\ \A j \in DOMAIN niches : niches'[j] = cleared[j]
    BY <1>1, <1>4, <1>7, <2>1
  <2>3. new.day = d /\ new.alive /\ (Unscoped(p) \/ new.org = proc[p].org)
    BY DEF new, OrgOfNew
  <2>4. /\ niches' \in Seq(NicheRow) /\ DOMAIN niches \subseteq DOMAIN niches'
        /\ \A j \in DOMAIN niches : /\ niches'[j].org = niches[j].org /\ niches'[j].alive = niches[j].alive
                                    /\ j # i /\ j \in proc[p].locks => niches'[j].day = 0
                                    /\ j # i /\ j \notin proc[p].locks => niches'[j] = niches[j]
    BY <1>5, <2>2
  <2>5. /\ x \in DOMAIN niches' /\ (x = i \/ (i = 0 /\ x \notin DOMAIN niches)) /\ DOMAIN niches' \subseteq DOMAIN niches \cup {x}
        /\ niches'[x].day = d /\ niches'[x].alive /\ (Unscoped(p) \/ niches'[x].org = proc[p].org)
    BY <1>7, <2>2, <2>3
  <2> QED BY <2>4, <2>5
<1> QED BY <1>6, <1>7

LEMMA CommitGo ==
  ASSUME ProcInv, FlowInv, NicheSafe, NEW p \in Handlers, Commit(p)
  PROVE  NicheSafe' /\ Deed(p, "niche") /\ sessions' = sessions
<1> DEFINE i == proc[p].id
           d == proc[p].who
<1>1. At(p, "commit") /\ sessions' = sessions /\ raced' = raced + Cardinality(Racing(p)) /\ proc' = Ended(p)
  BY DEF Commit, accounts
<1>2. /\ NicheOK(p) /\ "commit" \in Ahead(p) /\ "commit" \in OtherWords /\ Kind("commit") = "niche" /\ "niche" \in Kinds
      /\ "commit" \in NicheClan
  BY <1>1, NicheAtKind, NicheIn
<1>3. \A w \in Ahead(p) : w = "commit"
  BY <1>1, <1>2, LastWord, NicheNoMore
<1>4. Deed(p, "niche") /\ proc'[p] = Idle
  BY <1>1, <1>2, GoneMove, ThrownGone
<1>5. /\ niches' \in Seq(NicheRow) /\ DOMAIN niches \subseteq DOMAIN niches'
      /\ \A j \in DOMAIN niches : /\ niches'[j].org = niches[j].org /\ niches'[j].alive = niches[j].alive
                                  /\ j # i /\ j \in proc[p].locks => niches'[j].day = 0
                                  /\ j # i /\ j \notin proc[p].locks => niches'[j] = niches[j]
      /\ \E x \in DOMAIN niches' :
           /\ (x = i \/ (i = 0 /\ x \notin DOMAIN niches)) /\ DOMAIN niches' \subseteq DOMAIN niches \cup {x}
           /\ niches'[x].day = d /\ niches'[x].alive /\ (Unscoped(p) \/ niches'[x].org = proc[p].org)
  BY <1>2, <1>3, CommitRows DEF NicheSafe
<1>6. PICK x \in DOMAIN niches' :
           /\ (x = i \/ (i = 0 /\ x \notin DOMAIN niches)) /\ DOMAIN niches' \subseteq DOMAIN niches \cup {x}
           /\ niches'[x].day = d /\ niches'[x].alive /\ (Unscoped(p) \/ niches'[x].org = proc[p].org)
  BY <1>5
<1>7. raced \in Nat /\ IsFiniteSet(Racing(p)) /\ Cardinality(Racing(p)) \in Nat /\ raced' \in Nat /\ raced <= raced'
  <2>1. IsFiniteSet(Racing(p))
    BY HandlersFinite, FS_Subset DEF Racing, Others, Busy
  <2>2. Cardinality(Racing(p)) \in Nat /\ raced \in Nat
    BY <2>1, FS_CardinalityType DEF NicheSafe
  <2> QED BY <1>1, <2>1, <2>2
(* A day that is not the commit's own loses rows; its own gains one.       *)
<1> DEFINE On(o, e) == {j \in DOMAIN niches' : niches'[j].alive /\ niches'[j].org = o /\ niches'[j].day = e}
<1>8. \A o, e : NicheOf(o, e)' = On(o, e)
  BY DEF NicheOf
<1>10. \A o, e : e # d => x \notin On(o, e)
  BY <1>6
<1>11. \A o, e : e # 0 => \A j \in On(o, e) : j = x \/ (j \in NicheOf(o, e) /\ j # i /\ j \notin proc[p].locks)
  BY <1>5, <1>6 DEF NicheOf
<1>12. \A o : ~Unscoped(p) /\ o # proc[p].org => \A e : x \notin On(o, e)
  BY <1>6
<1> HIDE DEF On
<1>13. FewADay'
  <2> SUFFICES ASSUME NEW o \in Nat, NEW e \in Days PROVE Cardinality(NicheOf(o, e)') <= 1 + raced'
    BY DEF FewADay
  <2>1. e # 0 /\ Cardinality(NicheOf(o, e)) <= 1 + raced /\ IsFiniteSet(NicheOf(o, e))
    BY TenancyAssumption, NicheFinite DEF NicheSafe, FewADay, NicheOf
  <2>2. CASE x \notin On(o, e)
    <3>1. On(o, e) \subseteq NicheOf(o, e)
      BY <1>11, <2>1, <2>2
    <3>2. Cardinality(On(o, e)) <= Cardinality(NicheOf(o, e)) /\ Cardinality(On(o, e)) \in Nat /\ Cardinality(NicheOf(o, e)) \in Nat
      BY <2>1, <3>1, CardSub, FS_CardinalityType
    <3> QED BY <1>7, <1>8, <2>1, <3>2
  <2>3. CASE x \in On(o, e)
    <3>1. e = d /\ (Unscoped(p) \/ o = proc[p].org)
      BY <1>10, <1>12, <2>3
    <3>2. "begin" \notin Ahead(p) /\ "mark day" \notin Ahead(p) /\ "lock day" \notin Ahead(p)
      BY <1>3, NicheIn
    <3>3. Past(p) /\ ToClear(p) = proc[p].locks
      BY <1>2, <3>2 DEF Past, ToClear
    <3>4. Few(p)
      BY <1>2, <2>1, <3>1, <3>3 DEF NicheOK
    <3> DEFINE B == NicheOf(o, d) \ (proc[p].locks \cup {i})
    <3>5. Cardinality(B) <= raced
      BY <3>1, <3>3, <3>4 DEF Few
    <3>6. On(o, e) \subseteq B \cup {x}
      BY <1>11, <2>1, <3>1
    <3>7. IsFiniteSet(B)
      BY <2>1, <3>1, FS_Subset
    <3>8. Cardinality(On(o, e)) <= Cardinality(B) + 1 /\ Cardinality(On(o, e)) \in Nat /\ Cardinality(B) \in Nat
      <4> HIDE DEF B
      <4> QED BY <3>6, <3>7, CardMore, FS_CardinalityType
    <3> QED BY <1>7, <1>8, <3>5, <3>8
  <2> QED BY <2>2, <2>3
<1>14. ASSUME NEW q \in Handlers \ {p}, NicheOK(q), proc'[q] = proc[q], Past(q), proc[q].who # 0 PROVE Few(q)'
  <2>1. Few(q) /\ Ahead(q)' = Ahead(q) /\ ToClear(q)' = ToClear(q)
    BY <1>14 DEF NicheOK, Ahead, ToClear
  <2>2. Unscoped(q)' <=> Unscoped(q)
    BY <1>1, <1>14 DEF Unscoped
  <2> SUFFICES ASSUME NEW o \in Nat, Unscoped(q) \/ o = proc[q].org
               PROVE  Cardinality(On(o, proc[q].who) \ (ToClear(q) \cup {proc[q].id})) <= raced'
    BY <1>8, <1>14, <2>1, <2>2 DEF Few
  <2> DEFINE A == On(o, proc[q].who) \ (ToClear(q) \cup {proc[q].id})
             B == NicheOf(o, proc[q].who) \ (ToClear(q) \cup {proc[q].id})
  <2>3. Cardinality(B) <= raced
    BY <2>1 DEF Few
  <2>4. IsFiniteSet(B)
    BY NicheFinite DEF NicheSafe, NicheOf
  <2>5. A \subseteq B \cup {x}
    BY <1>11, <1>14
  <2>6. CASE proc[q].who # d
    <3>1. A \subseteq B
      BY <1>10, <1>11, <1>14, <2>6
    <3>2. Cardinality(A) <= Cardinality(B) /\ Cardinality(A) \in Nat /\ Cardinality(B) \in Nat
      <4> HIDE DEF A, B
      <4> QED BY <2>4, <3>1, CardSub, FS_CardinalityType
    <3> QED BY <1>7, <2>3, <3>2
  <2>7. CASE proc[q].who = d
    <3>1. q \in Racing(p)
      <4>1. "commit" \in Ahead(q) /\ "begin" \notin Ahead(q) /\ "mark day" \notin Ahead(q)
        BY <1>14 DEF Past
      <4>2. q \in Others(p) /\ Transaction(q) /\ ~Awaits(q, "begin") /\ ~Awaits(q, "mark day")
        BY <1>14, <4>1, AwaitsIs, BusyIs DEF Others, Transaction, NicheOK
      <4> QED BY <1>14, <2>7, <4>2 DEF Racing
    <3>2. raced + 1 <= raced'
      <4>1. Cardinality(Racing(p)) # 0
        BY <1>7, <3>1, FS_EmptySet
      <4> QED BY <1>1, <1>7, <4>1
    <3>3. Cardinality(A) <= Cardinality(B) + 1 /\ Cardinality(A) \in Nat /\ Cardinality(B) \in Nat
      <4> HIDE DEF A, B
      <4> QED BY <2>4, <2>5, CardMore, FS_CardinalityType
    <3> QED BY <1>7, <2>3, <3>2, <3>3
  <2> QED BY <2>6, <2>7
<1>15. ASSUME NEW q \in Handlers \ {p}, "commit" \in Ahead(q) PROVE \A m \in proc[q].locks : niches'[m] = niches[m]
  <2>1. proc[q].locks \cap proc[p].locks = {}
    BY <1>2, <1>15 DEF NicheSafe, Disjoint
  <2>2. NicheOK(q)
    BY <1>15, CommitHas DEF NicheSafe
  <2>3. \A m \in proc[q].locks : m \in DOMAIN niches
    BY <1>15, <2>2 DEF NicheOK, Locked
  <2>4. i # 0 => i \in proc[p].locks
    BY <1>2, <1>3, NicheIn DEF NicheOK
  <2>5. 0 \notin DOMAIN niches
    BY DEF NicheSafe
  <2> QED BY <1>5, <2>1, <2>3, <2>4, <2>5
<1>16. \A j \in DOMAIN niches : niches'[j].org = niches[j].org
  BY <1>5
<1> QED BY <1>1, <1>4, <1>5, <1>7, <1>13, <1>14, <1>15, <1>16, NicheShift

(* It deletes the niche, once nobody holds it.                             *)
LEMMA RemoveRows ==
  ASSUME NEW p, niches \in Seq(NicheRow), proc[p].id \in DOMAIN niches, niches' = [niches EXCEPT ![proc[p].id].alive = FALSE]
  PROVE  /\ niches' \in Seq(NicheRow) /\ DOMAIN niches' = DOMAIN niches
         /\ \A j \in DOMAIN niches : /\ niches'[j].org = niches[j].org /\ niches'[j].day = niches[j].day
                                     /\ niches'[j].alive => niches[j].alive
                                     /\ j # proc[p].id => niches'[j] = niches[j]
<1> DEFINE i == proc[p].id
           row == [niches[i] EXCEPT !.alive = FALSE]
<1>1. \A j \in DOMAIN niches : niches[j] \in NicheRow
  BY NicheAt
<1>2. row \in NicheRow /\ row.org = niches[i].org /\ row.day = niches[i].day /\ ~row.alive
  BY <1>1 DEF NicheRow
<1>3. niches' = [niches EXCEPT ![i] = row]
  OBVIOUS
<1> HIDE DEF row, i
<1>4. niches' \in Seq(NicheRow) /\ DOMAIN niches' = DOMAIN niches
  BY <1>2, <1>3
<1>5. \A j \in DOMAIN niches : niches'[j] = IF j = i THEN row ELSE niches[j]
  BY <1>3
<1> QED BY <1>2, <1>4, <1>5 DEF i
LEMMA RemoveGo ==
  ASSUME ProcInv, FlowInv, NicheSafe, NEW p \in Handlers, RemoveNiche(p)
  PROVE  NicheSafe' /\ Deed(p, "niche") /\ sessions' = sessions
<1> DEFINE i == proc[p].id
<1>1. /\ At(p, "delete niche") /\ sessions' = sessions /\ raced' = raced /\ ~Held(p, {i})
      /\ \/ niches' = [niches EXCEPT ![i].alive = FALSE] /\ proc' = Ended(p)
         \/ niches' = niches /\ proc' = Thrown(p)
  BY DEF RemoveNiche, accounts
<1>2. /\ NicheOK(p) /\ "delete niche" \in Ahead(p) /\ "delete niche" \in OtherWords /\ Kind("delete niche") = "niche"
      /\ "niche" \in Kinds
  BY <1>1, NicheAtKind, NicheIn
<1>3. Deed(p, "niche") /\ proc'[p] = Idle
  BY <1>1, <1>2, GoneMove, ThrownGone
<1>4. CASE niches' = niches
  <2>1. NicheGo(p)
    BY <1>1, <1>3, <1>4, NicheGone
  <2> QED BY <1>1, <1>3, <2>1, NicheGoes
<1>5. CASE niches' = [niches EXCEPT ![i].alive = FALSE]
  <2>1. i \in DOMAIN niches /\ niches \in Seq(NicheRow) /\ raced \in Nat
    BY <1>2 DEF NicheOK, NicheSafe
  <2>2. /\ niches' \in Seq(NicheRow) /\ DOMAIN niches' = DOMAIN niches
        /\ \A j \in DOMAIN niches : /\ niches'[j].org = niches[j].org /\ niches'[j].day = niches[j].day
                                    /\ niches'[j].alive => niches[j].alive
                                    /\ j # i => niches'[j] = niches[j]
    BY <1>5, <2>1, RemoveRows
  <2>3. \A o, e : NicheOf(o, e)' \subseteq NicheOf(o, e)
    BY <2>2 DEF NicheOf
  <2>4. \A A, B : A \subseteq B /\ B \subseteq DOMAIN niches =>
          Cardinality(A) <= Cardinality(B) /\ Cardinality(A) \in Nat /\ Cardinality(B) \in Nat
    BY <2>1, NicheFinite, CardSub, FS_CardinalityType
  <2>5. FewADay'
    <3> SUFFICES ASSUME NEW o \in Nat, NEW e \in Days PROVE Cardinality(NicheOf(o, e)') <= 1 + raced
      BY <1>1 DEF FewADay
    <3>1. Cardinality(NicheOf(o, e)) <= 1 + raced
      BY DEF NicheSafe, FewADay
    <3>2. NicheOf(o, e) \subseteq DOMAIN niches
      BY DEF NicheOf
    <3>3. /\ Cardinality(NicheOf(o, e)') <= Cardinality(NicheOf(o, e)) /\ Cardinality(NicheOf(o, e)') \in Nat
          /\ Cardinality(NicheOf(o, e)) \in Nat
      BY <2>3, <2>4, <3>2
    <3> QED BY <2>1, <3>1, <3>3
  <2>6. ASSUME NEW q \in Handlers \ {p}, NicheOK(q), proc'[q] = proc[q], Past(q), proc[q].who # 0 PROVE Few(q)'
    <3>1. Few(q) /\ Ahead(q)' = Ahead(q) /\ ToClear(q)' = ToClear(q)
      BY <2>6 DEF NicheOK, Ahead, ToClear
    <3>2. Unscoped(q)' <=> Unscoped(q)
      BY <1>1, <2>6 DEF Unscoped
    <3> SUFFICES ASSUME NEW o \in Nat, Unscoped(q) \/ o = proc[q].org
                 PROVE  Cardinality(NicheOf(o, proc[q].who)' \ (ToClear(q) \cup {proc[q].id})) <= raced
      <4>1. \A o : NicheOf(o, proc[q].who)' =
                     {j \in DOMAIN niches' : niches'[j].alive /\ niches'[j].org = o /\ niches'[j].day = proc[q].who}
        BY <2>6 DEF NicheOf
      <4> QED BY <1>1, <2>6, <3>1, <3>2, <4>1 DEF Few
    <3> DEFINE A == NicheOf(o, proc[q].who)' \ (ToClear(q) \cup {proc[q].id})
               B == NicheOf(o, proc[q].who) \ (ToClear(q) \cup {proc[q].id})
    <3>3. Cardinality(B) <= raced
      BY <3>1 DEF Few
    <3>4. A \subseteq B /\ B \subseteq DOMAIN niches
      BY <2>2, <2>6 DEF NicheOf
    <3>5. Cardinality(A) <= Cardinality(B) /\ Cardinality(A) \in Nat /\ Cardinality(B) \in Nat
      <4> HIDE DEF A, B
      <4> QED BY <2>4, <3>4
    <3> QED BY <2>1, <3>3, <3>5
  <2>7. ASSUME NEW q \in Handlers \ {p}, "commit" \in Ahead(q) PROVE \A m \in proc[q].locks : niches'[m] = niches[m]
    <3>1. proc[q].locks \cap {i} = {}
      BY <1>1, <2>7, NotHeld
    <3>2. NicheOK(q)
      BY <2>7, CommitHas DEF NicheSafe
    <3>3. \A m \in proc[q].locks : m \in DOMAIN niches
      BY <2>7, <3>2 DEF NicheOK, Locked
    <3> QED BY <2>2, <3>1, <3>3
  <2> QED BY <1>1, <1>3, <2>1, <2>2, <2>5, <2>6, <2>7, NicheShift
<1> QED BY <1>1, <1>4, <1>5

(* A step of the kind of niches, or one of another kind that leaves them.  *)
LEMMA NicheRest ==
  ASSUME ProcInv, FlowInv, NicheSafe, SessionsStay, Beside("niche"), niches' = niches, raced' = raced
  PROVE  NicheSafe'
<1>1. "niche" \in Kinds
  BY NicheIs
<1>2. ASSUME NEW q \in Handlers, Has(proc'[q], "niche") PROVE Intact(q, "niche") /\ Has(proc[q], "niche") /\ NicheOK(q)'
  <2>1. Intact(q, "niche") /\ Has(proc[q], "niche")
    BY <1>1, <1>2, BesideAlike
  <2> QED BY <2>1, NicheSame DEF NicheSafe
<1>3. Disjoint'
  <2>1. \A q \in Handlers : "commit" \in Ahead(q)' => "commit" \in Ahead(q) /\ proc'[q].locks = proc[q].locks
    <3> SUFFICES ASSUME NEW q \in Handlers, "commit" \in Ahead(q)' PROVE "commit" \in Ahead(q) /\ proc'[q].locks = proc[q].locks
      OBVIOUS
    <3>1. Intact(q, "niche")
      BY <1>2, CommitHas
    <3> QED BY <3>1, NicheIn, NicheKind, AllFields DEF Intact
  <2> QED BY <2>1 DEF Disjoint, NicheSafe
<1> QED BY <1>2, <1>3, TableSame DEF NicheSafe
LEMMA NicheWorks ==
  ASSUME Core, FlowInv, NicheSafe, NEW p \in Handlers, NicheWork(p)
  PROVE  NicheSafe' /\ Deed(p, "niche")
<1>1. ProcInv
  BY DEF Core
<1>2. CASE NicheGo(p)
  BY <1>1, <1>2, NicheGoes DEF NicheGo
<1>3. CASE Commit(p) \/ RemoveNiche(p)
  BY <1>1, <1>3, CommitGo, RemoveGo
<1>4. NicheWork(p) => NicheGo(p) \/ Commit(p) \/ RemoveNiche(p)
  BY <1>1, AskedNiche, FindNicheGo, BeginGo, MarkDayGo, LockDayGo, WriteNicheGo, AbortGo DEF NicheWork
<1> QED BY <1>2, <1>3, <1>4

-----------------------------------------------------------------------------
(* The other tables *)

OtherWork(p) ==
  \/ CreateView(p) \/ ChangeView(p) \/ WriteView(p) \/ SaveSingle(p) \/ FindSingle(p) \/ UpdateSingle(p)
  \/ CreateSingle(p) \/ Boot(p) \/ Seed(p)
ConfigWork(p) == SaveConfig(p) \/ Validate(p) \/ Put(p)
MetricWork(p) == CountMetric(p) \/ Ensure(p) \/ Bump(p)
LEMMA TenancyWork ==
  ASSUME NEW p, TenancyStep(p)
  PROVE  NicheWork(p) \/ OtherWork(p) \/ ConfigWork(p) \/ MetricWork(p)
  BY DEF TenancyStep, NicheWork, OtherWork, ConfigWork, MetricWork
LEMMA KindsAre ==
  /\ "other" \in Kinds \ {"metric", "engine", "desk"} /\ "config" \in Kinds \ {"metric", "engine", "desk"}
  /\ "retry" \in Kinds \ {"metric", "engine", "desk"} /\ "list" \in Kinds \ {"metric", "engine", "desk"}
  /\ "metric" \in Kinds /\ "engine" \in Kinds /\ "desk" \in Kinds
  BY DEF Kinds
LEMMA ServingAre ==
  /\ "view" \in Serving("other") /\ "single" \in Serving("other") /\ "boot" \in Serving("other") /\ "legacy" \in Serving("other")
  /\ "config" \in Serving("config") /\ "legacy" \in Serving("config") /\ "metric" \in Serving("metric")
  BY DEF Serving
LEMMA OtherIn ==
  /\ "create view" \in OtherClan /\ "update view" \in OtherClan /\ "delete view" \in OtherClan
  /\ "find offer" \in OtherClan /\ "find icp" \in OtherClan /\ "create offer" \in OtherClan /\ "create icp" \in OtherClan
  /\ "update offer" \in OtherClan /\ "update icp" \in OtherClan /\ "seed offer" \in OtherClan /\ "seed icp" \in OtherClan
  BY DEF OtherClan
LEMMA OtherKin == \A w \in OtherClan : w \in Kin("other") /\ w \in OtherWords /\ Kind(w) = "other"
<1>1. \A w \in OtherClan : w \in OtherWords
  BY NicheFacts, TableFacts, ZenonT(40) DEF OtherClan
<1> QED BY <1>1, OtherKind, KinHas
LEMMA OtherDeed ==
  ASSUME ProcInv, FlowInv, NEW p \in Handlers, OtherWork(p)
  PROVE  Deed(p, "other")
<1>1. \A w \in OtherClan : <<w>> \in Seq(Kin("other")) /\ Ordered(<<w>>)
  BY OtherKin, ShortLists
<1>2. ASSUME NEW w \in OtherClan, At(p, w), proc' = Ended(p) \/ proc' = Thrown(p) \/ proc' = Advance(p) PROVE Deed(p, "other")
  BY <1>2, GoneMove, OtherKin, KindsAre
<1>3. ASSUME NEW w \in OtherClan, NEW kind \in {"view", "single"}, NEW i, NEW d, Edit(p, kind, i, d, <<w>>)
      PROVE  Deed(p, "other")
  <2> DEFINE t == <<w>>
  <2>1. t \in Seq(Kin("other")) /\ Ordered(t) /\ Edit(p, kind, i, d, t)
    BY <1>1, <1>3
  <2> HIDE DEF t
  <2> QED BY <1>3, <2>1, EditMove, KindsAre, ServingAre
<1>4. CASE CreateView(p) \/ ChangeView(p)
  BY <1>3, <1>4, OtherIn, Zenon DEF CreateView, ChangeView
<1>5. CASE SaveSingle(p)
  BY <1>3, <1>5, OtherIn, Zenon DEF SaveSingle
<1>6. CASE WriteView(p)
  <2>1. At(p, "create view") \/ At(p, "update view") \/ At(p, "delete view")
    BY <1>6 DEF WriteView
  <2>2. proc' = Ended(p) \/ proc' = Thrown(p)
    BY <1>6 DEF WriteView
  <2> QED BY <1>2, <2>1, <2>2, OtherIn
<1>7. CASE UpdateSingle(p) \/ CreateSingle(p) \/ Seed(p)
  <2>1. \E w \in OtherClan : At(p, w) /\ (proc' = Ended(p) \/ proc' = Thrown(p) \/ proc' = Advance(p))
    BY <1>7, OtherIn, ZenonT(40) DEF UpdateSingle, CreateSingle, Seed, Updates, Creates, Seeds
  <2> QED BY <1>2, <2>1
<1>8. CASE FindSingle(p)
  <2>1. \E w, v \in OtherClan : At(p, w) /\ proc' = Goes(p, <<v>>)
    BY <1>8, OtherIn, ZenonT(40) DEF FindSingle, Finds, Updates, Creates
  <2>2. PICK w \in OtherClan, v \in OtherClan : At(p, w) /\ proc' = Goes(p, <<v>>)
    BY <2>1
  <2> DEFINE t == <<v>>
  <2>3. t \in Seq(Kin("other")) /\ Ordered(t) /\ proc' = Goes(p, t)
    BY <1>1, <2>2
  <2> HIDE DEF t
  <2>4. KinMove(p, "other")
    BY <2>2, <2>3, GoesMove, OtherKin, KindsAre
  <2> QED BY <2>2, <2>4, DeedStep, OtherKin, KindsAre
<1>9. CASE Boot(p)
  <2> DEFINE t == <<"seed offer", "seed icp">>
             r == [Idle EXCEPT !.op = "boot", !.todo = t]
  <2>1. t \in Seq(Kin("other")) /\ Ordered(t)
    <3>1. Comes("seed offer", "seed icp")
      BY ZenonT(40) DEF Comes
    <3> QED BY <3>1, OtherIn, OtherKin, ShortLists, Zenon
  <2>2. Begin(p, "boot", r)
    BY <1>9 DEF Boot
  <2> HIDE DEF t
  <2>3. DOMAIN r = Fields /\ r.op = "boot" /\ r.todo = t
    BY DEF Idle, Fields
  <2> HIDE DEF r
  <2>4. Clanned(r, "other")
    BY <2>1, <2>3, ServingAre DEF Clanned
  <2> QED BY <2>2, <2>3, <2>4, DeedBegun
<1> QED BY <1>4, <1>5, <1>6, <1>7, <1>8, <1>9 DEF OtherWork

LEMMA ConfigIn == "validate" \in ConfigClan /\ "put a" \in ConfigClan /\ "put b" \in ConfigClan
  BY DEF ConfigClan
LEMMA ConfigKin == \A w \in ConfigClan : w \in Kin("config") /\ w \in OtherWords /\ Kind(w) = "config"
  BY ConfigKind, TableFacts, KinHas DEF ConfigClan
LEMMA SavesThem ==
  LET t == <<"validate", "put a", "put b">> IN
  t \in Seq(Kin("config")) /\ Ordered(t) /\ Words(t) = {"validate", "put a", "put b"}
<1>1. Comes("validate", "put a") /\ Comes("validate", "put b") /\ Comes("put a", "put b")
  BY ZenonT(40) DEF Comes
<1> QED BY <1>1, ConfigIn, ConfigKin, ThreeWords, Zenon
LEMMA ConfigDeed ==
  ASSUME ProcInv, FlowInv, NEW p \in Handlers, ConfigWork(p)
  PROVE  Deed(p, "config")
<1>1. CASE SaveConfig(p)
  <2> DEFINE t == <<"validate", "put a", "put b">>
  <2>1. t \in Seq(Kin("config")) /\ Ordered(t) /\ \E bad \in {0, 1} : Edit(p, "config", bad, 0, t)
    BY <1>1, SavesThem DEF SaveConfig
  <2> HIDE DEF t
  <2> QED BY <2>1, EditMove, KindsAre, ServingAre
<1>2. CASE Validate(p) \/ Put(p)
  <2>1. \E w \in ConfigClan : At(p, w) /\ (proc' = Ended(p) \/ proc' = Advance(p))
    BY <1>2, ConfigIn, ZenonT(40) DEF Validate, Put, Puts
  <2> QED BY <2>1, GoneMove, ConfigKin, KindsAre
<1> QED BY <1>1, <1>2 DEF ConfigWork

LEMMA MetricIn == "ensure" \in MetricClan /\ "bump" \in MetricClan
  BY DEF MetricClan
LEMMA MetricKin == \A w \in MetricClan : w \in Kin("metric") /\ w \in OtherWords /\ Kind(w) = "metric"
  BY MetricKind, TableFacts, KinHas DEF MetricClan
LEMMA CountsIt ==
  /\ <<"ensure", "bump">> \in Seq(Kin("metric")) /\ Ordered(<<"ensure", "bump">>)
  /\ Words(<<"ensure", "bump">>) = {"ensure", "bump"}
<1>1. Comes("ensure", "bump")
  BY ZenonT(40) DEF Comes
<1>2. "ensure" \in Kin("metric") /\ "bump" \in Kin("metric")
  BY MetricIn, MetricKin, Zenon
<1>3. <<"ensure", "bump">> \in Seq(Kin("metric")) /\ Words(<<"ensure", "bump">>) = {"ensure", "bump"}
  BY <1>2, TwoIn, OrderedShort, Zenon
<1>4. Ordered(<<"ensure", "bump">>)
  BY <1>1, OrderedShort, Zenon
<1> QED BY <1>3, <1>4, Zenon
LEMMA MetricDeed ==
  ASSUME ProcInv, FlowInv, NEW p \in Handlers, MetricWork(p)
  PROVE  Deed(p, "metric") /\ (CountMetric(p) => proc'[p].org \in 0..2)
<1>1. ASSUME CountMetric(p) PROVE Deed(p, "metric") /\ proc'[p].org \in 0..2
  <2> DEFINE t == <<"ensure", "bump">>
  <2>1. t \in Seq(Kin("metric")) /\ Ordered(t)
    BY CountsIt
  <2>2. PICK o \in 0..2 : Begin(p, "metric", [Idle EXCEPT !.op = "metric", !.org = o, !.todo = t])
    BY <1>1 DEF CountMetric
  <2> HIDE DEF t
  <2> DEFINE r == [Idle EXCEPT !.op = "metric", !.org = o, !.todo = t]
  <2>3. DOMAIN r = Fields /\ r.op = "metric" /\ r.todo = t /\ r.org = o
    BY DEF Idle, Fields
  <2>4. Begin(p, "metric", r)
    BY <2>2
  <2> HIDE DEF r
  <2>5. Clanned(r, "metric")
    BY <2>1, <2>3, ServingAre DEF Clanned
  <2>6. Deed(p, "metric") /\ \A f \in Fields \ {"no"} : proc'[p][f] = r[f]
    BY <2>3, <2>4, <2>5, DeedBegun
  <2> QED BY <2>3, <2>6, AllFields
<1>2. ASSUME Ensure(p) \/ Bump(p) PROVE Deed(p, "metric")
  <2>1. \E w \in MetricClan : At(p, w) /\ (proc' = Ended(p) \/ proc' = Advance(p) \/ proc' = Thrown(p))
    BY <1>2, MetricIn, ZenonT(40) DEF Ensure, Bump, Bumped
  <2> QED BY <2>1, GoneMove, MetricKin, KindsAre
<1> QED BY <1>1, <1>2 DEF MetricWork

-----------------------------------------------------------------------------
(* Bulk retries *)

BookWork(p) ==
  \/ Retry(p) \/ Load(p) \/ NextLead(p) \/ FindMail(p) \/ CallModel(p) \/ WriteLead(p) \/ Rewrite(p)
LEMMA RetryIn ==
  /\ "load" \in RetryClan /\ "next" \in RetryClan /\ "find mail" \in RetryClan /\ "call" \in RetryClan
  /\ "rewrite" \in RetryClan /\ "write lead" \in RetryClan
  BY DEF RetryClan
LEMMA RetryKin == \A w \in RetryClan : w \in Kin("retry") /\ w \in OtherWords /\ Kind(w) = "retry"
<1>1. \A w \in RetryClan : w \in OtherWords
  BY ListFacts, ZenonT(40) DEF RetryClan
<1> QED BY <1>1, RetryKind, KinHas
LEMMA RetryServes == "retry" \in Serving("retry") /\ "legacy" \in Serving("retry")
  BY DEF Serving
LEMMA RetryOps == Serving("retry") = {"retry", "legacy"}
  BY DEF Serving
LEMMA RetryComes ==
  /\ \A w : ~Comes("load", w) /\ ~Comes("next", w) /\ ~Comes("rewrite", w) /\ ~Comes("write lead", w)
  /\ \A w : Comes("find mail", w) => w \in {"call", "rewrite"}
  /\ \A w : Comes("call", w) => w \in {"rewrite", "write lead"}
  /\ Comes("find mail", "call") /\ Comes("find mail", "rewrite") /\ Comes("call", "rewrite") /\ Comes("call", "write lead")
<1>1. \A w : ~Comes("load", w) /\ ~Comes("next", w) /\ ~Comes("rewrite", w) /\ ~Comes("write lead", w)
  BY DEF Comes
<1>2. (\A w : Comes("find mail", w) => w \in {"call", "rewrite"}) /\ \A w : Comes("call", w) => w \in {"rewrite", "write lead"}
  BY DEF Comes
<1>3. Comes("find mail", "call") /\ Comes("find mail", "rewrite")
  BY ZenonT(40) DEF Comes
<1>4. Comes("call", "rewrite") /\ Comes("call", "write lead")
  BY ZenonT(40) DEF Comes
<1> QED BY <1>1, <1>2, <1>3, <1>4
LEMMA RetryPrograms ==
  /\ <<"load">> \in Seq(Kin("retry")) /\ Ordered(<<"load">>) /\ Words(<<"load">>) = {"load"}
  /\ <<"next">> \in Seq(Kin("retry")) /\ Ordered(<<"next">>) /\ Words(<<"next">>) = {"next"}
  /\ <<"call", "write lead">> \in Seq(Kin("retry")) /\ Ordered(<<"call", "write lead">>)
  /\ Words(<<"call", "write lead">>) = {"call", "write lead"}
  /\ <<"find mail", "call", "rewrite">> \in Seq(Kin("retry")) /\ Ordered(<<"find mail", "call", "rewrite">>)
  /\ Words(<<"find mail", "call", "rewrite">>) = {"find mail", "call", "rewrite"}
<1>1. /\ "load" \in Kin("retry") /\ "next" \in Kin("retry") /\ "call" \in Kin("retry") /\ "write lead" \in Kin("retry")
      /\ "find mail" \in Kin("retry") /\ "rewrite" \in Kin("retry")
  BY RetryIn, RetryKin, Zenon
<1>2. /\ <<"load">> \in Seq(Kin("retry")) /\ Ordered(<<"load">>) /\ Words(<<"load">>) = {"load"}
      /\ <<"next">> \in Seq(Kin("retry")) /\ Ordered(<<"next">>) /\ Words(<<"next">>) = {"next"}
  BY <1>1, ShortLists, Zenon
<1>3. /\ <<"call", "write lead">> \in Seq(Kin("retry")) /\ Ordered(<<"call", "write lead">>)
      /\ Words(<<"call", "write lead">>) = {"call", "write lead"}
  BY <1>1, RetryComes, ShortLists, ZenonT(40)
<1>4. /\ <<"find mail", "call", "rewrite">> \in Seq(Kin("retry")) /\ Ordered(<<"find mail", "call", "rewrite">>)
      /\ Words(<<"find mail", "call", "rewrite">>) = {"find mail", "call", "rewrite"}
  <2>1. Comes("find mail", "call") /\ Comes("find mail", "rewrite") /\ Comes("call", "rewrite")
    BY RetryComes
  <2>2. "find mail" \in Kin("retry") /\ "call" \in Kin("retry") /\ "rewrite" \in Kin("retry")
    BY <1>1
  <2> QED BY <2>1, <2>2, ThreeWords, Zenon
<1> QED BY <1>2, <1>3, <1>4, Zenon

(* A retry is asked for.                                                   *)
LEMMA RetryMove ==
  ASSUME ProcInv, NEW p \in Handlers, Retry(p)
  PROVE  /\ Deed(p, "retry") /\ Only(p) /\ UNCHANGED <<accounts, tenancy, book>>
         /\ \A w : w \notin Doors => (w \in Ahead(p)' <=> w = "load")
         /\ proc'[p].op \in {"retry", "legacy"} /\ proc'[p].marks \in Batches /\ proc'[p].no = calls + 1 /\ calls' = calls + 1
<1> DEFINE request(s, i, ids, op, t) ==
             [[Idle EXCEPT !.by = s, !.org = OrgOf(s), !.id = i, !.marks = ids] EXCEPT !.op = op, !.todo = t]
<1>1. PICK s \in Tokens, i \in DOMAIN Stages, ids \in Batches :
        \/ Begin(p, Stages[i], request(s, i, ids, "retry", <<"context", "load">>))
        \/ Begin(p, Stages[i], request(s, i, ids, "legacy", <<"token", "load">>))
  BY DEF Retry
<1>2. \A op, t : LET r == request(s, i, ids, op, t) IN
        DOMAIN r = Fields /\ r.op = op /\ r.todo = t /\ r.marks = ids
  BY DEF Idle, Fields
<1>3. ASSUME NEW d \in Doors
      PROVE  /\ <<d, "load">> \in Seq(Kin("retry")) /\ Ordered(<<d, "load">>) /\ Words(<<d, "load">>) = {d, "load"}
  <2>1. d \in Kin("retry") /\ "load" \in Kin("retry") /\ Comes(d, "load")
    BY DoorsIn, DoorComes, KindsAre, RetryIn, RetryKin
  <2> QED BY <2>1, TwoIn, OrderedShort, Zenon
<1> HIDE DEF request
<1>4. UNCHANGED <<accounts, tenancy, book>> /\ calls' = calls + 1
  BY DEF Retry, Begin
<1>5. ASSUME NEW op \in {"retry", "legacy"}, NEW d \in Doors, NEW k, NEW t, t = <<d, "load">>,
             Begin(p, k, request(s, i, ids, op, t))
      PROVE  /\ Deed(p, "retry") /\ Only(p) /\ (\A w : w \notin Doors => (w \in Ahead(p)' <=> w = "load"))
             /\ proc'[p].op \in {"retry", "legacy"} /\ proc'[p].marks \in Batches /\ proc'[p].no = calls + 1
  <2> DEFINE r == request(s, i, ids, op, t)
  <2>1. t \in Seq(Kin("retry")) /\ Ordered(t) /\ Words(t) = {d, "load"}
    BY <1>3, <1>5
  <2>2. DOMAIN r = Fields /\ r.op = op /\ r.todo = t /\ r.marks = ids /\ Begin(p, k, r)
    BY <1>2, <1>5
  <2> HIDE DEF r
  <2>3. Clanned(r, "retry")
    BY <1>5, <2>1, <2>2, RetryServes DEF Clanned
  <2>4. /\ Deed(p, "retry") /\ Only(p) /\ DOMAIN proc'[p] = Fields /\ proc'[p].no = calls + 1
        /\ \A f \in Fields \ {"no"} : proc'[p][f] = r[f]
    BY <2>2, <2>3, DeedBegun
  <2>5. proc'[p].op = op /\ proc'[p].marks = ids /\ proc'[p].todo = t
    BY <2>2, <2>4 DEF Fields
  <2>6. \A w : w \notin Doors => (w \in Ahead(p)' <=> w = "load")
    <3>1. "load" \notin Doors
      BY DEF Doors
    <3> QED BY <2>1, <2>5, <3>1 DEF Ahead
  <2> QED BY <1>5, <2>4, <2>5, <2>6
<1>6. "context" \in Doors /\ "token" \in Doors
  BY DEF Doors
<1>7. CASE Begin(p, Stages[i], request(s, i, ids, "retry", <<"context", "load">>))
  BY <1>4, <1>5, <1>6, <1>7
<1>8. CASE Begin(p, Stages[i], request(s, i, ids, "legacy", <<"token", "load">>))
  BY <1>4, <1>5, <1>6, <1>8
<1> QED BY <1>1, <1>7, <1>8

(* A batch ends, or goes on with other awaits.                             *)
Thence(p, t, fs) == Alters(p, fs) /\ proc'[p].todo = t
LEMMA ThenceMove ==
  ASSUME ProcInv, FlowInv, NEW p \in Handlers, NEW s \in RetryClan, At(p, s), NEW fs, "op" \notin fs,
         NEW t \in Seq(Kin("retry")), Ordered(t), Thence(p, t, fs)
  PROVE  Deed(p, "retry") /\ Ahead(p)' = Words(t)
<1>1. Alters(p, fs) /\ proc'[p].todo = t
  BY DEF Thence
<1>2. s \in OtherWords /\ Kind(s) = "retry" /\ "retry" \in Kinds
  BY RetryKin, KindsAre
<1>3. Deed(p, "retry")
  BY <1>1, <1>2, AltersMove
<1> QED BY <1>1, <1>3 DEF Ahead
LEMMA GoesThence ==
  ASSUME ProcInv, NEW p \in Handlers, Away(proc[p]), NEW t, proc' = Goes(p, t)
  PROVE  Thence(p, t, {"todo"})
<1>1. DOMAIN proc[p] = Fields
  BY DEF Away
<1>2. Only(p) /\ proc'[p] = [proc[p] EXCEPT !.todo = t]
  BY DEF ProcInv, Only, Goes
<1> QED BY <1>1, <1>2, TodoChanged DEF Thence, Alters
LEMMA RetryAt ==
  ASSUME ProcInv, FlowInv, NEW p \in Handlers, NEW s \in RetryClan, At(p, s)
  PROVE  /\ Away(proc[p]) /\ s \in Ahead(p) /\ \A w \in Ahead(p) : w = s \/ Comes(s, w)
         /\ proc[p].op \in {"retry", "legacy"}
<1>1. s \in OtherWords /\ Kind(s) = "retry" /\ "retry" \in Kinds
  BY RetryKin, KindsAre
<1>2. /\ Away(proc[p]) /\ proc[p].todo \in Seq(Kin("retry")) /\ Ordered(proc[p].todo) /\ proc[p].todo # <<>>
      /\ Head(proc[p].todo) = s /\ s \in Words(proc[p].todo) /\ proc[p].op \in Serving("retry")
  BY <1>1, AtKind DEF Clanned
<1> QED BY <1>2, OrderedTail, RetryOps DEF Ahead

BatchFields == {"of", "loaded", "told", "done", "gone", "after"}
Serves == {"next", "find mail", "call", "rewrite", "write lead"}
Doing(q) == \E w \in Serves : w \in Ahead(q)
(* The lead in hand.                                                       *)
Hand(q) == IF "next" \in Ahead(q) THEN {} ELSE {proc[q].who}
BatchOK(q) ==
  /\ proc[q].saw \in DOMAIN batches /\ ~Batch(q).done /\ proc[q].op \in {"retry", "legacy"}
  /\ Batch(q).loaded = Batch(q).told \cup proc[q].marks \cup Hand(q)
  /\ "next" \in Ahead(q) /\ Batch(q).after = 1 => Batch(q).told # {}
  /\ "call" \in Ahead(q) => Batch(q).after = 0
(* A mail that was found to be pending is, or was marked meanwhile.        *)
MailOK(q) == "rewrite" \in Ahead(q) /\ "find mail" \notin Ahead(q) =>
  proc[q].who \in DOMAIN mails /\ (Pending(proc[q].who) \/ proc[q].who \in clashes)
BatchRow(b) ==
  /\ DOMAIN b = BatchFields /\ b.done \in BOOLEAN /\ b.gone \in BOOLEAN /\ b.after \in {0, 1}
  /\ (b.done => b.told = b.loaded) /\ (~b.gone => b.after = 0)
BatchRows == (\E S : batches \in Seq(S)) /\ \A b \in DOMAIN batches : BatchRow(batches[b])
OneEach == \A p, q \in Handlers : p # q /\ Doing(p) /\ Doing(q) => proc[p].saw # proc[q].saw
MailSafe ==
  /\ \A l \in DOMAIN mails : DOMAIN mails[l] = {"status", "hook", "body"}
  /\ DOMAIN mailed = DOMAIN mails /\ DOMAIN sender = {"queue", "at"}
  /\ \A l \in DOMAIN sender.queue : Pending(l)
  /\ sender.at # 0 => sender.at \in DOMAIN sender.queue /\ mailed[sender.at] = sender.queue[sender.at]
  /\ SentAsRecorded
BookSafe == BatchRows /\ OneEach /\ MailSafe /\ \A q \in Handlers : Doing(q) => BatchOK(q) /\ MailOK(q)

(* One row of the batches changes.                                         *)
BatchPut(s) ==
  /\ \E S : batches' \in Seq(S)
  /\ DOMAIN batches' = DOMAIN batches /\ DOMAIN batches'[s] = BatchFields
  /\ \A b \in DOMAIN batches \ {s} : batches'[b] = batches[b]
  /\ batches'[s].of = batches[s].of /\ batches'[s].loaded = batches[s].loaded
LEMMA SeqPut ==
  ASSUME NEW f, NEW g, \E S : f \in Seq(S), DOMAIN g = DOMAIN f, g = [i \in DOMAIN f |-> g[i]],
         NEW s \in DOMAIN f, \A i \in DOMAIN f \ {s} : g[i] = f[i]
  PROVE  \E S : g \in Seq(S)
<1>1. PICK S : f \in Seq(S)
  OBVIOUS
<1> DEFINE T == S \cup {g[s]}
<1>2. DOMAIN f = 1..Len(f) /\ Len(f) \in Nat /\ \A i \in DOMAIN f : f[i] \in S
  BY <1>1
<1>3. \A i \in DOMAIN f : g[i] \in T
  BY <1>2
<1> HIDE DEF T
<1>4. g \in [1..Len(f) -> T]
  BY <1>2, <1>3
<1>5. g \in Seq(T)
  BY <1>2, <1>4
<1> QED BY <1>5
LEMMA RowPut ==
  ASSUME BatchRows, NEW s \in DOMAIN batches, NEW r, batches' = [batches EXCEPT ![s] = r], DOMAIN r = BatchFields,
         r.of = batches[s].of, r.loaded = batches[s].loaded
  PROVE  BatchPut(s) /\ batches'[s] = r
<1>1. batches'[s] = r /\ DOMAIN batches' = DOMAIN batches /\ \A b \in DOMAIN batches \ {s} : batches'[b] = batches[b]
  OBVIOUS
<1>2. batches' = [i \in DOMAIN batches |-> batches'[i]]
  OBVIOUS
<1>3. \E S : batches' \in Seq(S)
  BY <1>1, <1>2, SeqPut DEF BatchRows
<1> QED BY <1>1, <1>3 DEF BatchPut
LEMMA ToldPut ==
  ASSUME BatchRows, NEW p, proc[p].saw \in DOMAIN batches, NEW c, batches' = Told(p, c)
  PROVE  /\ BatchPut(proc[p].saw) /\ batches'[proc[p].saw].told = Batch(p).told \cup {proc[p].who}
         /\ batches'[proc[p].saw].after = Batch(p).after + c /\ batches'[proc[p].saw].done = Batch(p).done
         /\ batches'[proc[p].saw].gone = Batch(p).gone
<1> DEFINE s == proc[p].saw
           t == batches[s].told \cup {proc[p].who}
           a == batches[s].after + c
           r == [batches[s] EXCEPT !.told = t, !.after = a]
<1>1. DOMAIN batches[s] = BatchFields
  BY DEF BatchRows, BatchRow
<1>2. batches' = [batches EXCEPT ![s] = r]
  BY <1>1 DEF Told, BatchFields
<1>3. /\ DOMAIN r = BatchFields /\ r.told = t /\ r.after = a /\ r.done = batches[s].done /\ r.gone = batches[s].gone
      /\ r.of = batches[s].of /\ r.loaded = batches[s].loaded
  BY <1>1 DEF BatchFields
<1> HIDE DEF r
<1> QED BY <1>2, <1>3, RowPut DEF Batch
(* The call's cost alone.                                                  *)
LEMMA PaidPut ==
  ASSUME BatchRows, NEW p, proc[p].saw \in DOMAIN batches, NEW c, batches' = [batches EXCEPT ![proc[p].saw].after = @ + c]
  PROVE  /\ BatchPut(proc[p].saw) /\ batches'[proc[p].saw].told = Batch(p).told
         /\ batches'[proc[p].saw].after = Batch(p).after + c /\ batches'[proc[p].saw].done = Batch(p).done
         /\ batches'[proc[p].saw].gone = Batch(p).gone
<1> DEFINE s == proc[p].saw
           a == batches[s].after + c
           r == [batches[s] EXCEPT !.after = a]
<1>1. DOMAIN batches[s] = BatchFields
  BY DEF BatchRows, BatchRow
<1>2. batches' = [batches EXCEPT ![s] = r]
  BY <1>1 DEF BatchFields
<1>3. /\ DOMAIN r = BatchFields /\ r.told = batches[s].told /\ r.after = a /\ r.done = batches[s].done
      /\ r.gone = batches[s].gone /\ r.of = batches[s].of /\ r.loaded = batches[s].loaded
  BY <1>1 DEF BatchFields
<1> HIDE DEF r
<1> QED BY <1>2, <1>3, RowPut DEF Batch
LEMMA DonePut ==
  ASSUME BatchRows, NEW p, proc[p].saw \in DOMAIN batches, NEW w, batches' = [batches EXCEPT ![proc[p].saw].done = w]
  PROVE  /\ BatchPut(proc[p].saw) /\ batches'[proc[p].saw].told = Batch(p).told
         /\ batches'[proc[p].saw].after = Batch(p).after
         /\ batches'[proc[p].saw].done = w /\ batches'[proc[p].saw].gone = Batch(p).gone
<1> DEFINE s == proc[p].saw
           r == [batches[s] EXCEPT !.done = w]
<1>1. DOMAIN batches[s] = BatchFields
  BY DEF BatchRows, BatchRow
<1>2. batches' = [batches EXCEPT ![s] = r]
  BY <1>1 DEF BatchFields
<1>3. /\ DOMAIN r = BatchFields /\ r.told = batches[s].told /\ r.after = batches[s].after
      /\ r.done = w /\ r.gone = batches[s].gone /\ r.of = batches[s].of /\ r.loaded = batches[s].loaded
  BY <1>1 DEF BatchFields
<1> HIDE DEF r
<1> QED BY <1>2, <1>3, RowPut DEF Batch
LEMMA GonePut ==
  ASSUME BatchRows, NEW p, proc[p].saw \in DOMAIN batches, NEW w, batches' = [batches EXCEPT ![proc[p].saw].gone = w]
  PROVE  /\ BatchPut(proc[p].saw) /\ batches'[proc[p].saw].told = Batch(p).told
         /\ batches'[proc[p].saw].after = Batch(p).after
         /\ batches'[proc[p].saw].gone = w /\ batches'[proc[p].saw].done = Batch(p).done
<1> DEFINE s == proc[p].saw
           r == [batches[s] EXCEPT !.gone = w]
<1>1. DOMAIN batches[s] = BatchFields
  BY DEF BatchRows, BatchRow
<1>2. batches' = [batches EXCEPT ![s] = r]
  BY <1>1 DEF BatchFields
<1>3. /\ DOMAIN r = BatchFields /\ r.told = batches[s].told /\ r.after = batches[s].after
      /\ r.gone = w /\ r.done = batches[s].done /\ r.of = batches[s].of /\ r.loaded = batches[s].loaded
  BY <1>1 DEF BatchFields
<1> HIDE DEF r
<1> QED BY <1>2, <1>3, RowPut DEF Batch

LEMMA ServesIn == Serves \subseteq RetryClan /\ \A q : Doing(q) => Has(proc[q], "retry")
<1>1. Serves \subseteq RetryClan
  BY DEF Serves, RetryClan
<1> QED BY <1>1, RetryKind DEF Doing, Has, Ahead
LEMMA DoingNext == \A q : Doing(q)' => Has(proc'[q], "retry")
  BY ServesIn, RetryKind DEF Doing, Has, Ahead
LEMMA ServesAre ==
  /\ "next" \in Serves /\ "find mail" \in Serves /\ "call" \in Serves /\ "rewrite" \in Serves /\ "write lead" \in Serves
  /\ "load" \notin Serves
  BY DEF Serves

(* A batch nobody served goes on as it was.                                *)
LEMMA BatchSame ==
  ASSUME NEW q, Intact(q, "retry"), Doing(q)', BatchOK(q), MailOK(q),
         proc[q].saw \in DOMAIN batches', batches'[proc[q].saw] = batches[proc[q].saw],
         "rewrite" \in Ahead(q) /\ "find mail" \notin Ahead(q) /\ Pending(proc[q].who) =>
           Pending(proc[q].who)' \/ proc[q].who \in clashes',
         DOMAIN mails \subseteq DOMAIN mails', clashes \subseteq clashes'
  PROVE  BatchOK(q)' /\ MailOK(q)'
<1>1. /\ proc'[q].saw = proc[q].saw /\ proc'[q].op = proc[q].op /\ proc'[q].marks = proc[q].marks
      /\ proc'[q].who = proc[q].who
  BY AllFields DEF Intact
<1>2. \A w \in RetryClan : w \in Ahead(q)' <=> w \in Ahead(q)
  BY RetryKind DEF Intact
<1>3. /\ ("next" \in Ahead(q)' <=> "next" \in Ahead(q)) /\ ("call" \in Ahead(q)' <=> "call" \in Ahead(q))
      /\ ("rewrite" \in Ahead(q)' <=> "rewrite" \in Ahead(q)) /\ ("find mail" \in Ahead(q)' <=> "find mail" \in Ahead(q))
  BY <1>2, RetryIn
<1>4. Hand(q)' = Hand(q) /\ Batch(q)' = Batch(q)
  BY <1>1, <1>3 DEF Hand, Batch
<1>5. BatchOK(q)'
  BY <1>1, <1>3, <1>4 DEF BatchOK
<1>6. MailOK(q)'
  BY <1>1, <1>3 DEF MailOK
<1> QED BY <1>5, <1>6
LEMMA DoingSame == ASSUME NEW q, Intact(q, "retry"), Doing(q)' PROVE Doing(q) /\ proc'[q].saw = proc[q].saw
  BY ServesIn, RetryKind, AllFields DEF Doing, Intact
LEMMA MailStay == MailSafe /\ UNCHANGED <<mails, sender, mailed, clashes>> => MailSafe'
  BY DEF MailSafe, SentAsRecorded, Pending

(* Nothing was done to a batch or a mail.                                  *)
LEMMA BookRest ==
  ASSUME ProcInv, FlowInv, BookSafe, Beside("retry"), UNCHANGED <<mails, sender, mailed, clashes, batches>>
  PROVE  BookSafe'
<1>1. ASSUME NEW q \in Handlers, Doing(q)' PROVE Intact(q, "retry") /\ Doing(q) /\ proc'[q].saw = proc[q].saw
  <2>1. Intact(q, "retry")
    BY <1>1, DoingNext, KindsAre, BesideAlike
  <2> QED BY <1>1, <2>1, DoingSame
<1>2. ASSUME NEW q \in Handlers, Doing(q)' PROVE BatchOK(q)' /\ MailOK(q)'
  <2>1. Intact(q, "retry") /\ Doing(q)
    BY <1>1, <1>2
  <2>2. BatchOK(q) /\ MailOK(q) /\ proc[q].saw \in DOMAIN batches
    BY <2>1 DEF BookSafe, BatchOK
  <2>3. Pending(proc[q].who) => Pending(proc[q].who)' \/ proc[q].who \in clashes'
    <3>1. ASSUME NEW l PROVE Pending(l) => Pending(l)'
      BY DEF Pending
    <3>2. Intact(q, "retry") => proc'[q].who = proc[q].who
      BY AllFields DEF Intact
    <3> QED BY <2>1, <3>1, <3>2 DEF Pending
  <2> QED BY <1>2, <2>1, <2>2, <2>3, BatchSame
<1>3. OneEach'
  BY <1>1 DEF BookSafe, OneEach
<1>4. BatchRows'
  BY DEF BookSafe, BatchRows, BatchRow
<1>5. MailSafe'
  BY MailStay DEF BookSafe
<1> QED BY <1>2, <1>3, <1>4, <1>5 DEF BookSafe
(* A step of p, to batch s, and to the mails as far as the other batches   *)
(* bear it.                                                                *)
BatchStep(p, s) ==
  /\ \A q \in Handlers \ {p} : Doing(q) => proc[q].saw # s
  /\ BatchRows' /\ \A b \in DOMAIN batches \ {s} : b \in DOMAIN batches' /\ batches'[b] = batches[b]
  /\ Doing(p)' => proc'[p].saw = s /\ BatchOK(p)' /\ MailOK(p)'
MailsKept == DOMAIN mails \subseteq DOMAIN mails' /\ clashes \subseteq clashes' /\ \A l \in DOMAIN mails : mails[l].status = "pending" => mails'[l].status = "pending"
LEMMA BookMove ==
  ASSUME ProcInv, FlowInv, BookSafe, NEW p \in Handlers, Deed(p, "retry"), NEW s, BatchStep(p, s), MailsKept, MailSafe'
  PROVE  BookSafe'
<1>1. ASSUME NEW q \in Handlers \ {p}, Doing(q)'
      PROVE  Intact(q, "retry") /\ Doing(q) /\ proc'[q].saw = proc[q].saw /\ proc[q].saw # s /\ proc'[q].who = proc[q].who
  <2>1. Intact(q, "retry")
    BY <1>1, DoingNext, KindsAre, DeedAlike
  <2>2. Doing(q) /\ proc'[q].saw = proc[q].saw
    BY <1>1, <2>1, DoingSame
  <2> QED BY <2>1, <2>2, AllFields DEF BatchStep, Intact
<1>2. ASSUME NEW q \in Handlers, Doing(q)' PROVE BatchOK(q)' /\ MailOK(q)'
  <2>1. CASE q = p
    BY <1>2, <2>1 DEF BatchStep
  <2>2. CASE q # p
    <3>1. Intact(q, "retry") /\ Doing(q) /\ proc[q].saw # s /\ proc'[q].who = proc[q].who
      BY <1>1, <1>2, <2>2
    <3>2. BatchOK(q) /\ MailOK(q) /\ proc[q].saw \in DOMAIN batches
      BY <3>1 DEF BookSafe, BatchOK
    <3>3. Pending(proc[q].who) => Pending(proc[q].who)'
      BY <3>1 DEF Pending, MailsKept
    <3>4. proc[q].saw \in DOMAIN batches' /\ batches'[proc[q].saw] = batches[proc[q].saw]
      BY <3>1, <3>2 DEF BatchStep
    <3> QED BY <1>2, <3>1, <3>2, <3>3, <3>4, BatchSame DEF MailsKept
  <2> QED BY <2>1, <2>2
<1>3. OneEach'
  <2> SUFFICES ASSUME NEW a \in Handlers, NEW b \in Handlers, a # b, Doing(a)', Doing(b)' PROVE proc'[a].saw # proc'[b].saw
    BY DEF OneEach
  <2>1. CASE a # p /\ b # p
    BY <1>1, <2>1 DEF BookSafe, OneEach
  <2>2. CASE a = p \/ b = p
    BY <1>1, <2>2 DEF BatchStep
  <2> QED BY <2>1, <2>2
<1>4. BatchRows'
  BY DEF BatchStep
<1> QED BY <1>2, <1>3, <1>4 DEF BookSafe
LEMMA MailsStay == UNCHANGED <<mails, clashes>> => MailsKept
  BY DEF MailsKept
LEMMA BatchOf ==
  ASSUME BookSafe, NEW p \in Handlers, Doing(p)
  PROVE  /\ proc[p].saw \in DOMAIN batches /\ BatchRow(Batch(p)) /\ BatchRows /\ BatchOK(p) /\ MailOK(p)
         /\ \A q \in Handlers \ {p} : Doing(q) => proc[q].saw # proc[p].saw
  BY DEF BookSafe, BatchOK, BatchRows, Batch, OneEach
LEMMA PutRows ==
  ASSUME BatchRows, NEW s \in DOMAIN batches, BatchPut(s), BatchRow(batches'[s])
  PROVE  BatchRows' /\ \A b \in DOMAIN batches \ {s} : b \in DOMAIN batches' /\ batches'[b] = batches[b]
  BY DEF BatchRows, BatchPut, BatchRow

(* The batches stay those of their requests and leads, and tell of these.  *)
Rebooked ==
  /\ DOMAIN batches' = DOMAIN batches
  /\ \A b \in DOMAIN batches :
       /\ batches'[b].of = batches[b].of /\ batches'[b].loaded = batches[b].loaded
       /\ batches'[b].told \subseteq batches[b].told \cup batches[b].loaded
Retold(p) == Only(p) /\ "load" \notin Ahead(p)' /\ Rebooked
Loads(p) ==
  /\ Only(p) /\ "load" \in Ahead(p) /\ "load" \notin Ahead(p)' /\ calls' = calls
  /\ \E s : /\ DOMAIN batches' = DOMAIN batches \cup {s} /\ s \notin DOMAIN batches
            /\ \A b \in DOMAIN batches : batches'[b] = batches[b]
            /\ batches'[s].of = proc[p].no /\ batches'[s].told = {} /\ batches'[s].loaded \subseteq proc[p].marks
LEMMA PutRebooked ==
  ASSUME NEW s \in DOMAIN batches, BatchPut(s), batches'[s].told \subseteq batches[s].told \cup batches[s].loaded
  PROVE  Rebooked
  BY DEF BatchPut, Rebooked
LEMMA SameRebooked == batches' = batches => Rebooked
  BY DEF Rebooked
(* An await of its own served, a batch goes on to the next lead.           *)
LEMMA NextComes ==
  ASSUME ProcInv, FlowInv, BookSafe, NEW p \in Handlers, NEW s \in Serves, At(p, s), s # "next",
         NEW c \in {0, 1}, c = 1 => Batch(p).gone /\ Batch(p).after = 0,
         proc' = Goes(p, <<"next">>), batches' = Told(p, c)
  PROVE  Deed(p, "retry") /\ BatchStep(p, proc[p].saw) /\ Retold(p)
<1> DEFINE t == <<"next">>
<1>1. t \in Seq(Kin("retry")) /\ Ordered(t) /\ Words(t) = {"next"} /\ proc' = Goes(p, t)
  BY RetryPrograms
<1> HIDE DEF t
<1>2. s \in RetryClan
  BY ServesIn
<1>3. Away(proc[p]) /\ s \in Ahead(p) /\ proc[p].op \in {"retry", "legacy"} /\ \A w \in Ahead(p) : w = s \/ Comes(s, w)
  BY <1>2, RetryAt
<1>4. "next" \notin Ahead(p)
  <2>0. s \in {"find mail", "call", "rewrite", "write lead"}
    BY DEF Serves
  <2>1. ~Comes(s, "next")
    <3>1. ~Comes("find mail", "next") /\ ~Comes("call", "next")
      BY DEF Comes
    <3>2. ~Comes("rewrite", "next") /\ ~Comes("write lead", "next")
      BY RetryComes
    <3> QED BY <2>0, <3>1, <3>2
  <2> QED BY <1>3, <2>1
<1>5. Doing(p)
  BY <1>3 DEF Doing
<1>6. Thence(p, t, {"todo"})
  BY <1>1, <1>3, GoesThence
<1>7. Deed(p, "retry") /\ Ahead(p)' = {"next"}
  BY <1>1, <1>2, <1>6, ThenceMove
<1>8. proc'[p].saw = proc[p].saw /\ proc'[p].marks = proc[p].marks /\ proc'[p].op = proc[p].op
  BY <1>6, AllFields DEF Thence, Alters
<1> DEFINE b == proc[p].saw
<1>9. /\ b \in DOMAIN batches /\ BatchRow(Batch(p)) /\ BatchRows /\ BatchOK(p)
      /\ \A q \in Handlers \ {p} : Doing(q) => proc[q].saw # b
  BY <1>5, BatchOf
<1>10. /\ BatchPut(b) /\ batches'[b].told = Batch(p).told \cup {proc[p].who}
       /\ batches'[b].after = Batch(p).after + c /\ batches'[b].done = Batch(p).done
       /\ batches'[b].gone = Batch(p).gone
  BY <1>9, ToldPut
<1>11. Batch(p).loaded = Batch(p).told \cup proc[p].marks \cup {proc[p].who} /\ ~Batch(p).done
  BY <1>4, <1>9 DEF BatchOK, Hand
<1>12. batches'[b].after \in {0, 1} /\ (~batches'[b].gone => batches'[b].after = 0)
  BY <1>9, <1>10 DEF BatchRow
<1>13. DOMAIN batches'[b] = BatchFields /\ batches'[b].loaded = Batch(p).loaded /\ DOMAIN batches' = DOMAIN batches
  BY <1>10 DEF BatchPut, Batch
<1>14. BatchRow(batches'[b])
  BY <1>9, <1>10, <1>11, <1>12, <1>13 DEF BatchRow
<1>15. BatchRows' /\ \A x \in DOMAIN batches \ {b} : x \in DOMAIN batches' /\ batches'[x] = batches[x]
  BY <1>9, <1>10, <1>14, PutRows
<1>16. Batch(p)' = batches'[b]
  BY <1>8 DEF Batch
<1>17. BatchOK(p)' /\ MailOK(p)'
  <2>1. "next" \in Ahead(p)' /\ "call" \notin Ahead(p)' /\ "rewrite" \notin Ahead(p)'
    BY <1>7
  <2>2. Hand(p)' = {}
    BY <2>1 DEF Hand
  <2>3. Batch(p)'.loaded = Batch(p)'.told \cup proc'[p].marks \cup {} /\ Batch(p)'.told # {}
    BY <1>8, <1>10, <1>11, <1>13, <1>16
  <2>4. proc'[p].saw \in DOMAIN batches' /\ ~Batch(p)'.done /\ proc'[p].op \in {"retry", "legacy"}
    BY <1>3, <1>8, <1>9, <1>10, <1>11, <1>13, <1>16
  <2>5. BatchOK(p)'
    BY <2>1, <2>2, <2>3, <2>4 DEF BatchOK
  <2>6. MailOK(p)'
    BY <2>1 DEF MailOK
  <2> QED BY <2>5, <2>6
<1>18. Retold(p)
  <2>1. Rebooked
    BY <1>9, <1>10, <1>11, PutRebooked DEF Batch
  <2>2. Only(p)
    BY <1>6 DEF Thence, Alters
  <2> QED BY <1>7, <2>1, <2>2 DEF Retold
<1> QED BY <1>7, <1>8, <1>9, <1>15, <1>17, <1>18 DEF BatchStep

LEMMA RetryWorkMail ==
  ASSUME ProcInv, FlowInv, BookSafe, NEW p \in Handlers, FindMail(p)
  PROVE  BookSafe' /\ Deed(p, "retry") /\ Retold(p)
<1>1. At(p, "find mail") /\ "find mail" \in RetryClan /\ "find mail" \in Serves /\ "find mail" # "next"
  BY RetryIn, ServesAre DEF FindMail, MailFor
<1>2. UNCHANGED <<mails, sender, mailed, clashes>>
  BY DEF FindMail, MailFor
<1>3. MailsKept /\ MailSafe'
  BY <1>2, MailsStay, MailStay DEF BookSafe
<1>4. CASE Pending(proc[p].who) /\ proc' = Advance(p) /\ UNCHANGED batches
  <2>1. "find mail" \in OtherWords /\ Kind("find mail") = "retry" /\ "retry" \in Kinds
    BY <1>1, RetryKin, KindsAre
  <2>2. Deed(p, "retry") /\ Only(p) /\ (proc'[p] = Idle \/ (Alters(p, {"todo"}) /\ Passes(p, "find mail")))
    BY <1>1, <1>4, <2>1, TurnMove
  <2>3. "find mail" \in Ahead(p) /\ proc[p].op \in {"retry", "legacy"} /\ \A w \in Ahead(p) : w = "find mail" \/ Comes("find mail", w)
    BY <1>1, RetryAt
  <2>4. Doing(p)
    BY <1>1, <2>3 DEF Doing
  <2>5. /\ proc[p].saw \in DOMAIN batches /\ BatchRows /\ BatchOK(p)
        /\ \A q \in Handlers \ {p} : Doing(q) => proc[q].saw # proc[p].saw
    BY <2>4, BatchOf
  <2>6. "next" \notin Ahead(p)
    <3>1. ~Comes("find mail", "next")
      BY DEF Comes
    <3> QED BY <2>3, <3>1
  <2>7. ASSUME Doing(p)' PROVE proc'[p].saw = proc[p].saw /\ BatchOK(p)' /\ MailOK(p)'
    <3>1. Alters(p, {"todo"}) /\ Passes(p, "find mail")
      <4>1. proc'[p] # Idle
        BY <2>7, DoingNext, IdleHas, KindsAre
      <4> QED BY <2>2, <4>1
    <3>2. /\ proc'[p].saw = proc[p].saw /\ proc'[p].marks = proc[p].marks /\ proc'[p].op = proc[p].op
          /\ proc'[p].who = proc[p].who
      BY <3>1, AllFields DEF Alters
    <3>3. Batch(p)' = Batch(p)
      BY <1>4, <3>2 DEF Batch
    <3>4. "next" \notin Ahead(p)' /\ ("call" \in Ahead(p)' => "call" \in Ahead(p))
      BY <2>6, <3>1 DEF Passes
    <3>5. Hand(p)' = Hand(p)
      BY <2>6, <3>2, <3>4 DEF Hand
    <3>6. BatchOK(p)'
      BY <1>4, <2>5, <3>2, <3>3, <3>4, <3>5 DEF BatchOK
    <3>7. MailOK(p)'
      <4>1. proc[p].who \in DOMAIN mails' /\ Pending(proc[p].who)'
        BY <1>2, <1>4, <3>2 DEF Pending
      <4> QED BY <3>2, <4>1 DEF MailOK, Pending
    <3> QED BY <3>2, <3>6, <3>7
  <2>8. BatchRows'
    BY <1>4, <2>5 DEF BatchRows, BatchRow
  <2>9. BatchStep(p, proc[p].saw)
    BY <1>4, <2>5, <2>7, <2>8 DEF BatchStep
  <2>10. "load" \notin Ahead(p)'
    <3>1. "load" \in Ahead(p)' => proc'[p] # Idle
      BY OrderedShort DEF Ahead, Idle
    <3>2. ~Comes("find mail", "load")
      BY DEF Comes
    <3> QED BY <2>2, <3>1, <3>2 DEF Passes
  <2>11. Retold(p)
    BY <1>4, <2>2, <2>10, SameRebooked DEF Retold
  <2> QED BY <1>3, <2>2, <2>9, <2>11, BookMove
<1>5. CASE Fail(p, 0)
  <2>1. proc' = Goes(p, <<"next">>) /\ batches' = Told(p, 0)
    BY <1>5 DEF Fail
  <2> DEFINE c == 0
  <2>0. c \in {0, 1} /\ c # 1 /\ batches' = Told(p, c)
    BY <2>1
  <2> HIDE DEF c
  <2>2. Deed(p, "retry") /\ BatchStep(p, proc[p].saw) /\ Retold(p)
    BY <1>1, <2>0, <2>1, NextComes, ZenonT(40)
  <2> QED BY <1>3, <2>2, BookMove
<1> QED BY <1>4, <1>5 DEF FindMail, MailFor
LEMMA RetryWorkCall ==
  ASSUME ProcInv, FlowInv, BookSafe, NEW p \in Handlers, CallModel(p)
  PROVE  BookSafe' /\ Deed(p, "retry") /\ Retold(p)
<1> DEFINE c == IF Batch(p).gone THEN 1 ELSE 0
<1>1. At(p, "call") /\ "call" \in RetryClan /\ "call" \in Serves /\ "call" # "next"
  BY RetryIn, ServesAre DEF CallModel
<1>2. UNCHANGED <<mails, sender, mailed, clashes>>
  BY DEF CallModel
<1>3. MailsKept /\ MailSafe'
  BY <1>2, MailsStay, MailStay DEF BookSafe
<1>4. "call" \in Ahead(p) /\ proc[p].op \in {"retry", "legacy"} /\ \A w \in Ahead(p) : w = "call" \/ Comes("call", w)
  BY <1>1, RetryAt
<1>5. Doing(p)
  BY <1>1, <1>4 DEF Doing
<1>6. /\ proc[p].saw \in DOMAIN batches /\ BatchRow(Batch(p)) /\ BatchRows /\ BatchOK(p) /\ MailOK(p)
      /\ \A q \in Handlers \ {p} : Doing(q) => proc[q].saw # proc[p].saw
  BY <1>5, BatchOf
<1>7. Batch(p).after = 0 /\ c \in {0, 1} /\ (c = 1 => Batch(p).gone)
  BY <1>4, <1>6 DEF BatchOK, BatchRow
<1>8. \/ batches' = [batches EXCEPT ![proc[p].saw].after = @ + c] /\ proc' = Advance(p)
      \/ proc' = Goes(p, <<"next">>) /\ batches' = Told(p, c)
  BY DEF CallModel, Fail
<1> HIDE DEF c
<1>9. CASE proc' = Goes(p, <<"next">>) /\ batches' = Told(p, c)
  <2>1. Deed(p, "retry") /\ BatchStep(p, proc[p].saw) /\ Retold(p)
    BY <1>1, <1>7, <1>9, NextComes
  <2> QED BY <1>3, <2>1, BookMove
<1>10. CASE batches' = [batches EXCEPT ![proc[p].saw].after = @ + c] /\ proc' = Advance(p)
  <2>1. "call" \in OtherWords /\ Kind("call") = "retry" /\ "retry" \in Kinds
    BY <1>1, RetryKin, KindsAre
  <2>2. Deed(p, "retry") /\ Only(p) /\ (proc'[p] = Idle \/ (Alters(p, {"todo"}) /\ Passes(p, "call")))
    BY <1>1, <1>10, <2>1, TurnMove
  <2> DEFINE b == proc[p].saw
  <2>3. /\ BatchPut(b) /\ batches'[b].told = Batch(p).told
        /\ batches'[b].after = Batch(p).after + c /\ batches'[b].done = Batch(p).done
        /\ batches'[b].gone = Batch(p).gone
    BY <1>6, <1>10, PaidPut
  <2>4. DOMAIN batches'[b] = BatchFields /\ batches'[b].loaded = Batch(p).loaded /\ DOMAIN batches' = DOMAIN batches
    BY <2>3 DEF BatchPut, Batch
  <2>5. batches'[b].after \in {0, 1} /\ (~batches'[b].gone => batches'[b].after = 0)
    BY <1>7, <2>3
  <2>6. BatchRow(batches'[b])
    BY <1>6, <2>3, <2>4, <2>5 DEF BatchRow
  <2>7. BatchRows' /\ \A x \in DOMAIN batches \ {b} : x \in DOMAIN batches' /\ batches'[x] = batches[x]
    BY <1>6, <2>3, <2>6, PutRows
  <2>8. "next" \notin Ahead(p) /\ "find mail" \notin Ahead(p)
    <3>1. ~Comes("call", "next") /\ ~Comes("call", "find mail")
      BY DEF Comes
    <3> QED BY <1>4, <3>1
  <2>9. ASSUME Doing(p)' PROVE proc'[p].saw = proc[p].saw /\ BatchOK(p)' /\ MailOK(p)'
    <3>1. Alters(p, {"todo"}) /\ Passes(p, "call")
      <4>1. proc'[p] # Idle
        BY <2>9, DoingNext, IdleHas, KindsAre
      <4> QED BY <2>2, <4>1
    <3>2. /\ proc'[p].saw = proc[p].saw /\ proc'[p].marks = proc[p].marks /\ proc'[p].op = proc[p].op
          /\ proc'[p].who = proc[p].who
      BY <3>1, AllFields DEF Alters
    <3>3. Batch(p)' = batches'[b]
      BY <3>2 DEF Batch
    <3>4. "next" \notin Ahead(p)' /\ "call" \notin Ahead(p)' /\ ("rewrite" \in Ahead(p)' => "rewrite" \in Ahead(p))
      <4>1. ~Comes("call", "call")
        BY RetryComes
      <4> QED BY <2>8, <3>1, <4>1 DEF Passes
    <3>5. Hand(p)' = Hand(p)
      BY <2>8, <3>2, <3>4 DEF Hand
    <3>6. BatchOK(p)'
      BY <1>6, <2>3, <2>4, <3>2, <3>3, <3>4, <3>5 DEF BatchOK
    <3>7. MailOK(p)'
      BY <1>2, <1>6, <2>8, <3>2, <3>4 DEF MailOK, Pending
    <3> QED BY <3>2, <3>6, <3>7
  <2>10. BatchStep(p, proc[p].saw)
    BY <1>6, <2>7, <2>9 DEF BatchStep
  <2>11. "load" \notin Ahead(p)'
    <3>1. "load" \in Ahead(p)' => proc'[p] # Idle
      BY OrderedShort DEF Ahead, Idle
    <3>2. ~Comes("call", "load")
      BY DEF Comes
    <3> QED BY <2>2, <3>1, <3>2 DEF Passes
  <2>12. Rebooked
    BY <1>6, <2>3, PutRebooked DEF Batch
  <2>13. Retold(p)
    BY <2>2, <2>11, <2>12 DEF Retold
  <2> QED BY <1>3, <2>2, <2>10, <2>13, BookMove
<1> QED BY <1>8, <1>9, <1>10

LEMMA RetryWorkLead ==
  ASSUME ProcInv, FlowInv, BookSafe, NEW p \in Handlers, WriteLead(p)
  PROVE  BookSafe' /\ Deed(p, "retry") /\ Retold(p)
<1>1. At(p, "write lead") /\ "write lead" \in RetryClan /\ "write lead" \in Serves /\ "write lead" # "next"
  BY RetryIn, ServesAre DEF WriteLead
<1>2. UNCHANGED <<mails, sender, mailed, clashes>>
  BY DEF WriteLead
<1>3. MailsKept /\ MailSafe'
  BY <1>2, MailsStay, MailStay DEF BookSafe
<1> DEFINE c == 0
<1>6. c \in {0, 1} /\ c # 1
  OBVIOUS
<1>7. proc' = Goes(p, <<"next">>) /\ batches' = Told(p, c)
  BY Zenon DEF WriteLead, Tell
<1>4. c \in {0, 1} /\ c # 1 /\ proc' = Goes(p, <<"next">>) /\ batches' = Told(p, c)
  BY <1>6, <1>7
<1> HIDE DEF c
<1>5. Deed(p, "retry") /\ BatchStep(p, proc[p].saw) /\ Retold(p)
  BY <1>1, <1>4, NextComes, ZenonT(40)
<1> QED BY <1>3, <1>5, BookMove
LEMMA MailWritten ==
  ASSUME MailSafe, NEW l \in DOMAIN mails, Pending(l) \/ l \in clashes, UNCHANGED <<sender, mailed, clashes>>,
         NEW row, mails' = [mails EXCEPT ![l] = row], DOMAIN row = {"status", "hook", "body"}, row.status = mails[l].status
  PROVE  MailsKept /\ MailSafe'
<1>1. /\ DOMAIN mails' = DOMAIN mails /\ mails'[l] = row /\ \A k \in DOMAIN mails \ {l} : mails'[k] = mails[k]
  OBVIOUS
<1>2. \A k \in DOMAIN mails : mails'[k].status = mails[k].status
  BY <1>1
<1>3. MailsKept
  BY <1>1, <1>2 DEF MailsKept
<1>4. \A k : Pending(k)' <=> Pending(k)
  BY <1>1, <1>2 DEF Pending
<1>5. SentAsRecorded'
  <2> SUFFICES ASSUME NEW k \in DOMAIN mails, mails'[k].status = "sent" PROVE mails'[k].body = mailed[k] \/ k \in clashes
    BY <1>1 DEF SentAsRecorded
  <2>1. CASE k = l
    <3>1. ~Pending(l)
      BY <1>2, <2>1 DEF Pending
    <3> QED BY <2>1, <3>1
  <2>2. CASE k # l
    BY <1>1, <2>2 DEF MailSafe, SentAsRecorded
  <2> QED BY <2>1, <2>2
<1>6. \A k \in DOMAIN mails : DOMAIN mails'[k] = {"status", "hook", "body"}
  BY <1>1 DEF MailSafe
<1> QED BY <1>1, <1>3, <1>4, <1>5, <1>6 DEF MailSafe
LEMMA RetryWorkRewrite ==
  ASSUME ProcInv, FlowInv, BookSafe, NEW p \in Handlers, Rewrite(p)
  PROVE  BookSafe' /\ Deed(p, "retry") /\ Retold(p)
<1>1. At(p, "rewrite") /\ "rewrite" \in RetryClan /\ "rewrite" \in Serves /\ "rewrite" # "next"
  BY RetryIn, ServesAre DEF Rewrite
<1>2. UNCHANGED <<sender, mailed, clashes>>
  BY DEF Rewrite
<1> DEFINE c == 0
<1>3. c \in {0, 1} /\ c # 1 /\ proc' = Goes(p, <<"next">>) /\ batches' = Told(p, c)
  BY DEF Rewrite, Tell
<1> HIDE DEF c
<1>4. Deed(p, "retry") /\ BatchStep(p, proc[p].saw) /\ Retold(p)
  BY <1>1, <1>3, NextComes, ZenonT(40)
<1>5. "rewrite" \in Ahead(p) /\ "find mail" \notin Ahead(p)
  <2>1. "rewrite" \in Ahead(p) /\ \A w \in Ahead(p) : w = "rewrite" \/ Comes("rewrite", w)
    BY <1>1, RetryAt
  <2>2. ~Comes("rewrite", "find mail")
    BY DEF Comes
  <2> QED BY <2>1, <2>2
<1>6. Doing(p)
  BY <1>1, <1>5 DEF Doing
<1>7. MailOK(p)
  BY <1>6, BatchOf
<1> DEFINE l == proc[p].who
           n == proc[p].no
           row == IF Stage(p) = "regen_hook" THEN [mails[l] EXCEPT !.hook = n] ELSE [mails[l] EXCEPT !.body = n]
<1>8. l \in DOMAIN mails /\ (Pending(l) \/ l \in clashes)
  BY <1>5, <1>7 DEF MailOK
<1>9. MailSafe
  BY DEF BookSafe
<1>10. DOMAIN row = {"status", "hook", "body"} /\ row.status = mails[l].status
  <2>1. DOMAIN mails[l] = {"status", "hook", "body"}
    BY <1>8, <1>9 DEF MailSafe
  <2> QED BY <2>1
<1>11. mails' = [mails EXCEPT ![l] = row]
  BY DEF Rewrite
<1> HIDE DEF l, row
<1>12. MailsKept /\ MailSafe'
  BY <1>2, <1>8, <1>9, <1>10, <1>11, MailWritten
<1> QED BY <1>4, <1>12, BookMove

(* The next lead, or the end of the batch.                                 *)
LEMMA RetryWorkNext ==
  ASSUME ProcInv, FlowInv, BookSafe, NEW p \in Handlers, NextLead(p)
  PROVE  BookSafe' /\ Deed(p, "retry") /\ Retold(p)
<1>1. At(p, "next") /\ "next" \in RetryClan /\ "next" \in Serves
  BY RetryIn, ServesAre DEF NextLead, NextOf
<1>2. UNCHANGED <<mails, sender, mailed, clashes>>
  BY DEF NextLead, NextOf
<1>3. MailsKept /\ MailSafe'
  BY <1>2, MailsStay, MailStay DEF BookSafe
<1>4. Away(proc[p]) /\ "next" \in Ahead(p) /\ proc[p].op \in {"retry", "legacy"}
  BY <1>1, RetryAt
<1>5. Doing(p)
  BY <1>1, <1>4 DEF Doing
<1> DEFINE b == proc[p].saw
<1>6. /\ b \in DOMAIN batches /\ BatchRow(Batch(p)) /\ BatchRows /\ BatchOK(p) /\ MailOK(p)
      /\ \A q \in Handlers \ {p} : Doing(q) => proc[q].saw # b
  BY <1>5, BatchOf
<1>7. Batch(p).loaded = Batch(p).told \cup proc[p].marks /\ ~Batch(p).done
  BY <1>4, <1>6 DEF BatchOK, Hand
<1>8. CASE (proc[p].marks = {} \/ Stops(p)) /\ Finished(p)
  <2>1. proc' = Ended(p) /\ batches' = [batches EXCEPT ![proc[p].saw].done = ~Batch(p).gone]
    BY <1>8 DEF Finished
  <2>2. "next" \in OtherWords /\ Kind("next") = "retry" /\ "retry" \in Kinds
    BY <1>1, RetryKin, KindsAre
  <2>3. Deed(p, "retry")
    BY <1>1, <2>1, <2>2, GoneMove
  <2>4. proc'[p] = Idle
    BY <2>1 DEF ProcInv, Ended
  <2>5. ~Doing(p)'
    BY <2>4, DoingNext, IdleHas, KindsAre
  <2> DEFINE e == ~Batch(p).gone
  <2>6. batches' = [batches EXCEPT ![proc[p].saw].done = e]
    BY <2>1
  <2> HIDE DEF e
  <2>7. /\ BatchPut(b) /\ batches'[b].told = Batch(p).told /\ batches'[b].after = Batch(p).after
        /\ batches'[b].done = e /\ batches'[b].gone = Batch(p).gone
    BY <1>6, <2>6, DonePut
  <2>8. e => Batch(p).told = Batch(p).loaded
    <3>1. ~Stops(p) \/ Batch(p).gone
      BY DEF Stops
    <3> QED BY <1>7, <1>8, <3>1 DEF e
  <2>9. BatchRow(batches'[b])
    <3>1. DOMAIN batches'[b] = BatchFields /\ batches'[b].loaded = Batch(p).loaded
      BY <2>7 DEF BatchPut, Batch
    <3>2. e \in BOOLEAN
      BY DEF e
    <3> QED BY <1>6, <2>7, <2>8, <3>1, <3>2 DEF BatchRow
  <2>10. BatchRows' /\ \A x \in DOMAIN batches \ {b} : x \in DOMAIN batches' /\ batches'[x] = batches[x]
    BY <1>6, <2>7, <2>9, PutRows
  <2>11. BatchStep(p, b)
    BY <1>6, <2>5, <2>10 DEF BatchStep
  <2>12. "load" \notin Ahead(p)' /\ Only(p)
    <3>1. Only(p)
      BY <2>1 DEF Ended, ProcInv, Only
    <3> QED BY <2>4, <3>1, OrderedShort DEF Ahead, Idle
  <2>13. Rebooked
    BY <1>6, <2>7, PutRebooked DEF Batch
  <2>14. Retold(p)
    BY <2>12, <2>13 DEF Retold
  <2> QED BY <1>3, <2>3, <2>11, <2>14, BookMove
<1>9. CASE /\ proc[p].marks # {} /\ ~Stops(p) /\ UNCHANGED batches
           /\ \E l \in proc[p].marks :
                proc' = [proc EXCEPT ![p].who = l, ![p].marks = @ \ {l}, ![p].todo =
                  IF Regenerates(p) THEN <<"find mail", "call", "rewrite">> ELSE <<"call", "write lead">>]
  <2> DEFINE t == IF Regenerates(p) THEN <<"find mail", "call", "rewrite">> ELSE <<"call", "write lead">>
  <2>1. PICK l \in proc[p].marks : proc' = [proc EXCEPT ![p].who = l, ![p].marks = @ \ {l}, ![p].todo = t]
    BY <1>9
  <2>2. t \in Seq(Kin("retry")) /\ Ordered(t)
    BY RetryPrograms
  <2>3. "next" \notin Words(t) /\ "load" \notin Words(t) /\ "call" \in Words(t) /\ ("rewrite" \in Words(t) => "find mail" \in Words(t))
    <3>1. CASE Regenerates(p)
      <4>1. t = <<"find mail", "call", "rewrite">>
        BY <3>1
      <4>2. Words(t) = {"find mail", "call", "rewrite"}
        BY <4>1, RetryPrograms
      <4> QED BY <4>2
    <3>2. CASE ~Regenerates(p)
      <4>1. t = <<"call", "write lead">>
        BY <3>2
      <4>2. Words(t) = {"call", "write lead"}
        BY <4>1, RetryPrograms
      <4> QED BY <4>2
    <3> QED BY <3>1, <3>2
  <2> HIDE DEF t
  <2>4. \A z, x, y : proc' = [proc EXCEPT ![p].who = x, ![p].marks = y, ![p].todo = z] =>
          Alters(p, {"todo", "marks", "who"}) /\ proc'[p].todo = z /\ proc'[p].who = x /\ proc'[p].marks = y
    BY <1>4, SetWho, ZenonT(40)
  <2> DEFINE y == proc[p].marks \ {l}
  <2>5. proc' = [proc EXCEPT ![p].who = l, ![p].marks = y, ![p].todo = t]
    BY <2>1
  <2>6. Alters(p, {"todo", "marks", "who"}) /\ proc'[p].todo = t /\ proc'[p].who = l /\ proc'[p].marks = y
    BY <2>4, <2>5, Zenon
  <2>7. Thence(p, t, {"todo", "marks", "who"})
    BY <2>6 DEF Thence
  <2>8. Deed(p, "retry") /\ Ahead(p)' = Words(t)
    <3> DEFINE fs == {"todo", "marks", "who"}
    <3>1. "op" \notin fs /\ Thence(p, t, fs)
      BY <2>7
    <3> HIDE DEF fs
    <3> QED BY <1>1, <2>2, <3>1, ThenceMove
  <2>9. proc'[p].saw = b /\ proc'[p].op = proc[p].op
    BY <2>6, AllFields DEF Alters
  <2>10. Batch(p)' = Batch(p)
    BY <1>9, <2>9 DEF Batch
  <2>11. Batch(p).after = 0
    <3>1. Batch(p).after \in {0, 1} /\ (~Batch(p).gone => Batch(p).after = 0)
      BY <1>6 DEF BatchRow
    <3>2. Batch(p).after = 1 => Batch(p).told # {}
      BY <1>4, <1>6 DEF BatchOK
    <3> QED BY <1>9, <3>1, <3>2 DEF Stops
  <2>12. BatchOK(p)'
    <3>1. "next" \notin Ahead(p)'
      BY <2>3, <2>8
    <3>2. Hand(p)' = {l}
      BY <2>6, <3>1 DEF Hand
    <3>3. Batch(p)'.loaded = Batch(p)'.told \cup proc'[p].marks \cup {l}
      BY <1>7, <2>6, <2>10
    <3> QED BY <1>4, <1>6, <1>7, <1>9, <2>9, <2>10, <2>11, <3>1, <3>2, <3>3 DEF BatchOK
  <2>13. MailOK(p)'
    BY <2>3, <2>8 DEF MailOK
  <2>14. BatchRows'
    BY <1>6, <1>9 DEF BatchRows, BatchRow
  <2>15. BatchStep(p, b)
    BY <1>6, <1>9, <2>9, <2>12, <2>13, <2>14 DEF BatchStep
  <2>16. Retold(p)
    <3>1. Only(p)
      BY <2>6 DEF Alters
    <3>2. Rebooked
      BY <1>9, SameRebooked
    <3> QED BY <2>3, <2>8, <3>1, <3>2 DEF Retold
  <2> QED BY <1>3, <2>8, <2>15, <2>16, BookMove
<1> QED BY <1>8, <1>9 DEF NextLead, NextOf

(* A batch begins.                                                         *)
LEMMA RetryWorkLoad ==
  ASSUME ProcInv, FlowInv, BookSafe, NEW p \in Handlers, Load(p)
  PROVE  BookSafe' /\ Deed(p, "retry") /\ Loads(p)
<1> DEFINE found == {l \in proc[p].marks : Sees(p, [org |-> 1])}
           n == proc[p].no
           row == [of |-> n, loaded |-> found, told |-> {}, done |-> FALSE, gone |-> FALSE, after |-> 0]
           s == Len(batches) + 1
           t == <<"next">>
<1>1. At(p, "load") /\ "load" \in RetryClan
  BY RetryIn DEF Load
<1>2. /\ batches' = Append(batches, row) /\ proc' = [proc EXCEPT ![p].todo = t, ![p].marks = found, ![p].saw = s]
      /\ UNCHANGED <<mails, sender, mailed, clashes>>
  BY DEF Load
<1>3. MailsKept /\ MailSafe'
  BY <1>2, MailsStay, MailStay DEF BookSafe
<1>4. t \in Seq(Kin("retry")) /\ Ordered(t) /\ Words(t) = {"next"}
  BY RetryPrograms
<1>5. Away(proc[p]) /\ proc[p].op \in {"retry", "legacy"}
  BY <1>1, RetryAt
<1>6. row.of = n /\ BatchRow(row) /\ row.told = {} /\ row.loaded = found /\ ~row.done /\ row.after = 0
  BY DEF BatchRow, BatchFields
<1>0. found \subseteq proc[p].marks /\ calls' = calls
  BY DEF Load, Going
<1> HIDE DEF found, row, t
<1>7. PICK S : batches \in Seq(S)
  BY DEF BookSafe, BatchRows
<1>8. DOMAIN batches = 1..Len(batches) /\ Len(batches) \in Nat
  BY <1>7
<1>9. /\ DOMAIN batches' = 1..s /\ batches'[s] = row /\ \A b \in DOMAIN batches : batches'[b] = batches[b]
      /\ s \notin DOMAIN batches /\ s \in DOMAIN batches' /\ \E T : batches' \in Seq(T)
      /\ \A b \in DOMAIN batches : b \in DOMAIN batches'
  <2> DEFINE T == S \cup {row}
  <2>1. batches \in Seq(T) /\ row \in T
    BY <1>7, <1>8
  <2> HIDE DEF T
  <2>2. batches' \in Seq(T)
    BY <1>2, <2>1
  <2>3. DOMAIN batches' = 1..s /\ batches'[s] = row /\ \A b \in DOMAIN batches : batches'[b] = batches[b]
    BY <1>2, <1>8, <2>1
  <2>4. s \notin DOMAIN batches /\ s \in 1..s /\ \A b \in DOMAIN batches : b \in 1..s
    BY <1>8
  <2> QED BY <2>2, <2>3, <2>4
<1> HIDE DEF s
<1>10. /\ Alters(p, {"todo", "marks", "saw"}) /\ proc'[p].todo = t /\ proc'[p].marks = found /\ proc'[p].saw = s
  <2>1. \A x, y, z : proc' = [proc EXCEPT ![p].todo = x, ![p].marks = y, ![p].saw = z] =>
          Alters(p, {"todo", "marks", "saw"}) /\ proc'[p].todo = x /\ proc'[p].marks = y /\ proc'[p].saw = z
    BY <1>5, SetMarksSaw
  <2> QED BY <1>2, <2>1, Zenon
<1>11. Deed(p, "retry") /\ Ahead(p)' = {"next"}
  <2> DEFINE fs == {"todo", "marks", "saw"}
  <2>1. "op" \notin fs /\ Thence(p, t, fs)
    BY <1>10 DEF Thence
  <2> HIDE DEF fs
  <2> QED BY <1>1, <1>4, <2>1, ThenceMove
<1>12. proc'[p].op = proc[p].op
  BY <1>10, AllFields DEF Alters
<1>13. BatchRows'
  <2>1. \A b \in DOMAIN batches' : b = s \/ b \in DOMAIN batches
    BY <1>8, <1>9 DEF s
  <2>2. \A b \in DOMAIN batches' : BatchRow(batches'[b])
    BY <1>6, <1>9, <2>1 DEF BookSafe, BatchRows
  <2> QED BY <1>9, <2>2 DEF BatchRows, BatchRow
<1>14. BatchOK(p)' /\ MailOK(p)'
  <2>1. "next" \in Ahead(p)' /\ "call" \notin Ahead(p)' /\ "rewrite" \notin Ahead(p)'
    BY <1>11
  <2>2. Hand(p)' = {} /\ Batch(p)' = row
    BY <1>9, <1>10, <2>1 DEF Hand, Batch
  <2>3. Batch(p)'.loaded = Batch(p)'.told \cup proc'[p].marks \cup {} /\ Batch(p)'.after # 1
    BY <1>6, <1>10, <2>2
  <2>4. BatchOK(p)'
    BY <1>5, <1>6, <1>9, <1>10, <1>12, <2>1, <2>2, <2>3 DEF BatchOK
  <2> QED BY <2>1, <2>4 DEF MailOK
<1>15. \A q \in Handlers \ {p} : Doing(q) => proc[q].saw # s
  BY <1>9 DEF BookSafe, BatchOK
<1>16. BatchStep(p, s)
  BY <1>9, <1>10, <1>13, <1>14, <1>15 DEF BatchStep
<1>17. DOMAIN batches' = DOMAIN batches \cup {s}
  BY <1>8, <1>9 DEF s
<1>18. "load" \in Ahead(p) /\ "load" \notin Ahead(p)' /\ Only(p)
  <2>1. "load" \in Ahead(p)
    BY <1>1, RetryAt
  <2> QED BY <1>10, <1>11, <2>1 DEF Alters
<1>19. Loads(p)
  <2>1. batches'[s].of = proc[p].no /\ batches'[s].told = {} /\ batches'[s].loaded \subseteq proc[p].marks
    BY <1>0, <1>6, <1>9
  <2> QED BY <1>0, <1>9, <1>17, <1>18, <2>1 DEF Loads
<1> QED BY <1>3, <1>11, <1>16, <1>19, BookMove

(* The stream of a batch is closed; its server is where it was.            *)
LEMMA ProcStays == ProcInv /\ proc' = proc => \A q \in Handlers : \A k \in Kinds : Has(proc'[q], k) => Intact(q, k)
<1> SUFFICES ASSUME ProcInv, proc' = proc, NEW q \in Handlers, NEW k \in Kinds, Has(proc'[q], k) PROVE Intact(q, k)
  OBVIOUS
<1>1. Away(proc[q])
  BY InsideHas DEF ProcInv
<1> QED BY <1>1 DEF Intact, Away, Ahead
LEMMA CloseSafe ==
  ASSUME ProcInv, FlowInv, BookSafe, NEW p \in Handlers, Close(p)
  PROVE  BookSafe' /\ proc' = proc /\ Rebooked
<1> DEFINE b == proc[p].saw
           v == TRUE
<1>1. proc' = proc /\ UNCHANGED <<mails, sender, mailed, clashes>> /\ InBatch(p) /\ batches' = [batches EXCEPT ![proc[p].saw].gone = v]
  BY DEF Close, requests
<1>2. Doing(p)
  <2>1. \E w \in {"next", "call", "write lead", "rewrite"} : w \in Ahead(p)
    BY <1>1, AwaitsIs DEF InBatch
  <2> QED BY <2>1, ServesAre DEF Doing
<1>3. /\ b \in DOMAIN batches /\ BatchRow(Batch(p)) /\ BatchRows /\ BatchOK(p)
  BY <1>2, BatchOf
<1>4. v = TRUE
  OBVIOUS
<1> HIDE DEF v
<1>5. /\ BatchPut(b) /\ batches'[b].told = Batch(p).told /\ batches'[b].after = Batch(p).after
      /\ batches'[b].gone = v /\ batches'[b].done = Batch(p).done
  BY <1>1, <1>3, GonePut
<1>6. DOMAIN batches'[b] = BatchFields /\ batches'[b].loaded = Batch(p).loaded /\ DOMAIN batches' = DOMAIN batches
  BY <1>5 DEF BatchPut, Batch
<1>7. BatchRow(batches'[b])
  BY <1>3, <1>4, <1>5, <1>6 DEF BatchRow
<1>8. BatchRows' /\ \A x \in DOMAIN batches \ {b} : batches'[x] = batches[x]
  BY <1>3, <1>5, <1>7, PutRows
<1>9. MailSafe' /\ MailsKept
  BY <1>1, MailStay, MailsStay DEF BookSafe
<1>10. OneEach'
  BY <1>1 DEF BookSafe, OneEach, Doing, Ahead
<1>11. ASSUME NEW q \in Handlers, Doing(q)' PROVE BatchOK(q)' /\ MailOK(q)'
  <2>1. Doing(q) /\ Ahead(q)' = Ahead(q) /\ proc'[q] = proc[q]
    BY <1>1, <1>11 DEF Doing, Ahead
  <2>2. BatchOK(q) /\ MailOK(q)
    BY <2>1 DEF BookSafe
  <2>3. MailOK(q)'
    BY <1>1, <2>1, <2>2 DEF MailOK, Pending
  <2>4. Hand(q)' = Hand(q)
    BY <2>1 DEF Hand
  <2>5. Batch(q)'.told = Batch(q).told /\ Batch(q)'.after = Batch(q).after /\ Batch(q)'.done = Batch(q).done /\ Batch(q)'.loaded = Batch(q).loaded
    <3>1. CASE proc[q].saw = b
      BY <1>5, <1>6, <2>1, <3>1 DEF Batch
    <3>2. CASE proc[q].saw # b
      BY <1>8, <2>1, <2>2, <3>2 DEF Batch, BatchOK
    <3> QED BY <3>1, <3>2
  <2>6. BatchOK(q)'
    BY <1>6, <2>1, <2>2, <2>4, <2>5 DEF BatchOK
  <2> QED BY <2>3, <2>6
<1>12. Rebooked
  BY <1>3, <1>5, PutRebooked DEF Batch
<1> QED BY <1>1, <1>8, <1>9, <1>10, <1>11, <1>12 DEF BookSafe

(* The sending engine.                                                     *)
LEMMA SenderSafe ==
  ASSUME ProcInv, FlowInv, BookSafe, LoadQueue \/ SendMail \/ MarkSent
  PROVE  BookSafe' /\ proc' = proc
<1>1. proc' = proc /\ batches' = batches
  BY DEF LoadQueue, SendMail, MarkSent, requests
<1>2. BatchRows' /\ OneEach'
  BY <1>1 DEF BookSafe, OneEach, Doing, Ahead, BatchRows, BatchRow
<1>3. /\ \A l \in DOMAIN mails : DOMAIN mails[l] = {"status", "hook", "body"}
      /\ DOMAIN mailed = DOMAIN mails /\ DOMAIN sender = {"queue", "at"}
      /\ \A l \in DOMAIN sender.queue : Pending(l)
      /\ (sender.at # 0 => sender.at \in DOMAIN sender.queue /\ mailed[sender.at] = sender.queue[sender.at])
      /\ SentAsRecorded
  BY DEF BookSafe, MailSafe
<1>4. ASSUME MailSafe', DOMAIN mails \subseteq DOMAIN mails', clashes \subseteq clashes',
             \A q \in Handlers : "rewrite" \in Ahead(q) /\ "find mail" \notin Ahead(q) /\ Doing(q) /\ BatchOK(q) /\ Pending(proc[q].who) =>
               Pending(proc[q].who)' \/ proc[q].who \in clashes'
      PROVE  BookSafe'
  <2>1. ASSUME NEW q \in Handlers, Doing(q)' PROVE BatchOK(q)' /\ MailOK(q)'
    <3>1. Doing(q) /\ Intact(q, "retry")
      BY <1>1, <2>1, DoingNext, KindsAre, ProcStays, DoingSame
    <3>2. BatchOK(q) /\ MailOK(q) /\ proc[q].saw \in DOMAIN batches'
      BY <1>1, <3>1 DEF BookSafe, BatchOK
    <3> QED BY <1>1, <1>4, <2>1, <3>1, <3>2, BatchSame
  <2> QED BY <1>2, <1>4, <2>1 DEF BookSafe
<1>5. CASE LoadQueue
  <2> DEFINE ready == {l \in DOMAIN mails : Pending(l)}
             queue == [l \in ready |-> mails[l].body]
  <2>1. UNCHANGED <<mails, mailed, clashes>> /\ sender.at = 0 /\ sender' = [sender EXCEPT !.queue = queue]
    BY <1>5 DEF LoadQueue
  <2>2. DOMAIN queue = ready /\ \A l \in ready : Pending(l)
    OBVIOUS
  <2> HIDE DEF queue, ready
  <2>3. sender'.queue = queue /\ sender'.at = 0 /\ DOMAIN sender' = {"queue", "at"}
    BY <1>3, <2>1
  <2>4. \A l : Pending(l)' <=> Pending(l)
    BY <2>1 DEF Pending
  <2>5. MailSafe'
    BY <1>3, <2>1, <2>2, <2>3, <2>4 DEF MailSafe, SentAsRecorded
  <2> QED BY <1>1, <1>4, <2>1, <2>4, <2>5 DEF Pending
<1>6. CASE SendMail
  <2>1. PICK l \in DOMAIN sender.queue : /\ sender' = [sender EXCEPT !.at = l] /\ mailed' = [mailed EXCEPT ![l] = sender.queue[l]]
                                         /\ UNCHANGED <<mails, clashes>>
    BY <1>6 DEF SendMail
  <2>2. sender'.queue = sender.queue /\ sender'.at = l /\ DOMAIN sender' = {"queue", "at"}
    BY <1>3, <2>1
  <2>3. DOMAIN mailed' = DOMAIN mailed /\ l \in DOMAIN mailed /\ mailed'[l] = sender.queue[l] /\ \A k \in DOMAIN mailed \ {l} : mailed'[k] = mailed[k]
    <3>1. l \in DOMAIN mailed
      BY <1>3 DEF Pending
    <3> QED BY <2>1, <3>1
  <2>4. \A k : Pending(k)' <=> Pending(k)
    BY <2>1 DEF Pending
  <2>5. mails[l].status # "sent"
    BY <1>3 DEF Pending
  <2>6. SentAsRecorded'
    BY <1>3, <2>1, <2>3, <2>5 DEF SentAsRecorded
  <2>7. MailSafe'
    BY <1>3, <2>1, <2>2, <2>3, <2>4, <2>6 DEF MailSafe
  <2> QED BY <1>1, <1>4, <2>1, <2>4, <2>7 DEF Pending
<1>7. CASE MarkSent
  <2> DEFINE l == sender.at
             row == [mails[l] EXCEPT !.status = "sent", !.body = sender.queue[l]]
             rest == [k \in DOMAIN sender.queue \ {l} |-> sender.queue[k]]
  <2>1. l # 0 /\ l \in DOMAIN sender.queue /\ mailed[l] = sender.queue[l] /\ Pending(l) /\ l \in DOMAIN mails
    BY <1>3, <1>7 DEF MarkSent, Pending
  <2>2. mails' = [mails EXCEPT ![l] = row]
    <3>1. DOMAIN mails[l] = {"status", "hook", "body"}
      BY <1>3, <2>1
    <3> QED BY <1>7, <2>1, <3>1 DEF MarkSent
  <2>3. /\ clashes' = (IF Rewriting(l) = {} THEN clashes ELSE clashes \cup {l})
        /\ sender' = [queue |-> rest, at |-> 0] /\ mailed' = mailed
    BY <1>7 DEF MarkSent
  <2>4. row.status = "sent" /\ row.body = sender.queue[l] /\ DOMAIN row = {"status", "hook", "body"}
    BY <1>3, <2>1
  <2>5. DOMAIN rest = DOMAIN sender.queue \ {l}
    OBVIOUS
  <2> HIDE DEF row, rest
  <2>6. DOMAIN mails' = DOMAIN mails /\ mails'[l] = row /\ \A k \in DOMAIN mails \ {l} : mails'[k] = mails[k]
    BY <2>2, <2>1
  <2>7. \A k : k # l => (Pending(k)' <=> Pending(k))
    BY <2>6 DEF Pending
  <2>8. sender'.queue = rest /\ sender'.at = 0 /\ DOMAIN sender' = {"queue", "at"} /\ clashes \subseteq clashes'
    BY <2>3
  <2>9. SentAsRecorded'
    <3> SUFFICES ASSUME NEW k \in DOMAIN mails, mails'[k].status = "sent" PROVE mails'[k].body = mailed[k] \/ k \in clashes'
      BY <2>3, <2>6 DEF SentAsRecorded
    <3>1. CASE k = l
      BY <2>1, <2>4, <2>6, <3>1
    <3>2. CASE k # l
      BY <1>3, <2>6, <2>8, <3>2 DEF SentAsRecorded
    <3> QED BY <3>1, <3>2
  <2>10. \A k \in DOMAIN sender'.queue : Pending(k)'
    BY <1>3, <2>5, <2>7, <2>8
  <2>11. MailSafe'
    BY <1>3, <2>3, <2>4, <2>6, <2>8, <2>9, <2>10 DEF MailSafe
  <2>12. ASSUME NEW q \in Handlers, "rewrite" \in Ahead(q), "find mail" \notin Ahead(q), BatchOK(q), Pending(proc[q].who)
         PROVE  Pending(proc[q].who)' \/ proc[q].who \in clashes'
    <3>1. CASE proc[q].who # l
      BY <1>1, <2>7, <2>12, <3>1 DEF Pending
    <3>2. CASE proc[q].who = l
      <4>1. q \in Busy /\ Awaits(q, "rewrite")
        BY <2>12, BusyIs, AwaitsIs
      <4>2. ~At(q, "find mail")
        <5>1. PICK S : proc[q].todo \in Seq(S)
          BY TodoSeq
        <5> QED BY <2>12, <5>1, WordsOf DEF At, Ahead
      <4>3. q \in Rewriting(l)
        BY <2>12, <3>2, <4>1, <4>2 DEF Rewriting, BatchOK
      <4> QED BY <2>3, <3>2, <4>3
    <3> QED BY <3>1, <3>2
  <2>13. \A q \in Handlers : "rewrite" \in Ahead(q) /\ "find mail" \notin Ahead(q) /\ Doing(q) /\ BatchOK(q) /\ Pending(proc[q].who) =>
           Pending(proc[q].who)' \/ proc[q].who \in clashes'
    BY <2>12
  <2>14. DOMAIN mails \subseteq DOMAIN mails'
    BY <2>6
  <2> QED BY <1>1, <1>4, <2>8, <2>11, <2>13, <2>14
<1> QED BY <1>1, <1>5, <1>6, <1>7

(* A batch that is asked for, and not begun.                               *)
LEMMA BookBegun ==
  ASSUME ProcInv, FlowInv, BookSafe, NEW p \in Handlers, Deed(p, "retry"), ~Doing(p)',
         UNCHANGED <<mails, sender, mailed, clashes, batches>>
  PROVE  BookSafe'
<1> DEFINE s == 0
<1>1. s \notin DOMAIN batches
  <2>1. PICK S : batches \in Seq(S)
    BY DEF BookSafe, BatchRows
  <2> QED BY <2>1
<1> HIDE DEF s
<1>2. \A q \in Handlers : Doing(q) => proc[q].saw # s
  BY <1>1 DEF BookSafe, BatchOK
<1>3. BatchRows'
  BY DEF BookSafe, BatchRows, BatchRow
<1>4. BatchStep(p, s)
  BY <1>2, <1>3 DEF BatchStep
<1>5. MailsKept /\ MailSafe'
  BY MailsStay, MailStay DEF BookSafe
<1> QED BY <1>4, <1>5, BookMove
LEMMA RetryAsked ==
  ASSUME ProcInv, FlowInv, BookSafe, NEW p \in Handlers, Retry(p)
  PROVE  BookSafe' /\ Deed(p, "retry")
<1>1. Deed(p, "retry") /\ UNCHANGED book /\ \A w : w \notin Doors => (w \in Ahead(p)' <=> w = "load")
  BY RetryMove
<1>2. ~Doing(p)'
  <2> SUFFICES ASSUME NEW w \in Serves, w \in Ahead(p)' PROVE FALSE
    BY DEF Doing
  <2>1. w \notin Doors /\ w # "load"
    BY DEF Serves, Doors
  <2> QED BY <1>1, <2>1
<1> QED BY <1>1, <1>2, BookBegun DEF book
(* A retry of the page that is confirmed.                                  *)
LEMMA ConfirmedRetry ==
  ASSUME ProcInv, FlowInv, NEW p \in Handlers, Confirmed(p)
  PROVE  /\ Deed(p, "retry") /\ ~Doing(p)' /\ UNCHANGED <<lookOn, book, noted>>
         /\ Alters(p, {"op", "todo"}) /\ proc'[p].op = "legacy" /\ Words(proc'[p].todo) = {"token", "load"}
<1> DEFINE t == <<"token", "load">>
           op == "legacy"
<1>1. At(p, "confirm") /\ proc' = [proc EXCEPT ![p].op = op, ![p].todo = t] /\ UNCHANGED <<lookOn, book, noted>>
  BY DEF Confirmed, Confirms
<1>2. t \in Seq(Kin("retry")) /\ Ordered(t) /\ Words(t) = {"token", "load"}
  <2>1. "token" \in Doors
    BY DEF Doors
  <2>2. "token" \in Kin("retry") /\ "load" \in Kin("retry") /\ Comes("token", "load")
    BY <2>1, DoorsIn, DoorComes, KindsAre, RetryIn, RetryKin
  <2> QED BY <2>2, TwoIn, OrderedShort, Zenon
<1>3. op \in Serving("retry") /\ op = "legacy"
  BY RetryServes
<1> HIDE DEF t, op
<1>4. Away(proc[p])
  BY <1>1, TailAway, DeskFacts
<1>5. Alters(p, {"op", "todo"}) /\ proc'[p].todo = t /\ proc'[p].op = op
  BY <1>1, <1>4, SetOp
<1>6. Deed(p, "retry")
  BY <1>2, <1>3, <1>5 DEF Deed, Alters, Clanned
<1>7. ~Doing(p)'
  <2> SUFFICES ASSUME NEW w \in Serves, w \in Words(t) PROVE FALSE
    BY <1>5 DEF Doing, Ahead
  <2> QED BY <1>2 DEF Serves
<1> QED BY <1>1, <1>2, <1>3, <1>5, <1>6, <1>7

LEMMA BookWorks ==
  ASSUME ProcInv, FlowInv, BookSafe, BookStep
  PROVE  /\ BookSafe' /\ UNCHANGED tenancy
         /\ (\E p \in Handlers : Deed(p, "retry")) \/ proc' = proc
<1>1. ASSUME NEW p \in Handlers, BookWork(p) PROVE BookSafe' /\ Deed(p, "retry")
  BY <1>1, RetryAsked, RetryWorkLoad, RetryWorkNext, RetryWorkMail, RetryWorkCall, RetryWorkLead, RetryWorkRewrite
     DEF BookWork
<1>2. UNCHANGED tenancy
  BY DEF BookStep, Retry, Load, NextLead, NextOf, FindMail, MailFor, CallModel, WriteLead, Rewrite, Close,
         LoadQueue, SendMail, MarkSent
<1>3. (\E p \in Handlers : BookWork(p) \/ Close(p)) \/ LoadQueue \/ SendMail \/ MarkSent
  BY DEF BookStep, BookWork
<1> QED BY <1>1, <1>2, <1>3, CloseSafe, SenderSafe
LEMMA BookStarts == Init => BookSafe
<1> SUFFICES ASSUME Init PROVE BookSafe
  OBVIOUS
<1>1. batches = <<>> /\ sender = [queue |-> <<>>, at |-> 0] /\ clashes = {}
  BY DEF Init, BookInit
<1>2. mails = [l \in {k \in DOMAIN leads : ~leads[k].rejected} |-> [status |-> "pending", hook |-> 0, body |-> 0]]
  BY DEF Init, BookInit
<1>3. mailed = [l \in DOMAIN mails |-> -1]
  BY DEF Init, BookInit
<1>4. \A q \in Handlers : Ahead(q) = {}
  BY OrderedShort DEF Init, Idle, Ahead
<1>5. \A q \in Handlers : ~Doing(q)
  BY <1>4 DEF Doing
<1>6. BatchRows
  <2>1. <<>> \in Seq({}) /\ DOMAIN <<>> = {}
    OBVIOUS
  <2> QED BY <1>1, <2>1 DEF BatchRows
<1>7. \A l \in DOMAIN mails : DOMAIN mails[l] = {"status", "hook", "body"} /\ mails[l].status # "sent"
  BY <1>2
<1>8. DOMAIN sender.queue = {} /\ sender.at = 0 /\ DOMAIN sender = {"queue", "at"}
  BY <1>1
<1>9. MailSafe
  BY <1>3, <1>7, <1>8 DEF MailSafe, SentAsRecorded
<1> QED BY <1>5, <1>6, <1>9 DEF BookSafe, OneEach

-----------------------------------------------------------------------------
(* The list and the cards *)

LEMMA ListKin == \A w \in ListClan : w \in Kin("list") /\ w \in OtherWords /\ Kind(w) = "list"
<1>1. \A w \in ListClan : w \in OtherWords
  BY ListFacts, ZenonT(40) DEF ListClan
<1> QED BY <1>1, ListKind, KinHas
LEMMA ListIn ==
  /\ "signals" \in ListClan /\ "tech" \in ListClan /\ "count rows" \in ListClan /\ "find rows" \in ListClan
  /\ "answer list" \in ListClan /\ "cards" \in ListClan /\ "answer kpis" \in ListClan
  BY DEF ListClan
LEMMA ListServes == "list" \in Serving("list") /\ "kpis" \in Serving("list") /\ "legacy" \in Serving("list")
  BY DEF Serving
LEMMA ListComes ==
  /\ Comes("cards", "answer kpis") /\ Comes("signals", "tech")
  /\ Comes("signals", "count rows") /\ Comes("signals", "find rows") /\ Comes("signals", "answer list")
  /\ Comes("tech", "count rows") /\ Comes("tech", "find rows") /\ Comes("tech", "answer list")
  /\ Comes("count rows", "find rows") /\ Comes("find rows", "count rows")
  /\ Comes("count rows", "answer list") /\ Comes("find rows", "answer list")
<1>1. Comes("cards", "answer kpis") /\ Comes("signals", "tech")
  BY ZenonT(40) DEF Comes
<1>2. Comes("signals", "count rows") /\ Comes("signals", "find rows") /\ Comes("signals", "answer list")
  BY ZenonT(40) DEF Comes
<1>3. Comes("tech", "count rows") /\ Comes("tech", "find rows") /\ Comes("tech", "answer list")
  BY ZenonT(40) DEF Comes
<1>4. Comes("count rows", "find rows") /\ Comes("find rows", "count rows")
  BY ZenonT(40) DEF Comes
<1>5. Comes("count rows", "answer list") /\ Comes("find rows", "answer list")
  BY ZenonT(40) DEF Comes
<1> QED BY <1>1, <1>2, <1>3, <1>4, <1>5, Zenon

(* A request for the list or the cards.                                    *)
LEMMA AskForMove ==
  ASSUME ProcInv, NEW p \in Handlers, NEW kind \in {"list", "kpis"}, NEW i, NEW ids,
         NEW program \in Seq(Kin("list")), Ordered(program), AskFor(p, kind, i, ids, program)
  PROVE  /\ Deed(p, "list") /\ Only(p) /\ UNCHANGED <<accounts, tenancy, book, answer>>
         /\ DOMAIN proc'[p] = Fields /\ proc'[p].id = i /\ proc'[p].marks = ids /\ proc'[p].saw = edits
         /\ proc'[p].op \in {kind, "legacy"} /\ tally' = [tally EXCEPT ![p] = NoTally]
         /\ proc'[p].by \in Tokens /\ proc'[p].org = OrgOf(proc'[p].by)
         /\ \A w : w \notin Doors => (w \in Ahead(p)' <=> w \in Words(program))
<1> DEFINE request(s, op, first) == [Idle EXCEPT !.op = op, !.by = s, !.org = OrgOf(s), !.id = i,
                                                 !.saw = edits, !.marks = ids, !.todo = first \o program]
           m == edits
<1>1. PICK s \in Tokens : \/ Begin(p, kind, request(s, kind, <<"enter", "context">>))
                          \/ Begin(p, kind, request(s, "legacy", <<"token">>))
  BY DEF AskFor
<1>2. \A op, first : LET r == request(s, op, first) IN
         /\ DOMAIN r = Fields /\ r.op = op /\ r.by = s /\ r.org = OrgOf(s) /\ r.id = i
         /\ r.todo = first \o program /\ r.saw = m /\ r.marks = ids
  BY DEF Idle, Fields
<1> HIDE DEF request, m
<1>3. ASSUME NEW op \in Serving("list"), op \in {kind, "legacy"}, NEW first \in Firsts,
             Begin(p, kind, request(s, op, first))
      PROVE  /\ Deed(p, "list") /\ Only(p)
             /\ DOMAIN proc'[p] = Fields /\ proc'[p].id = i /\ proc'[p].marks = ids /\ proc'[p].saw = m
             /\ proc'[p].op \in {kind, "legacy"}
             /\ proc'[p].by \in Tokens /\ proc'[p].org = OrgOf(proc'[p].by)
             /\ \A w : w \notin Doors => (w \in Ahead(p)' <=> w \in Words(program))
  <2> DEFINE t == first \o program
  <2>1. /\ t \in Seq(Kin("list")) /\ Ordered(t) /\ \A w \in Words(t) : w \in Doors \/ w \in Words(program)
        /\ Words(program) \subseteq Words(t)
    BY DoorJoin, KindsAre
  <2> HIDE DEF t
  <2> DEFINE r == request(s, op, first)
  <2>2. /\ DOMAIN r = Fields /\ r.op = op /\ r.by = s /\ r.org = OrgOf(s) /\ r.id = i
        /\ r.todo = t /\ r.saw = m /\ r.marks = ids
    BY <1>2 DEF t
  <2>3. Begin(p, kind, r)
    BY <1>3
  <2> HIDE DEF r
  <2>4. Clanned(r, "list")
    BY <1>3, <2>1, <2>2 DEF Clanned
  <2>5. /\ Deed(p, "list") /\ Only(p) /\ DOMAIN proc'[p] = Fields
        /\ \A f \in Fields \ {"no"} : proc'[p][f] = r[f]
    BY <2>2, <2>3, <2>4, DeedBegun
  <2>6. /\ proc'[p].op = op /\ proc'[p].by = s /\ proc'[p].org = OrgOf(s) /\ proc'[p].id = i
        /\ proc'[p].saw = m /\ proc'[p].marks = ids /\ proc'[p].todo = t
    BY <2>2, <2>5 DEF Fields
  <2> QED BY <1>1, <1>3, <2>1, <2>5, <2>6 DEF Ahead
<1>4. UNCHANGED <<accounts, tenancy, book, answer>> /\ tally' = [tally EXCEPT ![p] = NoTally]
  BY DEF AskFor
<1>5. kind \in Serving("list") /\ "legacy" \in Serving("list")
  BY ListServes
<1>6. CASE Begin(p, kind, request(s, kind, <<"enter", "context">>))
  BY <1>3, <1>4, <1>5, <1>6, FirstsAre DEF m
<1>7. CASE Begin(p, kind, request(s, "legacy", <<"token">>))
  BY <1>3, <1>4, <1>5, <1>7, FirstsAre DEF m
<1> QED BY <1>1, <1>6, <1>7
LEMMA FourLists ==
  ASSUME NEW S, NEW a \in Seq(S), NEW b \in Seq(S), NEW c \in Seq(S), NEW d \in Seq(S),
         Ordered(a), Ordered(b), Ordered(c), Ordered(d),
         \A v \in Words(a) : \A w \in Words(b) \cup Words(c) \cup Words(d) : Comes(v, w),
         \A v \in Words(b) : \A w \in Words(c) \cup Words(d) : Comes(v, w),
         \A v \in Words(c) : \A w \in Words(d) : Comes(v, w)
  PROVE  /\ a \o b \o c \o d \in Seq(S) /\ Ordered(a \o b \o c \o d)
         /\ Words(a \o b \o c \o d) = Words(a) \cup Words(b) \cup Words(c) \cup Words(d)
<1>1. a \o b \o c \in Seq(S) /\ Ordered(a \o b \o c) /\ Words(a \o b \o c) = Words(a) \cup Words(b) \cup Words(c)
  BY ThreeLists
<1> DEFINE z == a \o b \o c
<1>2. z \in Seq(S) /\ Ordered(z) /\ Words(z) = Words(a) \cup Words(b) \cup Words(c)
  BY <1>1
<1> HIDE DEF z
<1>3. \A x \in Words(z), w \in Words(d) : Comes(x, w)
  BY <1>2
<1>4. z \o d \in Seq(S) /\ Words(z \o d) = Words(z) \cup Words(d)
  BY <1>2, OrderedJoin
<1>5. Ordered(z \o d)
  BY <1>2, <1>3, OrderedJoin, SMTT(90)
<1> QED BY <1>2, <1>4, <1>5 DEF z
ListAwaits(i) ==
  (IF Queries[i].signals > 0 THEN {"signals"} ELSE {}) \cup (IF Queries[i].tech THEN {"tech"} ELSE {})
    \cup {"count rows", "find rows", "answer list"}
BothSigns == {<<"count rows", "find rows">>, <<"find rows", "count rows">>}
LEMMA BothOrders ==
  \A both \in BothSigns :
    both \in Seq(Kin("list")) /\ Ordered(both) /\ Words(both) = {"count rows", "find rows"}
<1>1. "count rows" \in Kin("list") /\ "find rows" \in Kin("list")
  BY ListIn, ListKin, Zenon
<1>2. Comes("count rows", "find rows") /\ Comes("find rows", "count rows")
  BY ListComes, Zenon
<1>3. <<"count rows", "find rows">> \in Seq(Kin("list")) /\ <<"find rows", "count rows">> \in Seq(Kin("list"))
  BY <1>1, TwoIn, Zenon
<1>4. Words(<<"count rows", "find rows">>) = {"count rows", "find rows"} /\ Ordered(<<"count rows", "find rows">>)
  BY <1>2, OrderedShort, Zenon
<1>5. Words(<<"find rows", "count rows">>) = {"find rows", "count rows"} /\ Ordered(<<"find rows", "count rows">>)
  BY <1>2, OrderedShort, Zenon
<1>6. {"count rows", "find rows"} = {"find rows", "count rows"}
  BY Zenon
<1> QED BY <1>3, <1>4, <1>5, <1>6, ZenonT(40) DEF BothSigns
LEMMA ListsProgram ==
  ASSUME NEW i, NEW both \in BothSigns
  PROVE  LET t == (IF Queries[i].signals > 0 THEN <<"signals">> ELSE <<>>)
                    \o (IF Queries[i].tech THEN <<"tech">> ELSE <<>>) \o both \o <<"answer list">> IN
         t \in Seq(Kin("list")) /\ Ordered(t) /\ Words(t) = ListAwaits(i)
<1> DEFINE a == IF Queries[i].signals > 0 THEN <<"signals">> ELSE <<>>
           b == IF Queries[i].tech THEN <<"tech">> ELSE <<>>
           d == <<"answer list">>
           A == IF Queries[i].signals > 0 THEN {"signals"} ELSE {}
           B == IF Queries[i].tech THEN {"tech"} ELSE {}
           C == {"count rows", "find rows"}
           D == {"answer list"}
<1>1. "signals" \in Kin("list") /\ "tech" \in Kin("list") /\ "answer list" \in Kin("list")
  BY ListIn, ListKin, Zenon
<1>2. a \in Seq(Kin("list")) /\ Ordered(a) /\ Words(a) = A
  BY <1>1, ShortLists, Zenon
<1>3. b \in Seq(Kin("list")) /\ Ordered(b) /\ Words(b) = B
  BY <1>1, ShortLists, Zenon
<1>4. both \in Seq(Kin("list")) /\ Ordered(both) /\ Words(both) = C
  BY BothOrders
<1>5. d \in Seq(Kin("list")) /\ Ordered(d) /\ Words(d) = D
  BY <1>1, ShortLists, Zenon
<1>6. \A v \in A : \A w \in B \cup C \cup D : Comes(v, w)
  BY ListComes, ZenonT(60)
<1>7. \A v \in B : \A w \in C \cup D : Comes(v, w)
  BY ListComes, ZenonT(60)
<1>8. \A v \in C : \A w \in D : Comes(v, w)
  BY ListComes, ZenonT(60)
<1>9. ListAwaits(i) = A \cup B \cup C \cup D
  BY DEF ListAwaits
<1> HIDE DEF a, b, d, A, B, C, D
<1>10. /\ a \o b \o both \o d \in Seq(Kin("list")) /\ Ordered(a \o b \o both \o d)
       /\ Words(a \o b \o both \o d) = A \cup B \cup C \cup D
  BY <1>2, <1>3, <1>4, <1>5, <1>6, <1>7, <1>8, FourLists
<1> QED BY <1>9, <1>10 DEF a, b, d
LEMMA CardsProgram ==
  /\ <<"cards", "answer kpis">> \in Seq(Kin("list")) /\ Ordered(<<"cards", "answer kpis">>)
  /\ Words(<<"cards", "answer kpis">>) = {"cards", "answer kpis"}
<1>1. "cards" \in Kin("list") /\ "answer kpis" \in Kin("list")
  BY ListIn, ListKin, Zenon
<1>2. Comes("cards", "answer kpis")
  BY ListComes, Zenon
<1>3. <<"cards", "answer kpis">> \in Seq(Kin("list"))
  BY <1>1, TwoIn, Zenon
<1> QED BY <1>2, <1>3, OrderedShort, Zenon
LEMMA ListWorks ==
  ASSUME ProcInv, FlowInv, NEW p \in Handlers, ListStep(p)
  PROVE  Deed(p, "list") /\ UNCHANGED <<accounts, tenancy, book>>
<1>1. UNCHANGED <<accounts, tenancy, book>>
  BY DEF ListStep, ListLeads, AskFor, Narrow, CountLeads, FindRows, LeadKpis, Summarize, Answer, lists
<1>2. CASE ListLeads(p)
  <2>1. PICK i \in menu.filters, both \in BothSigns :
          AskFor(p, "list", i, DOMAIN leads,
                 (IF Queries[i].signals > 0 THEN <<"signals">> ELSE <<>>)
                   \o (IF Queries[i].tech THEN <<"tech">> ELSE <<>>) \o both \o <<"answer list">>)
    BY <1>2 DEF ListLeads, BothSigns
  <2> DEFINE t == (IF Queries[i].signals > 0 THEN <<"signals">> ELSE <<>>)
                   \o (IF Queries[i].tech THEN <<"tech">> ELSE <<>>) \o both \o <<"answer list">>
             k == "list"
  <2>2. t \in Seq(Kin("list")) /\ Ordered(t)
    BY ListsProgram
  <2>3. AskFor(p, k, i, DOMAIN leads, t) /\ k \in {"list", "kpis"}
    BY <2>1
  <2> HIDE DEF t, k
  <2> QED BY <1>1, <2>2, <2>3, AskForMove
<1>3. CASE LeadKpis(p)
  <2> DEFINE t == <<"cards", "answer kpis">>
             k == "kpis"
  <2>1. PICK i \in menu.filters : AskFor(p, k, i, DOMAIN Cards, t)
    BY <1>3 DEF LeadKpis
  <2>2. t \in Seq(Kin("list")) /\ Ordered(t) /\ k \in {"list", "kpis"}
    BY CardsProgram
  <2> HIDE DEF t, k
  <2> QED BY <1>1, <2>1, <2>2, AskForMove
<1>4. CASE CountLeads(p) \/ FindRows(p) \/ Answer(p)
  <2>1. \E w \in ListClan : At(p, w) /\ (proc' = Ended(p) \/ proc' = Advance(p))
    BY <1>4, ListIn, ZenonT(40) DEF CountLeads, FindRows, Answer, Answers
  <2> QED BY <1>1, <2>1, GoneMove, ListKin, KindsAre
<1>5. CASE Narrow(p)
  <2>1. PICK w \in ListClan : At(p, w)
    BY <1>5, ListIn, Zenon DEF Narrow
  <2>2. PICK x : proc' = [proc EXCEPT ![p].todo = Tail(@), ![p].marks = x]
    BY <1>5 DEF Narrow
  <2>3. Away(proc[p])
    BY <2>1, ListKin, AtKind, KindsAre
  <2> DEFINE t == Tail(proc[p].todo)
  <2>4. proc' = [proc EXCEPT ![p].todo = t, ![p].marks = x]
    BY <2>2, <2>3 DEF ProcInv
  <2> HIDE DEF t
  <2>5. Alters(p, {"todo", "marks"}) /\ proc'[p].todo = t
    BY <2>3, <2>4, SetMarks
  <2> DEFINE fs == {"todo", "marks"}
  <2>6. Alters(p, fs) /\ "op" \notin fs /\ proc'[p].todo = Tail(proc[p].todo)
    BY <2>5 DEF t
  <2> HIDE DEF fs
  <2> QED BY <1>1, <2>1, <2>6, ListKin, KindsAre, AltersMove
<1>6. CASE Summarize(p)
  <2>1. At(p, "cards") /\ "cards" \in ListClan
    BY <1>6, ListIn DEF Summarize
  <2>2. PICK i \in proc[p].marks : proc' = [proc EXCEPT ![p].marks = @ \ {i}, ![p].todo = IF proc[p].marks = {i} THEN Tail(@) ELSE @]
    BY <1>6 DEF Summarize
  <2>3. Away(proc[p])
    BY <2>1, ListKin, AtKind, KindsAre
  <2> DEFINE t == IF proc[p].marks = {i} THEN Tail(proc[p].todo) ELSE proc[p].todo
             x == proc[p].marks \ {i}
  <2>4. proc' = [proc EXCEPT ![p].marks = x, ![p].todo = t]
    BY <2>2, <2>3 DEF ProcInv
  <2>5. t = Tail(proc[p].todo) \/ t = proc[p].todo
    OBVIOUS
  <2> HIDE DEF t, x
  <2>6. Alters(p, {"todo", "marks"}) /\ proc'[p].todo = t
    BY <2>3, <2>4, MarksSet
  <2> DEFINE fs == {"todo", "marks"}
  <2>7. Alters(p, fs) /\ "op" \notin fs
    BY <2>6
  <2> HIDE DEF fs
  <2> QED BY <1>1, <2>1, <2>5, <2>6, <2>7, ListKin, KindsAre, AltersMove
<1> QED BY <1>2, <1>3, <1>4, <1>5, <1>6 DEF ListStep

-----------------------------------------------------------------------------
(* The page of engines *)

LEMMA PageKin == \A w \in PageWords : w \in Kin("engine") /\ w \in OtherWords /\ Kind(w) = "engine"
<1>1. \A w \in PageWords : w \in OtherWords
  BY DEF OtherWords
<1> QED BY <1>1, EngineKind, KinHas
LEMMA PageIn ==
  /\ "serve latest" \in PageWords /\ "latest" \in PageWords /\ "serve run" \in PageWords /\ "refused" \in PageWords
  /\ "started" \in PageWords /\ "serve unlock" \in PageWords /\ "unlocked" \in PageWords /\ "sweep runs" \in PageWords
  BY DEF PageWords
LEMMA PageServes == "latest" \in Serving("engine") /\ "run" \in Serving("engine") /\ "unlock" \in Serving("engine")
  BY DEF Serving
LEMMA PagePrograms ==
  /\ <<"serve latest", "latest">> \in Seq(Kin("engine")) /\ Ordered(<<"serve latest", "latest">>)
  /\ Words(<<"serve latest", "latest">>) = {"serve latest", "latest"}
  /\ <<"sweep runs", "serve run">> \in Seq(Kin("engine")) /\ Ordered(<<"sweep runs", "serve run">>)
  /\ Words(<<"sweep runs", "serve run">>) = {"sweep runs", "serve run"}
  /\ <<"refused">> \in Seq(Kin("engine")) /\ Ordered(<<"refused">>) /\ Words(<<"refused">>) = {"refused"}
  /\ <<"started">> \in Seq(Kin("engine")) /\ Ordered(<<"started">>) /\ Words(<<"started">>) = {"started"}
  /\ <<"serve unlock", "unlocked">> \in Seq(Kin("engine")) /\ Ordered(<<"serve unlock", "unlocked">>)
  /\ Words(<<"serve unlock", "unlocked">>) = {"serve unlock", "unlocked"}
<1>1. /\ "serve latest" \in Kin("engine") /\ "latest" \in Kin("engine") /\ "serve run" \in Kin("engine")
      /\ "refused" \in Kin("engine") /\ "started" \in Kin("engine") /\ "serve unlock" \in Kin("engine")
      /\ "unlocked" \in Kin("engine") /\ "sweep runs" \in Kin("engine")
  BY PageIn, PageKin, Zenon
<1>2. Comes("serve latest", "latest")
  BY ZenonT(40) DEF Comes
<1>3. Comes("serve unlock", "unlocked")
  BY ZenonT(40) DEF Comes
<1>4. /\ <<"serve latest", "latest">> \in Seq(Kin("engine")) /\ Ordered(<<"serve latest", "latest">>)
      /\ Words(<<"serve latest", "latest">>) = {"serve latest", "latest"}
  <2>1. <<"serve latest", "latest">> \in Seq(Kin("engine"))
    BY <1>1, TwoIn, Zenon
  <2> QED BY <1>2, <2>1, OrderedShort, Zenon
<1>5. /\ <<"serve unlock", "unlocked">> \in Seq(Kin("engine")) /\ Ordered(<<"serve unlock", "unlocked">>)
      /\ Words(<<"serve unlock", "unlocked">>) = {"serve unlock", "unlocked"}
  <2>1. <<"serve unlock", "unlocked">> \in Seq(Kin("engine"))
    BY <1>1, TwoIn, Zenon
  <2> QED BY <1>3, <2>1, OrderedShort, Zenon
<1>6. <<"refused">> \in Seq(Kin("engine")) /\ Ordered(<<"refused">>) /\ Words(<<"refused">>) = {"refused"}
  BY <1>1, ShortLists, Zenon
<1>8. Comes("sweep runs", "serve run")
  BY ZenonT(40) DEF Comes
<1>9. /\ <<"sweep runs", "serve run">> \in Seq(Kin("engine")) /\ Ordered(<<"sweep runs", "serve run">>)
      /\ Words(<<"sweep runs", "serve run">>) = {"sweep runs", "serve run"}
  <2>1. <<"sweep runs", "serve run">> \in Seq(Kin("engine"))
    BY <1>1, TwoIn, Zenon
  <2> QED BY <1>8, <2>1, OrderedShort, Zenon
<1>7. <<"started">> \in Seq(Kin("engine")) /\ Ordered(<<"started">>) /\ Words(<<"started">>) = {"started"}
  BY <1>1, ShortLists, Zenon
<1> QED BY <1>4, <1>5, <1>6, <1>7, <1>9, Zenon

(* The awaits of a request of this page, and what it is about.             *)
Fetches(p, ws, who) == Only(p) /\ DOMAIN proc'[p] = Fields /\ proc'[p].saw = 0 /\ proc'[p].who = who /\ Ahead(p)' = ws
LEMMA FetchMove ==
  ASSUME ProcInv, NEW p \in Handlers, NEW what \in Serving("engine"), NEW e, NEW who,
         NEW program \in Seq(Kin("engine")), Ordered(program), Fetch(p, what, e, who, program)
  PROVE  Deed(p, "engine") /\ Fetches(p, Words(program), who)
<1> DEFINE r == [Idle EXCEPT !.op = what, !.id = e, !.who = who, !.todo = program]
<1>1. DOMAIN r = Fields /\ r.op = what /\ r.todo = program /\ r.saw = 0 /\ r.who = who
  BY DEF Idle, Fields
<1>2. Begin(p, "page", r)
  BY DEF Fetch
<1> HIDE DEF r
<1>3. Clanned(r, "engine")
  BY <1>1 DEF Clanned
<1>4. Deed(p, "engine") /\ Only(p) /\ DOMAIN proc'[p] = Fields /\ \A f \in Fields \ {"no"} : proc'[p][f] = r[f]
  BY <1>1, <1>2, <1>3, DeedBegun
<1>5. proc'[p].saw = 0 /\ proc'[p].who = who /\ proc'[p].todo = program
  BY <1>1, <1>4, AllFields
<1> QED BY <1>4, <1>5 DEF Fetches, Ahead
PageMove(p) ==
  \/ Select(p) \/ ServeLatest(p) \/ Latest(p) \/ RunNow(p) \/ SweepRuns(p) \/ ServeRun(p) \/ Started(p)
  \/ Refused(p) \/ Unlock(p) \/ UnlockRows(p) \/ UnlockShown(p)
PageAlone ==
  \/ AskStatus \/ ServeStatus \/ PollFails \/ ShowStatus \/ Dismiss
  \/ RowArrives \/ StartElsewhere \/ EndRun \/ RunDies \/ CloseElsewhere
LEMMA SelectMove ==
  ASSUME ProcInv, NEW p \in Handlers, Select(p) \/ RunNow(p) \/ Unlock(p)
  PROVE  /\ Deed(p, "engine")
         /\ Select(p) => \E who : Fetches(p, {"serve latest", "latest"}, who)
         /\ RunNow(p) => \E who : Fetches(p, {"sweep runs", "serve run"}, who)
         /\ Unlock(p) => Fetches(p, {"serve unlock", "unlocked"}, page.refused)
<1>1. ASSUME Select(p) PROVE Deed(p, "engine") /\ \E who : Fetches(p, {"serve latest", "latest"}, who)
  <2> DEFINE t == <<"serve latest", "latest">>
             n == page.gen + 1
             what == "latest"
  <2>1. PICK e \in Engines : Fetch(p, what, e, n, t)
    BY <1>1 DEF Select
  <2>2. t \in Seq(Kin("engine")) /\ Ordered(t) /\ Words(t) = {"serve latest", "latest"} /\ what \in Serving("engine")
    BY PagePrograms, PageServes
  <2> HIDE DEF t, n, what
  <2> QED BY <2>1, <2>2, FetchMove
<1>2. ASSUME RunNow(p) PROVE Deed(p, "engine") /\ \E who : Fetches(p, {"sweep runs", "serve run"}, who)
  <2> DEFINE t == <<"sweep runs", "serve run">>
             n == 0
             what == "run"
  <2>1. Fetch(p, what, page.engine, n, t)
    BY <1>2 DEF RunNow
  <2>2. t \in Seq(Kin("engine")) /\ Ordered(t) /\ Words(t) = {"sweep runs", "serve run"} /\ what \in Serving("engine")
    BY PagePrograms, PageServes
  <2> HIDE DEF t, n, what
  <2> QED BY <2>1, <2>2, FetchMove
<1>3. ASSUME Unlock(p) PROVE Deed(p, "engine") /\ Fetches(p, {"serve unlock", "unlocked"}, page.refused)
  <2> DEFINE t == <<"serve unlock", "unlocked">>
             what == "unlock"
  <2>1. Fetch(p, what, page.engine, page.refused, t)
    BY <1>3 DEF Unlock
  <2>2. t \in Seq(Kin("engine")) /\ Ordered(t) /\ Words(t) = {"serve unlock", "unlocked"} /\ what \in Serving("engine")
    BY PagePrograms, PageServes
  <2> HIDE DEF t, what
  <2> QED BY <2>1, <2>2, FetchMove
<1> QED BY <1>1, <1>2, <1>3

RunRow == [engine : Engines, status : {"running", "success", "failed"}, live : BOOLEAN, forced : BOOLEAN]
PanelFields == {"open", "run", "poll", "got", "shown"}
(* A run that goes on past the end of its row had it closed meanwhile.      *)
RunsOK == runs \in Seq(RunRow) /\ \A i \in DOMAIN runs : runs[i].live /\ runs[i].status # "running" => runs[i].forced
(* What the panel was answered, and what it shows once it polls no more.   *)
PanelOK ==
  /\ DOMAIN panel = PanelFields /\ panel.run \in 0..Len(runs)
  /\ panel.poll = "answered" /\ panel.run # 0 =>
       panel.got = "running" \/ runs[panel.run].forced
         \/ (runs[panel.run].status # "running" /\ panel.got = runs[panel.run].status)
  /\ panel.open /\ panel.poll = "off" /\ panel.run # 0 =>
       runs[panel.run].forced \/ (runs[panel.run].status # "running" /\ panel.shown = runs[panel.run].status)
Refuses(run) == run \in DOMAIN runs /\ runs[run].engine \in Triggerable
PageOK(q) ==
  /\ "latest" \in Ahead(q) \/ "started" \in Ahead(q) => proc[q].saw \in 0..Len(runs)
  /\ "refused" \in Ahead(q) => Refuses(proc[q].saw)
  /\ "serve unlock" \in Ahead(q) => Refuses(proc[q].who)
  /\ "serve run" \in Ahead(q) /\ "sweep runs" \notin Ahead(q) => proc[q].id \in Triggerable
BannerOK == DOMAIN page = {"engine", "gen", "refused"} /\ (page.refused # 0 => Refuses(page.refused))
PageSafe == RunsOK /\ PanelOK /\ BannerOK /\ \A q \in Handlers : PageOK(q)

(* What is settled of a run stays.                                         *)
RunsFirm == Len(runs) <= Len(runs)' /\ Len(runs)' \in Nat /\ \A i \in DOMAIN runs :
  /\ i \in DOMAIN runs' /\ runs'[i].engine = runs[i].engine /\ (runs[i].forced => runs'[i].forced)
  /\ runs'[i].status = runs[i].status \/ runs[i].status = "running" \/ runs[i].forced

LEMMA RunsIn == RunsOK => /\ DOMAIN runs = 1..Len(runs) /\ Len(runs) \in Nat
                          /\ \A i \in DOMAIN runs : runs[i] \in RunRow /\ DOMAIN runs[i] = {"engine", "status", "live", "forced"}
<1>1. \A r \in RunRow : DOMAIN r = {"engine", "status", "live", "forced"}
  BY DEF RunRow
<1>2. ASSUME NEW S, runs \in Seq(S) PROVE DOMAIN runs = 1..Len(runs) /\ Len(runs) \in Nat /\ \A i \in DOMAIN runs : runs[i] \in S
  BY <1>2
<1> QED BY <1>1, <1>2 DEF RunsOK
LEMMA RunsStay == RunsOK /\ runs' = runs => RunsFirm /\ RunsOK'
  BY RunsIn DEF RunsFirm, RunsOK
LEMMA RunsAppend ==
  ASSUME RunsOK, NEW e \in Engines, runs' = Append(runs, RunOf(e))
  PROVE  RunsFirm /\ RunsOK' /\ Len(runs)' = Len(runs) + 1
<1> DEFINE row == RunOf(e)
<1>1. row \in RunRow /\ row.status = "running"
  BY DEF RunOf, RunRow
<1> HIDE DEF row
<1>2. runs' = Append(runs, row) /\ runs \in Seq(RunRow)
  BY DEF row, RunsOK
<1>3. /\ runs' \in Seq(RunRow) /\ Len(runs)' = Len(runs) + 1 /\ runs'[Len(runs) + 1] = row
      /\ \A i \in DOMAIN runs : runs'[i] = runs[i]
      /\ DOMAIN runs' = 1..Len(runs) + 1 /\ DOMAIN runs = 1..Len(runs) /\ Len(runs) \in Nat
  BY <1>1, <1>2
<1>4. RunsFirm
  BY <1>3 DEF RunsFirm
<1>5. \A i \in DOMAIN runs' : i \in DOMAIN runs \/ i = Len(runs) + 1
  BY <1>3
<1>6. \A i \in DOMAIN runs' : runs'[i].live /\ runs'[i].status # "running" => runs'[i].forced
  BY <1>1, <1>3, <1>5 DEF RunsOK
<1> QED BY <1>3, <1>4, <1>6 DEF RunsOK
(* The rows of some runs are written.                                      *)
LEMMA RunsWritten ==
  ASSUME RunsOK, DOMAIN runs' = DOMAIN runs, runs' = [i \in DOMAIN runs |-> runs'[i]],
         \A i \in DOMAIN runs : runs'[i] \in RunRow /\ runs'[i].engine = runs[i].engine /\ (runs[i].forced => runs'[i].forced)
           /\ (runs'[i].status = runs[i].status \/ runs[i].status = "running" \/ runs[i].forced)
           /\ (runs'[i].live /\ runs'[i].status # "running" => runs'[i].forced)
  PROVE  RunsFirm /\ RunsOK'
<1>1. DOMAIN runs = 1..Len(runs) /\ Len(runs) \in Nat
  BY RunsIn
<1>2. runs' \in [1..Len(runs) -> RunRow]
  BY <1>1
<1>3. runs' \in Seq(RunRow) /\ Len(runs)' = Len(runs)
  BY <1>1, <1>2
<1> QED BY <1>1, <1>3 DEF RunsFirm, RunsOK
LEMMA PanelFirm == RunsOK /\ PanelOK /\ RunsFirm /\ panel' = panel => PanelOK'
  BY RunsIn DEF PanelOK, RunsFirm
LEMMA RefusesFirm == \A run : RunsFirm /\ Refuses(run) => Refuses(run)'
  BY DEF Refuses, RunsFirm
LEMMA PageSame ==
  ASSUME RunsFirm, RunsOK, NEW q, Intact(q, "engine"), PageOK(q)
  PROVE  PageOK(q)'
<1>1. proc'[q].saw = proc[q].saw /\ proc'[q].who = proc[q].who /\ proc'[q].id = proc[q].id
  BY AllFields DEF Intact
<1>2. \A w \in PageWords : w \in Ahead(q)' <=> w \in Ahead(q)
  BY EngineKind DEF Intact
<1>3. \A w \in {"latest", "started", "refused", "serve unlock", "sweep runs", "serve run"} : w \in Ahead(q)' <=> w \in Ahead(q)
  BY <1>2, PageIn
<1>4. proc[q].saw \in 0..Len(runs) => proc'[q].saw \in 0..Len(runs)'
  BY <1>1, RunsIn DEF RunsFirm
<1>5. (Refuses(proc[q].saw) => Refuses(proc[q].saw)') /\ (Refuses(proc[q].who) => Refuses(proc[q].who)')
  BY <1>1, RefusesFirm DEF Refuses, RunsFirm
<1> QED BY <1>1, <1>3, <1>4, <1>5 DEF PageOK
LEMMA PageNone == ASSUME NEW q, ~Has(proc'[q], "engine") PROVE PageOK(q)'
  BY PageIn, EngineKind DEF PageOK, Has, Ahead
LEMMA PageNext ==
  ASSUME ProcInv, FlowInv, PageSafe, RunsFirm, RunsOK', PanelOK', BannerOK',
         \A q \in Handlers : Has(proc'[q], "engine") => Intact(q, "engine") \/ PageOK(q)'
  PROVE  PageSafe'
<1>1. ASSUME NEW q \in Handlers PROVE PageOK(q)'
  BY PageNone, PageSame DEF PageSafe
<1> QED BY <1>1 DEF PageSafe
LEMMA BannerStay == RunsFirm /\ BannerOK /\ page' = page => BannerOK'
  BY RefusesFirm DEF BannerOK, Refuses, RunsFirm
LEMMA PageRest ==
  ASSUME ProcInv, FlowInv, PageSafe, Beside("engine"), UNCHANGED <<runs, page, panel>>
  PROVE  PageSafe'
<1>1. RunsFirm /\ RunsOK' /\ PanelOK' /\ BannerOK'
  BY RunsStay, PanelFirm, BannerStay DEF PageSafe
<1> QED BY <1>1, BesideAlike, KindsAre, PageNext
LEMMA PanelAre ==
  /\ DOMAIN NoPanel = PanelFields /\ NoPanel.run = 0 /\ NoPanel.open = FALSE /\ NoPanel.poll = "off"
  /\ \A run : LET new == [NoPanel EXCEPT !.open = TRUE, !.run = run, !.poll = "due"] IN
       DOMAIN new = PanelFields /\ new.run = run /\ new.poll = "due"
  BY DEF NoPanel, PanelFields
LEMMA FollowOK ==
  ASSUME RunsOK, PanelOK, RunsFirm, NEW run \in 0..Len(runs), Follow(run)
  PROVE  PanelOK'
<1>1. CASE panel' = panel
  BY <1>1, PanelFirm
<1>2. CASE panel' = [NoPanel EXCEPT !.open = TRUE, !.run = run, !.poll = "due"]
  <2> DEFINE new == [NoPanel EXCEPT !.open = TRUE, !.run = run, !.poll = "due"]
  <2>1. panel' = new /\ DOMAIN new = PanelFields /\ new.run = run /\ new.poll = "due"
    BY <1>2, PanelAre
  <2> HIDE DEF new
  <2>2. run \in 0..Len(runs)'
    BY RunsIn DEF RunsFirm
  <2> QED BY <2>1, <2>2 DEF PanelOK
<1> QED BY <1>1, <1>2 DEF Follow

(* What a request of the page does to it.                                  *)
LEMMA PageRequest ==
  ASSUME ProcInv, FlowInv, PageSafe, NEW p \in Handlers, Deed(p, "engine"), RunsFirm, RunsOK', PanelOK', BannerOK',
         Has(proc'[p], "engine") => PageOK(p)'
  PROVE  PageSafe'
<1>1. ASSUME NEW q \in Handlers, Has(proc'[q], "engine") PROVE Intact(q, "engine") \/ PageOK(q)'
  BY <1>1, DeedAlike, KindsAre
<1> QED BY <1>1, PageNext
LEMMA PageAsks ==
  ASSUME ProcInv, FlowInv, PageSafe, NEW p \in Handlers, Select(p) \/ RunNow(p) \/ Unlock(p)
  PROVE  PageSafe' /\ Deed(p, "engine")
<1>1. Deed(p, "engine")
  BY SelectMove
<1>2. UNCHANGED <<runs, panel>>
  BY DEF Select, RunNow, Unlock, engines
<1>3. RunsFirm /\ RunsOK' /\ PanelOK'
  BY <1>2, RunsStay, PanelFirm DEF PageSafe
<1>4. BannerOK'
  <2>1. \/ page' = page
        \/ \E e : page' = [page EXCEPT !.engine = e, !.gen = @ + 1]
        \/ page' = [page EXCEPT !.refused = 0]
    BY DEF Select, RunNow, Unlock, engines
  <2>2. DOMAIN page = {"engine", "gen", "refused"}
    BY DEF PageSafe, BannerOK
  <2>3. DOMAIN page' = {"engine", "gen", "refused"} /\ page'.refused \in {0, page.refused}
    BY <2>1, <2>2
  <2>4. page'.refused # 0 => Refuses(page.refused)'
    BY <1>2, <2>3 DEF PageSafe, BannerOK, Refuses
  <2> QED BY <1>2, <2>3 DEF PageSafe, BannerOK, Refuses
<1>5. PageOK(p)'
  <2>1. CASE Select(p)
    <3>1. PICK who : Fetches(p, {"serve latest", "latest"}, who)
      BY <2>1, SelectMove
    <3>2. /\ "started" \notin Ahead(p)' /\ "refused" \notin Ahead(p)' /\ "serve unlock" \notin Ahead(p)'
          /\ "serve run" \notin Ahead(p)'
      BY <3>1 DEF Fetches
    <3>3. proc'[p].saw \in 0..Len(runs)'
      <4>1. proc'[p].saw = 0
        BY <3>1 DEF Fetches
      <4> QED BY <1>3, <4>1 DEF RunsFirm
    <3> QED BY <3>2, <3>3 DEF PageOK
  <2>2. CASE RunNow(p)
    <3>1. PICK who : Fetches(p, {"sweep runs", "serve run"}, who)
      BY <2>2, SelectMove
    <3> QED BY <3>1 DEF Fetches, PageOK
  <2>3. CASE Unlock(p)
    <3>1. Fetches(p, {"serve unlock", "unlocked"}, page.refused)
      BY <2>3, SelectMove
    <3>2. /\ "latest" \notin Ahead(p)' /\ "started" \notin Ahead(p)' /\ "refused" \notin Ahead(p)'
          /\ "serve run" \notin Ahead(p)'
      BY <3>1 DEF Fetches
    <3>3. Refuses(page.refused)
      BY <2>3 DEF Unlock, PageSafe, BannerOK
    <3>4. Refuses(proc[p].who)'
      BY <1>2, <3>1, <3>3 DEF Fetches, Refuses
    <3> QED BY <3>2, <3>4 DEF PageOK
  <2> QED BY <2>1, <2>2, <2>3
<1> QED BY <1>1, <1>3, <1>4, <1>5, PageRequest
LEMMA PageAt ==
  ASSUME ProcInv, FlowInv, NEW p \in Handlers, NEW s \in PageWords, At(p, s)
  PROVE  Away(proc[p]) /\ s \in Ahead(p) /\ s \in OtherWords /\ Kind(s) = "engine" /\ "engine" \in Kinds
  BY PageKin, KindsAre, AtKind DEF Ahead
LEMMA SawMove ==
  ASSUME ProcInv, FlowInv, NEW p \in Handlers, NEW s \in PageWords, At(p, s), NEW t, NEW x,
         proc' = [proc EXCEPT ![p].todo = t, ![p].saw = x],
         t = Tail(proc[p].todo) \/ (t \in Seq(Kin("engine")) /\ Ordered(t))
  PROVE  Deed(p, "engine") /\ Alters(p, {"todo", "saw"}) /\ proc'[p].todo = t /\ proc'[p].saw = x
<1>1. Away(proc[p]) /\ s \in OtherWords /\ Kind(s) = "engine" /\ "engine" \in Kinds
  BY PageAt
<1>2. Alters(p, {"todo", "saw"}) /\ proc'[p].todo = t /\ proc'[p].saw = x
  BY <1>1, SetSaw
<1> DEFINE fs == {"todo", "saw"}
<1>3. Alters(p, fs) /\ "op" \notin fs
  BY <1>2
<1> HIDE DEF fs
<1>4. Deed(p, "engine")
  BY <1>1, <1>2, <1>3, AltersMove
<1> QED BY <1>2, <1>4
LEMMA LatestSought ==
  ASSUME RunsOK, NEW e
  PROVE  Max({i \in DOMAIN runs : runs[i].engine = e} \cup {0}) \in 0..Len(runs)
<1> DEFINE S == {i \in DOMAIN runs : runs[i].engine = e} \cup {0}
<1>1. S \subseteq 0..Len(runs) /\ Len(runs) \in Nat /\ S # {}
  BY RunsIn
<1> HIDE DEF S
<1> DEFINE T == S \ {0}
<1>2. \E x \in S : \A y \in S : x >= y
  <2>1. CASE T = {}
    <3>1. S = {0}
      BY <1>1, <2>1
    <3> QED BY <3>1
  <2>2. CASE T # {}
    <3>1. T \in SUBSET (1..Len(runs))
      BY <1>1
    <3>5. T \subseteq S /\ \A y \in S : y = 0 \/ y \in T
      OBVIOUS
    <3> HIDE DEF T
    <3>2. Max(T) \in T /\ \A y \in T : y <= Max(T)
      BY <1>1, <2>2, <3>1, MaxIn
    <3> DEFINE m == Max(T)
    <3>6. m \in T
      BY <3>2
    <3> HIDE DEF m
    <3>3. m \in S /\ m \in Nat /\ \A y \in S : y = 0 \/ y \in T
      BY <1>1, <3>1, <3>5, <3>6
    <3>4. \A y \in S : m >= y
      <4>1. \A y \in T : m >= y
        BY <1>1, <3>1, <3>2 DEF m
      <4> QED BY <3>3, <4>1
    <3> QED BY <3>3, <3>4
  <2> QED BY <2>1, <2>2
<1>4. Max(S) \in S
  BY <1>2 DEF Max
<1> QED BY <1>1, <1>4 DEF S
LEMMA PageEnds ==
  ASSUME ProcInv, FlowInv, NEW p \in Handlers, NEW s \in PageWords, At(p, s), proc' = Ended(p)
  PROVE  Deed(p, "engine") /\ ~Has(proc'[p], "engine")
<1>1. Deed(p, "engine")
  BY PageAt, GoneMove
<1>2. proc'[p] = Idle
  BY DEF Ended, ProcInv
<1> QED BY <1>1, <1>2, NothingAhead, KindsAre
LEMMA LatestComes == ~Comes("serve latest", "refused") /\ ~Comes("serve latest", "started") /\ ~Comes("serve latest", "serve run")
  BY DEF Comes
LEMMA ServeLatestGo ==
  ASSUME ProcInv, FlowInv, PageSafe, NEW p \in Handlers, ServeLatest(p)
  PROVE  PageSafe' /\ Deed(p, "engine")
<1>1. At(p, "serve latest") /\ "serve latest" \in PageWords
  BY PageIn DEF ServeLatest
<1> DEFINE s == "serve latest"
           last == Max({i \in DOMAIN runs : runs[i].engine = Engine(p)} \cup {0})
           x == IF last # 0 /\ runs[last].status = "running" THEN last ELSE 0
           t == Tail(proc[p].todo)
<1>2. UNCHANGED <<runs, page, panel>> /\ proc' = [proc EXCEPT ![p].todo = Tail(@), ![p].saw = x]
  BY DEF ServeLatest, engines
<1>3. RunsFirm /\ RunsOK' /\ PanelOK' /\ BannerOK'
  BY <1>2, RunsStay, PanelFirm, BannerStay DEF PageSafe
<1>4. x \in 0..Len(runs)
  <2>1. last \in 0..Len(runs)
    BY LatestSought DEF PageSafe
  <2>2. Len(runs) \in Nat
    BY RunsIn DEF PageSafe
  <2> HIDE DEF last
  <2> QED BY <2>1, <2>2
<1>5. At(p, s) /\ s \in PageWords /\ t = Tail(proc[p].todo)
  BY <1>1
<1>6. ~Comes(s, "refused") /\ ~Comes(s, "started") /\ ~Comes(s, "serve run")
  BY LatestComes
<1> HIDE DEF x, s
<1>7. Away(proc[p]) /\ s \in OtherWords /\ Kind(s) = "engine" /\ "engine" \in Kinds
  BY <1>5, PageAt
<1>8. proc' = [proc EXCEPT ![p].todo = t, ![p].saw = x]
  BY <1>2, <1>7 DEF ProcInv
<1> HIDE DEF t
<1>9. Deed(p, "engine") /\ Alters(p, {"todo", "saw"}) /\ proc'[p].todo = t /\ proc'[p].saw = x
  BY <1>5, <1>8, SawMove
<1>10. Passes(p, s)
  BY <1>5, <1>7, <1>9, Tailed
<1>11. PageOK(p)'
  <2>1. "refused" \notin Ahead(p)' /\ "started" \notin Ahead(p)' /\ "serve run" \notin Ahead(p)'
    BY <1>6, <1>10 DEF Passes
  <2>2. "serve unlock" \in Ahead(p)' => "serve unlock" \in Ahead(p)
    BY <1>10 DEF Passes
  <2>3. proc'[p].who = proc[p].who
    BY <1>9, AllFields DEF Alters
  <2>4. "serve unlock" \in Ahead(p)' => Refuses(proc[p].who)
    BY <2>2 DEF PageSafe, PageOK
  <2>5. Refuses(proc[p].who) => Refuses(proc[p].who)'
    BY <1>2, <2>3 DEF Refuses
  <2>6. proc'[p].saw \in 0..Len(runs)'
    BY <1>2, <1>4, <1>9
  <2> QED BY <2>1, <2>4, <2>5, <2>6 DEF PageOK
<1> QED BY <1>3, <1>9, <1>11, PageRequest
LEMMA ShownGo ==
  ASSUME ProcInv, FlowInv, PageSafe, NEW p \in Handlers, Latest(p) \/ Started(p) \/ Refused(p) \/ UnlockShown(p)
  PROVE  PageSafe' /\ Deed(p, "engine")
<1>1. PICK s \in {"latest", "started", "refused", "unlocked"} : At(p, s) /\ proc' = Ended(p)
  BY DEF Latest, Started, Refused, UnlockShown
<1>2. s \in PageWords
  BY <1>1, PageIn
<1>3. Deed(p, "engine") /\ ~Has(proc'[p], "engine")
  BY <1>1, <1>2, PageEnds
<1>4. s \in Ahead(p)
  BY <1>1, <1>2, PageAt
<1>5. runs' = runs
  BY DEF Latest, Started, Refused, UnlockShown
<1>6. RunsFirm /\ RunsOK'
  BY <1>5, RunsStay DEF PageSafe
<1>7. CASE Latest(p) \/ Started(p)
  <2>1. page' = page
    BY <1>7 DEF Latest, Started
  <2>2. proc[p].saw \in 0..Len(runs)
    <3>1. "latest" \in Ahead(p) \/ "started" \in Ahead(p)
      BY <1>7, PageAt, PageIn, Zenon DEF Latest, Started
    <3> QED BY <3>1 DEF PageSafe, PageOK
  <2>3. panel' = panel \/ Follow(proc[p].saw)
    BY <1>7 DEF Latest, Started
  <2>4. PanelOK'
    BY <1>6, <2>2, <2>3, PanelFirm, FollowOK DEF PageSafe
  <2> QED BY <1>3, <1>6, <2>1, <2>4, BannerStay, PageRequest DEF PageSafe
<1>8. CASE Refused(p) \/ UnlockShown(p)
  <2>1. panel' = panel
    BY <1>8 DEF Refused, UnlockShown
  <2>2. DOMAIN page = {"engine", "gen", "refused"}
    BY DEF PageSafe, BannerOK
  <2>3. page'.refused # 0 => Refuses(page'.refused)
    <3>1. CASE Refused(p)
      <4>1. "refused" \in Ahead(p)
        BY <3>1, PageAt, PageIn, Zenon DEF Refused
      <4>2. Refuses(proc[p].saw)
        BY <4>1 DEF PageSafe, PageOK
      <4>3. page'.refused = proc[p].saw
        BY <2>2, <3>1 DEF Refused
      <4> QED BY <4>2, <4>3
    <3>2. CASE UnlockShown(p)
      BY <2>2, <3>2 DEF UnlockShown
    <3> QED BY <1>8, <3>1, <3>2
  <2>4. DOMAIN page' = {"engine", "gen", "refused"}
    BY <1>8, <2>2 DEF Refused, UnlockShown
  <2>5. BannerOK'
    BY <1>5, <2>3, <2>4 DEF BannerOK, Refuses
  <2>6. PanelOK'
    BY <1>6, <2>1, PanelFirm DEF PageSafe
  <2> QED BY <1>3, <1>6, <2>5, <2>6, PageRequest
<1> QED BY <1>7, <1>8
(* An answer of the server to a request of the page, and what it will do.  *)
LEMMA SawAnswer ==
  ASSUME ProcInv, FlowInv, NEW p \in Handlers, NEW s \in PageWords, At(p, s), NEW w \in {"refused", "started"}, NEW x,
         proc' = [proc EXCEPT ![p].todo = <<w>>, ![p].saw = x]
  PROVE  Deed(p, "engine") /\ Ahead(p)' = {w} /\ proc'[p].saw = x
<1> DEFINE t == <<w>>
<1>1. t \in Seq(Kin("engine")) /\ Ordered(t) /\ Words(t) = {w}
  BY PagePrograms, Zenon
<1> HIDE DEF t
<1>2. proc' = [proc EXCEPT ![p].todo = t, ![p].saw = x]
  BY DEF t
<1>3. Deed(p, "engine") /\ proc'[p].todo = t /\ proc'[p].saw = x
  BY <1>1, <1>2, SawMove
<1> QED BY <1>1, <1>3 DEF Ahead
LEMMA RunLast ==
  ASSUME ProcInv, FlowInv, NEW p \in Handlers, At(p, "serve run")
  PROVE  "serve run" \in Ahead(p) /\ "sweep runs" \notin Ahead(p)
<1> DEFINE s == "serve run"
<1>1. s \in PageWords /\ s # "sweep runs" /\ \A w : ~Comes(s, w)
  BY PageIn DEF Comes
<1>2. s \in OtherWords /\ Kind(s) = "engine" /\ "engine" \in Kinds
  BY <1>1, PageKin, KindsAre
<1>3. At(p, s)
  OBVIOUS
<1> HIDE DEF s
<1>4. Clanned(proc[p], "engine") /\ proc[p].todo # <<>> /\ Head(proc[p].todo) = s
  BY <1>2, <1>3, AtKind
<1>5. proc[p].todo \in Seq(Kin("engine")) /\ Ordered(proc[p].todo)
  BY <1>4 DEF Clanned
<1>6. /\ Words(proc[p].todo) = {s} \cup Words(Tail(proc[p].todo))
      /\ \A w \in Words(Tail(proc[p].todo)) : Comes(s, w)
  BY <1>4, <1>5, OrderedTail
<1>7. Ahead(p) = {s}
  BY <1>1, <1>6 DEF Ahead
<1> QED BY <1>1, <1>7 DEF s
LEMMA ServeRunGo ==
  ASSUME ProcInv, FlowInv, PageSafe, NEW p \in Handlers, ServeRun(p)
  PROVE  PageSafe' /\ Deed(p, "engine")
<1> DEFINE s == "serve run"
<1>1. At(p, s) /\ s \in PageWords
  BY PageIn DEF ServeRun
<1>2. UNCHANGED <<page, panel>>
  BY DEF ServeRun
<1> HIDE DEF s
<1>3. ASSUME RunsFirm, RunsOK', Deed(p, "engine"), Has(proc'[p], "engine") => PageOK(p)'
      PROVE  PageSafe' /\ Deed(p, "engine")
  <2>1. PanelOK' /\ BannerOK'
    BY <1>2, <1>3, PanelFirm, BannerStay DEF PageSafe
  <2> QED BY <1>3, <2>1, PageRequest
<1>4. Engine(p) \in Triggerable
  <2>1. "serve run" \in Ahead(p) /\ "sweep runs" \notin Ahead(p)
    BY RunLast DEF ServeRun
  <2> QED BY <2>1 DEF PageSafe, PageOK, Engine
<1>5. ASSUME NEW run \in Running(Engine(p)), Engine(p) \in Triggerable, runs' = runs,
             proc' = [proc EXCEPT ![p].todo = <<"refused">>, ![p].saw = run]
      PROVE  PageSafe' /\ Deed(p, "engine")
  <2>1. RunsFirm /\ RunsOK'
    BY <1>5, RunsStay DEF PageSafe
  <2>2. Deed(p, "engine") /\ Ahead(p)' = {"refused"} /\ proc'[p].saw = run
    BY <1>1, <1>5, SawAnswer
  <2>3. Refuses(run)
    BY <1>5 DEF Refuses, Running
  <2>4. Refuses(proc[p].saw)'
    BY <1>5, <2>2, <2>3 DEF Refuses
  <2>5. PageOK(p)'
    BY <2>2, <2>4 DEF PageOK
  <2> QED BY <1>3, <2>1, <2>2, <2>5
<1>6. ASSUME NEW run \in 0..Len(runs)', RunsFirm, RunsOK', proc' = [proc EXCEPT ![p].todo = <<"started">>, ![p].saw = run]
      PROVE  PageSafe' /\ Deed(p, "engine")
  <2>1. Deed(p, "engine") /\ Ahead(p)' = {"started"} /\ proc'[p].saw = run
    BY <1>1, <1>6, SawAnswer
  <2>2. PageOK(p)'
    BY <1>6, <2>1 DEF PageOK
  <2> QED BY <1>3, <1>6, <2>1, <2>2
<1>7. CASE Engine(p) \in Triggerable /\ runs' = Append(runs, RunOf(Engine(p)))
             /\ proc' = [proc EXCEPT ![p].todo = <<"started">>, ![p].saw = Len(runs) + 1]
  <2>1. Engine(p) \in Engines
    BY <1>7 DEF Triggerable, Engines
  <2>2. RunsFirm /\ RunsOK' /\ Len(runs)' = Len(runs) + 1
    BY <1>7, <2>1, RunsAppend DEF PageSafe
  <2>3. Len(runs) \in Nat
    BY RunsIn DEF PageSafe
  <2>4. Len(runs) + 1 \in 0..Len(runs)'
    BY <2>2, <2>3
  <2> QED BY <1>6, <1>7, <2>2, <2>4
<1>8. CASE runs' = runs /\ proc' = [proc EXCEPT ![p].todo = <<"started">>, ![p].saw = 0]
  <2>1. RunsFirm /\ RunsOK'
    BY <1>8, RunsStay DEF PageSafe
  <2>2. 0 \in 0..Len(runs)'
    BY <2>1 DEF RunsFirm
  <2> QED BY <1>6, <1>8, <2>1, <2>2
<1>9. \/ /\ runs' = runs
         /\ \E run \in Running(Engine(p)) : proc' = [proc EXCEPT ![p].todo = <<"refused">>, ![p].saw = run]
      \/ runs' = Append(runs, RunOf(Engine(p)))
           /\ proc' = [proc EXCEPT ![p].todo = <<"started">>, ![p].saw = Len(runs) + 1]
      \/ runs' = runs /\ proc' = [proc EXCEPT ![p].todo = <<"started">>, ![p].saw = 0]
  BY ZenonT(40) DEF ServeRun
<1> QED BY <1>4, <1>5, <1>7, <1>8, <1>9
(* Rows are closed.                                                        *)
LEMMA ClosedFirm ==
  ASSUME RunsOK, NEW rows, \A i \in rows : i \in DOMAIN runs /\ runs[i].status = "running", runs' = Closed(rows)
  PROVE  RunsFirm /\ RunsOK'
<1>1. runs' = [i \in DOMAIN runs |-> IF i \in rows THEN [runs[i] EXCEPT !.status = "failed", !.forced = @ \/ runs[i].live]
                                                   ELSE runs[i]]
  BY DEF Closed
<1>2. \A i \in DOMAIN runs : runs[i] \in RunRow /\ DOMAIN runs[i] = {"engine", "status", "live", "forced"}
  BY RunsIn
<1>3. DOMAIN runs' = DOMAIN runs /\ runs' = [i \in DOMAIN runs |-> runs'[i]]
  BY <1>1
<1>4. ASSUME NEW i \in DOMAIN runs
      PROVE  /\ runs'[i] \in RunRow /\ runs'[i].engine = runs[i].engine /\ (runs[i].forced => runs'[i].forced)
             /\ (runs'[i].status = runs[i].status \/ runs[i].status = "running" \/ runs[i].forced)
             /\ (runs'[i].live /\ runs'[i].status # "running" => runs'[i].forced)
  <2>1. CASE i \notin rows
    BY <1>1, <1>2, <2>1 DEF RunsOK
  <2>2. CASE i \in rows
    <3>1. runs'[i] = [runs[i] EXCEPT !.status = "failed", !.forced = @ \/ runs[i].live]
      BY <1>1, <2>2
    <3>2. runs[i] \in RunRow /\ runs[i].status = "running"
      BY <1>2, <2>2
    <3> QED BY <3>1, <3>2 DEF RunRow
  <2> QED BY <2>1, <2>2
<1> QED BY <1>3, <1>4, RunsWritten
LEMMA SpanGrows == \A a, b \in Nat : \A x : a <= b /\ x \in 0..a => x \in 0..b
  OBVIOUS
LEMMA TurnedPage ==
  ASSUME ProcInv, FlowInv, PageSafe, NEW p \in Handlers, NEW s \in PageWords, At(p, s), proc' = Advance(p),
         UNCHANGED <<page, panel>>, RunsFirm, RunsOK', s = "sweep runs" => proc[p].id \in Triggerable
  PROVE  PageSafe' /\ Deed(p, "engine")
<1>1. Away(proc[p]) /\ s \in OtherWords /\ Kind(s) = "engine" /\ "engine" \in Kinds
  BY PageAt
<1>2. Deed(p, "engine") /\ (proc'[p] = Idle \/ (Alters(p, {"todo"}) /\ Passes(p, s)))
  BY <1>1, TurnMove
<1>3. ASSUME Has(proc'[p], "engine") PROVE PageOK(p)'
  <2>1. Alters(p, {"todo"}) /\ Passes(p, s)
    BY <1>2, <1>3, NothingAhead, KindsAre
  <2>2. proc'[p].saw = proc[p].saw /\ proc'[p].who = proc[p].who /\ proc'[p].id = proc[p].id
    BY <2>1, AllFields DEF Alters
  <2>3. PageOK(p)
    BY DEF PageSafe
  <2>4. proc[p].saw \in 0..Len(runs) => proc'[p].saw \in 0..Len(runs)'
    <3>1. Len(runs) \in Nat /\ Len(runs)' \in Nat /\ Len(runs) <= Len(runs)'
      BY RunsIn, Zenon DEF RunsFirm, PageSafe
    <3> QED BY <2>2, <3>1, SpanGrows, Zenon
  <2>5. (Refuses(proc[p].saw) => Refuses(proc[p].saw)') /\ (Refuses(proc[p].who) => Refuses(proc[p].who)')
    BY <2>2, RefusesFirm DEF Refuses, RunsFirm
  <2>6. Ahead(p) = {s} \cup Ahead(p)'
    BY <2>1 DEF Passes
  <2>7. "serve run" \in Ahead(p)' /\ "sweep runs" \notin Ahead(p)' => proc'[p].id \in Triggerable
    BY <2>2, <2>3, <2>6 DEF PageOK
  <2> QED BY <2>2, <2>3, <2>4, <2>5, <2>6, <2>7 DEF PageOK
<1>4. PanelOK' /\ BannerOK'
  BY PanelFirm, BannerStay DEF PageSafe
<1> QED BY <1>2, <1>3, <1>4, PageRequest
LEMMA SweepRunsGo ==
  ASSUME ProcInv, FlowInv, PageSafe, NEW p \in Handlers, SweepRuns(p)
  PROVE  PageSafe' /\ Deed(p, "engine")
<1> DEFINE s == "sweep runs"
<1>1. At(p, s) /\ s \in PageWords
  BY PageIn DEF SweepRuns
<1>2. UNCHANGED <<page, panel>>
  BY DEF SweepRuns
<1>3. \/ proc' = Ended(p) /\ runs' = runs
      \/ /\ Engine(p) \in Triggerable /\ proc' = Advance(p)
         /\ \E n \in Running(Engine(p)) \cup {0} : runs' = Closed(Stale(Engine(p), n))
  BY DEF SweepRuns
<1> HIDE DEF s
<1>4. CASE proc' = Ended(p) /\ runs' = runs
  <2>1. RunsFirm /\ RunsOK' /\ PanelOK' /\ BannerOK'
    BY <1>2, <1>4, RunsStay, PanelFirm, BannerStay DEF PageSafe
  <2> QED BY <1>1, <1>4, <2>1, PageEnds, PageRequest
<1>5. CASE /\ Engine(p) \in Triggerable /\ proc' = Advance(p)
           /\ \E n \in Running(Engine(p)) \cup {0} : runs' = Closed(Stale(Engine(p), n))
  <2>1. PICK n : runs' = Closed(Stale(Engine(p), n))
    BY <1>5
  <2> DEFINE rows == Stale(Engine(p), n)
  <2>2. runs' = Closed(rows) /\ \A i \in rows : i \in DOMAIN runs /\ runs[i].status = "running"
    BY <2>1 DEF Stale, Running
  <2> HIDE DEF rows
  <2>3. RunsFirm /\ RunsOK'
    BY <2>2, ClosedFirm DEF PageSafe
  <2>4. proc[p].id \in Triggerable
    BY <1>5 DEF Engine
  <2> QED BY <1>1, <1>2, <1>5, <2>3, <2>4, TurnedPage
<1> QED BY <1>3, <1>4, <1>5
LEMMA UnlockRowsGo ==
  ASSUME ProcInv, FlowInv, PageSafe, NEW p \in Handlers, UnlockRows(p)
  PROVE  PageSafe' /\ Deed(p, "engine")
<1> DEFINE s == "serve unlock"
           rows == IF Engine(p) \in Triggerable THEN Running(Engine(p)) ELSE {}
<1>1. At(p, s) /\ s \in PageWords /\ s # "sweep runs"
  BY PageIn DEF UnlockRows, Unlocked
<1>2. proc' = Advance(p) /\ UNCHANGED <<page, panel>> /\ runs' = Closed(rows)
  BY DEF UnlockRows, Unlocked
<1>3. \A i \in rows : i \in DOMAIN runs /\ runs[i].status = "running"
  BY DEF Running
<1> HIDE DEF s, rows
<1>4. RunsFirm /\ RunsOK'
  BY <1>2, <1>3, ClosedFirm DEF PageSafe
<1> QED BY <1>1, <1>2, <1>4, TurnedPage
(* The steps of the panel, and of the runs elsewhere.                      *)
LEMMA PanelGo ==
  ASSUME PageSafe, AskStatus \/ ServeStatus \/ PollFails \/ ShowStatus \/ Dismiss
  PROVE  PanelOK' /\ UNCHANGED <<proc, runs, page>>
<1>1. UNCHANGED <<proc, runs, page>>
  BY DEF AskStatus, ServeStatus, PollFails, StatusFails, ShowStatus, Dismiss, requests
<1>2. DOMAIN panel = PanelFields /\ panel.run \in 0..Len(runs)
  BY DEF PageSafe, PanelOK
<1>4. CASE Dismiss
  <2>1. panel' = NoPanel
    BY <1>4 DEF Dismiss
  <2>2. 0 \in 0..Len(runs)'
    BY <1>1, RunsIn DEF PageSafe
  <2>3. DOMAIN panel' = PanelFields /\ panel'.run = 0 /\ panel'.poll = "off" /\ ~panel'.open
    BY <2>1 DEF NoPanel, PanelFields
  <2> QED BY <1>1, <2>2, <2>3 DEF PanelOK
<1>5. CASE AskStatus
  <2>1. panel' = [panel EXCEPT !.poll = "asked"]
    BY <1>5 DEF AskStatus
  <2>2. DOMAIN panel' = PanelFields /\ panel'.poll = "asked" /\ panel'.run = panel.run
    BY <1>2, <2>1 DEF PanelFields
  <2> QED BY <1>1, <1>2, <2>2 DEF PanelOK
<1>6. CASE ServeStatus
  <2>1. panel' = [panel EXCEPT !.poll = "answered", !.got = IF panel.run = 0 THEN "missing" ELSE runs[panel.run].status]
    BY <1>6 DEF ServeStatus
  <2>2. /\ DOMAIN panel' = PanelFields /\ panel'.poll = "answered" /\ panel'.run = panel.run
        /\ panel.run # 0 => panel'.got = runs[panel.run].status
    BY <1>2, <2>1 DEF PanelFields
  <2> QED BY <1>1, <1>2, <2>2 DEF PanelOK
<1>7. CASE PollFails
  <2>1. panel' = [panel EXCEPT !.poll = "due", !.shown = IF @ = "none" THEN "error" ELSE @]
    BY <1>7 DEF PollFails, StatusFails
  <2>2. DOMAIN panel' = PanelFields /\ panel'.poll = "due" /\ panel'.run = panel.run
    BY <1>2, <2>1 DEF PanelFields
  <2> QED BY <1>1, <1>2, <2>2 DEF PanelOK
<1>8. CASE ShowStatus
  <2>1. /\ panel' = [panel EXCEPT !.shown = panel.got, !.poll = IF panel.got = "running" THEN "due" ELSE "off"]
        /\ panel.poll = "answered"
    BY <1>8 DEF ShowStatus
  <2>2. /\ DOMAIN panel' = PanelFields /\ panel'.shown = panel.got /\ panel'.run = panel.run
        /\ panel'.poll = IF panel.got = "running" THEN "due" ELSE "off"
    BY <1>2, <2>1 DEF PanelFields
  <2>3. panel'.poll \in {"due", "off"} /\ (panel'.poll = "off" => panel.got # "running")
    BY <2>2
  <2>4. panel.run # 0 => panel.got = "running" \/ runs[panel.run].forced
                           \/ (runs[panel.run].status # "running" /\ panel.got = runs[panel.run].status)
    BY <2>1 DEF PageSafe, PanelOK
  <2> QED BY <1>1, <1>2, <2>2, <2>3, <2>4 DEF PanelOK
<1> QED BY <1>1, <1>4, <1>5, <1>6, <1>7, <1>8
LEMMA RunsGo ==
  ASSUME PageSafe, RowArrives \/ StartElsewhere \/ EndRun \/ RunDies \/ CloseElsewhere
  PROVE  RunsFirm /\ RunsOK' /\ UNCHANGED <<proc, page, panel>>
<1>1. UNCHANGED <<proc, page, panel>>
  BY DEF RowArrives, StartElsewhere, EndRun, RunDies, CloseElsewhere, requests
<1>2. CASE RowArrives \/ StartElsewhere
  <2>1. PICK e \in Engines : runs' = Append(runs, RunOf(e))
    BY <1>2 DEF RowArrives, StartElsewhere, Engines
  <2> QED BY <1>1, <2>1, RunsAppend DEF PageSafe
<1>3. CASE EndRun \/ RunDies
  <2>1. PICK i \in DOMAIN runs : /\ runs[i].live
                                 /\ runs' = [runs EXCEPT ![i].live = FALSE, ![i].status = "success"]
                                      \/ runs' = [runs EXCEPT ![i].live = FALSE]
    BY <1>3 DEF EndRun, RunDies
  <2>2. \A j \in DOMAIN runs : runs[j] \in RunRow /\ DOMAIN runs[j] = {"engine", "status", "live", "forced"}
    BY RunsIn DEF PageSafe
  <2>3. DOMAIN runs' = DOMAIN runs /\ runs' = [j \in DOMAIN runs |-> runs'[j]]
    BY <2>1
  <2>4. ASSUME NEW j \in DOMAIN runs
        PROVE  /\ runs'[j] \in RunRow /\ runs'[j].engine = runs[j].engine /\ (runs[j].forced => runs'[j].forced)
               /\ (runs'[j].status = runs[j].status \/ runs[j].status = "running" \/ runs[j].forced)
               /\ (runs'[j].live /\ runs'[j].status # "running" => runs'[j].forced)
    <3>1. CASE j # i
      <4>1. runs'[j] = runs[j]
        BY <2>1, <3>1
      <4> QED BY <2>2, <4>1 DEF PageSafe, RunsOK
    <3>2. CASE j = i
      <4>1. runs'[j] = [runs[j] EXCEPT !.live = FALSE, !.status = "success"] \/ runs'[j] = [runs[j] EXCEPT !.live = FALSE]
        BY <2>1, <3>2
      <4>2. runs[j].status = "running" \/ runs[j].forced
        BY <2>1, <3>2 DEF PageSafe, RunsOK
      <4>3. runs[j] \in RunRow
        BY <2>2
      <4>4. CASE runs'[j] = [runs[j] EXCEPT !.live = FALSE, !.status = "success"]
        BY <4>2, <4>3, <4>4 DEF RunRow
      <4>5. CASE runs'[j] = [runs[j] EXCEPT !.live = FALSE]
        BY <4>2, <4>3, <4>5 DEF RunRow
      <4> QED BY <4>1, <4>4, <4>5
    <3> QED BY <3>1, <3>2
  <2> QED BY <1>1, <2>3, <2>4, RunsWritten DEF PageSafe
<1>4. CASE CloseElsewhere
  <2>1. PICK e, n : runs' = Closed(Stale(e, n))
    BY <1>4 DEF CloseElsewhere
  <2> DEFINE rows == Stale(e, n)
  <2>2. runs' = Closed(rows) /\ \A i \in rows : i \in DOMAIN runs /\ runs[i].status = "running"
    BY <2>1 DEF Stale, Running
  <2> HIDE DEF rows
  <2> QED BY <1>1, <2>2, ClosedFirm DEF PageSafe
<1> QED BY <1>2, <1>3, <1>4
(* A step of the page is a deed of one of its requests, or leaves the      *)
(* requests alone; nothing else of the console changes.                    *)
LEMMA PageWorks ==
  ASSUME ProcInv, FlowInv, PageSafe, PageStep
  PROVE  /\ PageSafe' /\ ((\E p \in Handlers : Deed(p, "engine")) \/ proc' = proc)
         /\ UNCHANGED <<accounts, tenancy, book, lists>>
<1>1. UNCHANGED <<accounts, tenancy, book, lists>>
  BY DEF PageStep, Select, ServeLatest, Latest, RunNow, SweepRuns, ServeRun, Started, Refused, Unlock, UnlockRows, Unlocked, UnlockShown,
         AskStatus, ServeStatus, PollFails, StatusFails, ShowStatus, Dismiss, RowArrives, StartElsewhere, EndRun, RunDies,
         CloseElsewhere, beside
<1>2. ASSUME NEW p \in Handlers, PageMove(p) PROVE PageSafe' /\ Deed(p, "engine")
  BY <1>2, PageAsks, ServeLatestGo, ShownGo, SweepRunsGo, ServeRunGo, UnlockRowsGo DEF PageMove
<1>3. ASSUME PageAlone PROVE PageSafe' /\ proc' = proc
  <2>1. RunsFirm /\ RunsOK' /\ PanelOK' /\ BannerOK' /\ proc' = proc
    BY <1>3, PanelGo, RunsGo, RunsStay, PanelFirm, BannerStay DEF PageSafe, PageAlone
  <2>2. \A q \in Handlers : Has(proc'[q], "engine") => Intact(q, "engine")
    BY <2>1, ProcStays, KindsAre
  <2> QED BY <2>1, <2>2, PageNext
<1>4. (\E p \in Handlers : PageMove(p)) \/ PageAlone
  BY DEF PageStep, PageMove, PageAlone
<1> QED BY <1>1, <1>2, <1>3, <1>4
LEMMA PageStarts == Init => PageSafe
<1> SUFFICES ASSUME Init PROVE PageSafe
  OBVIOUS
<1>1. runs = <<>> /\ page = [engine |-> 0, gen |-> 0, refused |-> 0] /\ panel = NoPanel
  BY DEF Init, PageInit
<1>2. RunsOK /\ Len(runs) = 0
  BY <1>1 DEF RunsOK
<1>3. PanelOK
  BY <1>1, <1>2, PanelAre DEF PanelOK
<1>4. BannerOK
  BY <1>1 DEF BannerOK
<1>5. \A q \in Handlers : Ahead(q) = {}
  BY OrderedShort DEF Init, Idle, Ahead
<1> QED BY <1>2, <1>3, <1>4, <1>5 DEF PageSafe, PageOK

-----------------------------------------------------------------------------
(* The page of leads *)

LEMMA DeskKin == \A w \in DeskWords : w \in Kin("desk") /\ w \in OtherWords /\ Kind(w) = "desk"
<1>1. \A w \in DeskWords : w \in OtherWords
  BY DEF OtherWords
<1> QED BY <1>1, DeskKind, KinHas
LEMMA DeskIn ==
  /\ "serve rows" \in DeskWords /\ "rows" \in DeskWords /\ "serve detail" \in DeskWords /\ "detail" \in DeskWords
  /\ "find lead" \in DeskWords /\ "patch" \in DeskWords /\ "note saved" \in DeskWords /\ "reject" \in DeskWords
  /\ "rejected" \in DeskWords /\ "dry run" \in DeskWords /\ "confirm" \in DeskWords
  BY DEF DeskWords
LEMMA DeskServes ==
  "rows" \in Serving("desk") /\ "detail" \in Serving("desk") /\ "note" \in Serving("desk") /\ "bulk" \in Serving("desk")
    /\ "dry" \in Serving("desk")
  BY DEF Serving
LEMMA FourWords ==
  ASSUME NEW S, NEW a \in S, NEW b \in S, NEW c \in S, NEW d \in S
  PROVE  /\ <<a, b, c, d>> \in Seq(S) /\ Words(<<a, b, c, d>>) = {a, b, c, d}
         /\ (Comes(a, b) /\ Comes(a, c) /\ Comes(a, d) /\ Comes(b, c) /\ Comes(b, d) /\ Comes(c, d) => Ordered(<<a, b, c, d>>))
  BY DEF Ordered, Words
LEMMA DeskComes ==
  /\ Comes("serve rows", "rows") /\ Comes("serve detail", "detail") /\ Comes("dry run", "confirm")
  /\ Comes("find lead", "patch") /\ Comes("find lead", "note saved") /\ Comes("patch", "note saved")
  /\ Comes("reject", "rejected") /\ Comes("reject", "serve rows") /\ Comes("reject", "rows")
  /\ Comes("rejected", "serve rows") /\ Comes("rejected", "rows")
<1>1. Comes("serve rows", "rows") /\ Comes("serve detail", "detail") /\ Comes("dry run", "confirm")
  BY ZenonT(60) DEF Comes
<1>2. Comes("find lead", "patch") /\ Comes("find lead", "note saved") /\ Comes("patch", "note saved")
  BY ZenonT(60) DEF Comes
<1>3. Comes("reject", "rejected") /\ Comes("reject", "serve rows") /\ Comes("reject", "rows")
  BY ZenonT(60) DEF Comes
<1>4. Comes("rejected", "serve rows") /\ Comes("rejected", "rows")
  BY ZenonT(60) DEF Comes
<1> QED BY <1>1, <1>2, <1>3, <1>4
DeskProgram(t, ws) == t \in Seq(Kin("desk")) /\ Ordered(t) /\ Words(t) = ws
LEMMA DeskPrograms ==
  /\ DeskProgram(<<"serve rows", "rows">>, {"serve rows", "rows"})
  /\ DeskProgram(<<"serve detail", "detail">>, {"serve detail", "detail"})
  /\ DeskProgram(<<"find lead", "patch", "note saved">>, {"find lead", "patch", "note saved"})
  /\ DeskProgram(<<"reject", "rejected", "serve rows", "rows">>, {"reject", "rejected", "serve rows", "rows"})
  /\ DeskProgram(<<"dry run", "confirm">>, {"dry run", "confirm"})
<1>1. \A w \in DeskWords : w \in Kin("desk")
  BY DeskKin
<1>2. \A a, b \in DeskWords : Comes(a, b) => DeskProgram(<<a, b>>, {a, b})
  <2> SUFFICES ASSUME NEW a \in DeskWords, NEW b \in DeskWords, Comes(a, b) PROVE DeskProgram(<<a, b>>, {a, b})
    OBVIOUS
  <2>1. <<a, b>> \in Seq(Kin("desk"))
    BY <1>1, TwoIn
  <2> QED BY <2>1, OrderedShort DEF DeskProgram
<1>3. \A a, b, c \in DeskWords : Comes(a, b) /\ Comes(a, c) /\ Comes(b, c) => DeskProgram(<<a, b, c>>, {a, b, c})
  BY <1>1, ThreeWords DEF DeskProgram
<1>4. \A a, b, c, d \in DeskWords :
        Comes(a, b) /\ Comes(a, c) /\ Comes(a, d) /\ Comes(b, c) /\ Comes(b, d) /\ Comes(c, d) =>
          DeskProgram(<<a, b, c, d>>, {a, b, c, d})
  BY <1>1, FourWords DEF DeskProgram
<1>5. DeskProgram(<<"serve rows", "rows">>, {"serve rows", "rows"})
  BY <1>2, DeskIn, DeskComes, Zenon
<1>6. DeskProgram(<<"serve detail", "detail">>, {"serve detail", "detail"})
  BY <1>2, DeskIn, DeskComes, Zenon
<1>7. DeskProgram(<<"find lead", "patch", "note saved">>, {"find lead", "patch", "note saved"})
  BY <1>3, DeskIn, DeskComes, Zenon
<1>8. DeskProgram(<<"reject", "rejected", "serve rows", "rows">>, {"reject", "rejected", "serve rows", "rows"})
  BY <1>4, DeskIn, DeskComes, Zenon
<1>9. DeskProgram(<<"dry run", "confirm">>, {"dry run", "confirm"})
  BY <1>2, DeskIn, DeskComes, Zenon
<1> QED BY <1>5, <1>6, <1>7, <1>8, <1>9, Zenon

(* What a request of the page is about, and its awaits.                    *)
Asking(p, op, id, who, marks, no, ws) ==
  /\ Only(p) /\ DOMAIN proc'[p] = Fields
  /\ proc'[p].op = op /\ proc'[p].id = id /\ proc'[p].who = who /\ proc'[p].marks = marks /\ proc'[p].no = no
  /\ Ahead(p)' = ws
LEMMA AskingMove ==
  ASSUME ProcInv, NEW p \in Handlers, NEW kind, NEW r, Begin(p, kind, r), DOMAIN r = Fields, r.op \in Serving("desk"),
         NEW t, NEW ws, DeskProgram(t, ws), r.todo = t
  PROVE  Deed(p, "desk") /\ Asking(p, r.op, r.id, r.who, r.marks, calls + 1, ws)
<1>1. Clanned(r, "desk")
  BY DEF Clanned, DeskProgram
<1>2. Deed(p, "desk") /\ Only(p) /\ DOMAIN proc'[p] = Fields /\ proc'[p].no = calls + 1 /\ \A f \in Fields \ {"no"} : proc'[p][f] = r[f]
  BY <1>1, DeedBegun
<1>3. proc'[p].op = r.op /\ proc'[p].id = r.id /\ proc'[p].who = r.who /\ proc'[p].marks = r.marks /\ proc'[p].todo = r.todo
  BY <1>2, AllFields
<1> QED BY <1>2, <1>3 DEF Asking, Ahead, DeskProgram
LEMMA BrowserIs ==
  \A op, i, t : LET r == Browser(op, i, t) IN
    DOMAIN r = Fields /\ r.op = op /\ r.id = i /\ r.who = 0 /\ r.marks = {} /\ r.no = 0 /\ r.todo = t
  BY DEF Browser, Idle, Fields
LEMMA RowsIs ==
  \A asked : LET r == RowsOf(asked) IN
    /\ DOMAIN r = Fields /\ r.op = "rows" /\ r.id = asked[1] /\ r.who = asked[2] /\ r.marks = {} /\ r.no = 0
    /\ r.todo = <<"serve rows", "rows">>
  BY DEF RowsOf, Browser, Idle, Fields
RowsWords == {"serve rows", "rows"}
LEMMA FetchLeadsMove ==
  ASSUME ProcInv, NEW p \in Handlers, NEW asked, FetchLeads(p, asked)
  PROVE  Deed(p, "desk") /\ Asking(p, "rows", asked[1], asked[2], {}, calls + 1, RowsWords)
<1> DEFINE r == RowsOf(asked)
           t == <<"serve rows", "rows">>
           kind == "leads page"
           op == "rows"
<1>1. Begin(p, kind, r)
  BY DEF FetchLeads
<1>2. /\ DOMAIN r = Fields /\ r.op = op /\ r.id = asked[1] /\ r.who = asked[2] /\ r.marks = {} /\ r.todo = t
  BY RowsIs
<1>3. op \in Serving("desk")
  BY DeskServes
<1>4. DeskProgram(t, RowsWords)
  BY DeskPrograms DEF RowsWords
<1> HIDE DEF r, t, kind, op
<1>5. Deed(p, "desk") /\ Asking(p, r.op, r.id, r.who, r.marks, calls + 1, RowsWords)
  BY <1>1, <1>2, <1>3, <1>4, AskingMove
<1>6. Asking(p, op, asked[1], asked[2], {}, calls + 1, RowsWords)
  BY <1>2, <1>5
<1> QED BY <1>5, <1>6 DEF op
LEMMA DetailMove ==
  ASSUME ProcInv, NEW p \in Handlers, OpenDetail(p)
  PROVE  Deed(p, "desk") /\ \E l \in desk.shown : Opening(p, l, 0) /\ Asking(p, "detail", l, 0, {}, calls + 1, {"serve detail", "detail"})
<1> DEFINE t == <<"serve detail", "detail">>
           ws == {"serve detail", "detail"}
           op == "detail"
           kind == "leads page"
<1>1. PICK l \in desk.shown : Opening(p, l, 0)
  BY DEF OpenDetail
<1> DEFINE r == Browser(op, l, t)
<1>2. Begin(p, kind, r)
  BY <1>1 DEF Opening
<1>3. op \in Serving("desk") /\ DeskProgram(t, ws)
  BY DeskServes, DeskPrograms
<1> HIDE DEF t, op, kind, ws
<1>4. DOMAIN r = Fields /\ r.op = op /\ r.id = l /\ r.who = 0 /\ r.marks = {} /\ r.todo = t
  BY BrowserIs
<1> HIDE DEF r
<1>5. Deed(p, "desk") /\ Asking(p, r.op, r.id, r.who, r.marks, calls + 1, ws)
  BY <1>2, <1>3, <1>4, AskingMove
<1>6. Asking(p, op, l, 0, {}, calls + 1, ws)
  BY <1>4, <1>5
<1> QED BY <1>1, <1>5, <1>6 DEF op, ws
LEMMA BlurMove ==
  ASSUME ProcInv, NEW p \in Handlers, HandleBlur(p)
  PROVE  Deed(p, "desk") /\ Asking(p, "note", desk.lead, 0, {}, calls + 1, {"find lead", "patch", "note saved"})
<1> DEFINE t == <<"find lead", "patch", "note saved">>
           ws == {"find lead", "patch", "note saved"}
           op == "note"
           kind == "leads page"
           r == Browser(op, desk.lead, t)
<1>2. Begin(p, kind, r)
  BY DEF HandleBlur
<1>3. op \in Serving("desk") /\ DeskProgram(t, ws)
  BY DeskServes, DeskPrograms
<1> HIDE DEF t, op, kind, ws
<1>4. DOMAIN r = Fields /\ r.op = op /\ r.id = desk.lead /\ r.who = 0 /\ r.marks = {} /\ r.todo = t
  BY BrowserIs
<1> HIDE DEF r
<1>5. Deed(p, "desk") /\ Asking(p, r.op, r.id, r.who, r.marks, calls + 1, ws)
  BY <1>2, <1>3, <1>4, AskingMove
<1>6. Asking(p, op, desk.lead, 0, {}, calls + 1, ws)
  BY <1>4, <1>5
<1> QED BY <1>5, <1>6 DEF op, ws
LEMMA RejectMove ==
  ASSUME ProcInv, NEW p \in Handlers, BulkReject(p)
  PROVE  Deed(p, "desk") /\ Asking(p, "bulk", desk.filter, desk.page, desk.picked, calls + 1, {"reject", "rejected", "serve rows", "rows"})
<1> DEFINE t == <<"reject", "rejected", "serve rows", "rows">>
           ws == {"reject", "rejected", "serve rows", "rows"}
           op == "bulk"
           b == Browser(op, desk.filter, t)
           r == [b EXCEPT !.who = desk.page, !.marks = desk.picked]
<1>2. Begin(p, op, r)
  BY DEF BulkReject
<1>3. op \in Serving("desk") /\ DeskProgram(t, ws)
  BY DeskServes, DeskPrograms
<1> HIDE DEF t, op, ws
<1>4. DOMAIN b = Fields /\ b.op = op /\ b.id = desk.filter /\ b.todo = t
  BY BrowserIs
<1> HIDE DEF b
<1>5. DOMAIN r = Fields /\ r.op = op /\ r.id = desk.filter /\ r.who = desk.page /\ r.marks = desk.picked /\ r.todo = t
  BY <1>4, AllFields
<1> HIDE DEF r
<1>6. Deed(p, "desk") /\ Asking(p, r.op, r.id, r.who, r.marks, calls + 1, ws)
  BY <1>2, <1>3, <1>5, AskingMove
<1>7. Asking(p, op, desk.filter, desk.page, desk.picked, calls + 1, ws)
  BY <1>5, <1>6
<1> QED BY <1>6, <1>7 DEF op, ws
LEMMA PickedMove ==
  ASSUME ProcInv, NEW p \in Handlers, RetryPicked(p)
  PROVE  Deed(p, "desk") /\ \E i \in PageStages : Asking(p, "dry", i, 0, desk.picked, calls + 1, {"dry run", "confirm"})
<1> DEFINE t == <<"dry run", "confirm">>
           ws == {"dry run", "confirm"}
           op == "dry"
           kind == "again"
<1>1. PICK i \in PageStages : Begin(p, kind, [Browser(op, i, t) EXCEPT !.marks = desk.picked])
  BY DEF RetryPicked
<1> DEFINE b == Browser(op, i, t)
           r == [b EXCEPT !.marks = desk.picked]
<1>2. Begin(p, kind, r)
  BY <1>1
<1>3. op \in Serving("desk") /\ DeskProgram(t, ws)
  BY DeskServes, DeskPrograms
<1> HIDE DEF t, op, ws, kind
<1>4. DOMAIN b = Fields /\ b.op = op /\ b.id = i /\ b.who = 0 /\ b.todo = t
  BY BrowserIs
<1> HIDE DEF b
<1>5. DOMAIN r = Fields /\ r.op = op /\ r.id = i /\ r.who = 0 /\ r.marks = desk.picked /\ r.todo = t
  BY <1>4, AllFields
<1> HIDE DEF r
<1>6. Deed(p, "desk") /\ Asking(p, r.op, r.id, r.who, r.marks, calls + 1, ws)
  BY <1>2, <1>3, <1>5, AskingMove
<1>7. Asking(p, op, i, 0, desk.picked, calls + 1, ws)
  BY <1>5, <1>6
<1> QED BY <1>6, <1>7 DEF op, ws
LEMMA StreamEndsMove ==
  ASSUME ProcInv, NEW p \in Handlers, NEW asked, proc' = [proc EXCEPT ![p] = RowsOf(asked)]
  PROVE  Deed(p, "desk") /\ Asking(p, "rows", asked[1], asked[2], {}, 0, RowsWords)
<1> DEFINE r == RowsOf(asked)
           t == <<"serve rows", "rows">>
           op == "rows"
<1>2. DOMAIN r = Fields /\ r.op = op /\ r.id = asked[1] /\ r.who = asked[2] /\ r.marks = {} /\ r.no = 0 /\ r.todo = t
  BY RowsIs
<1>3. op \in Serving("desk")
  BY DeskServes
<1>4. DeskProgram(t, RowsWords)
  BY DeskPrograms DEF RowsWords
<1>5. proc' = [proc EXCEPT ![p] = r]
  OBVIOUS
<1> HIDE DEF r, t, op
<1>6. Only(p) /\ proc'[p] = r
  BY <1>5, SetOK
<1>7. Clanned(r, "desk")
  BY <1>2, <1>3, <1>4 DEF Clanned, DeskProgram
<1>8. Deed(p, "desk")
  BY <1>2, <1>6, <1>7 DEF Deed
<1>9. Asking(p, op, asked[1], asked[2], {}, 0, RowsWords)
  BY <1>2, <1>4, <1>6 DEF Asking, Ahead, DeskProgram
<1> QED BY <1>8, <1>9 DEF op
LEMMA DeskAt ==
  ASSUME ProcInv, FlowInv, NEW p \in Handlers, NEW s \in DeskWords, At(p, s)
  PROVE  /\ Away(proc[p]) /\ s \in Ahead(p) /\ s \in OtherWords /\ Kind(s) = "desk" /\ "desk" \in Kinds
         /\ proc[p].op \in Serving("desk") /\ Ahead(p) \subseteq Kin("desk")
<1>1. Clanned(proc[p], "desk") /\ Away(proc[p]) /\ s \in Ahead(p) /\ s \in OtherWords /\ Kind(s) = "desk" /\ "desk" \in Kinds
  BY DeskKin, KindsAre, AtKind DEF Ahead
<1> QED BY <1>1, WordsOf DEF Clanned, Ahead
LEMMA DeskEnds ==
  ASSUME ProcInv, FlowInv, NEW p \in Handlers, NEW s \in DeskWords, At(p, s), proc' = Ended(p)
  PROVE  Deed(p, "desk") /\ Only(p) /\ proc'[p] = Idle
<1>1. Deed(p, "desk")
  BY DeskAt, GoneMove
<1> QED BY <1>1 DEF Ended, ProcInv, Only
LEMMA DeskTurns ==
  ASSUME ProcInv, FlowInv, NEW p \in Handlers, NEW s \in DeskWords, At(p, s), proc' = Advance(p)
  PROVE  Deed(p, "desk") /\ Only(p) /\ (proc'[p] = Idle \/ (Alters(p, {"todo"}) /\ Passes(p, s)))
  BY DeskAt, TurnMove
LEMMA ServeRowsMove ==
  ASSUME ProcInv, FlowInv, NEW p \in Handlers, ServeRows(p)
  PROVE  /\ At(p, "serve rows") /\ Deed(p, "desk") /\ Alters(p, {"todo", "marks", "locks", "saw"}) /\ Passes(p, "serve rows")
<1> DEFINE s == "serve rows"
           fs == {"todo", "marks", "locks", "saw"}
           t == Tail(proc[p].todo)
<1>1. At(p, s) /\ s \in DeskWords
  BY DeskIn DEF ServeRows
<1>2. PICK x, y, z : proc' = [proc EXCEPT ![p].todo = Tail(@), ![p].marks = x, ![p].locks = y, ![p].saw = z]
  BY DEF ServeRows
<1> HIDE DEF s
<1>3. Away(proc[p]) /\ s \in OtherWords /\ Kind(s) = "desk" /\ "desk" \in Kinds
  BY <1>1, DeskAt
<1>4. proc' = [proc EXCEPT ![p].todo = t, ![p].marks = x, ![p].locks = y, ![p].saw = z]
  BY <1>2, <1>3 DEF ProcInv
<1> HIDE DEF t
<1>5. Alters(p, {"todo", "marks", "locks", "saw"}) /\ proc'[p].todo = t
  BY <1>3, <1>4, SetRows
<1>6. Alters(p, fs) /\ "op" \notin fs /\ proc'[p].todo = Tail(proc[p].todo)
  BY <1>5 DEF t
<1>7. Passes(p, s)
  BY <1>1, <1>3, <1>6, Tailed
<1> HIDE DEF fs
<1>8. Deed(p, "desk")
  BY <1>1, <1>3, <1>6, AltersMove
<1> QED BY <1>1, <1>6, <1>7, <1>8 DEF s, fs
LEMMA BulkStatusMove ==
  ASSUME ProcInv, FlowInv, NEW p \in Handlers, BulkStatus(p)
  PROVE  /\ At(p, "reject") /\ Deed(p, "desk") /\ Alters(p, {"todo", "marks"})
         /\ proc'[p].todo = proc[p].todo \/ Passes(p, "reject")
<1> DEFINE s == "reject"
           fs == {"todo", "marks"}
<1>1. At(p, s) /\ s \in DeskWords
  BY DeskIn DEF BulkStatus
<1>2. PICK l \in proc[p].marks : proc' = [proc EXCEPT ![p].marks = @ \ {l}, ![p].todo = IF proc[p].marks = {l} THEN Tail(@) ELSE @]
  BY DEF BulkStatus
<1> HIDE DEF s
<1>3. Away(proc[p]) /\ s \in OtherWords /\ Kind(s) = "desk" /\ "desk" \in Kinds
  BY <1>1, DeskAt
<1> DEFINE t == IF proc[p].marks = {l} THEN Tail(proc[p].todo) ELSE proc[p].todo
           x == proc[p].marks \ {l}
<1>4. proc' = [proc EXCEPT ![p].marks = x, ![p].todo = t]
  BY <1>2, <1>3 DEF ProcInv
<1>5. t = Tail(proc[p].todo) \/ t = proc[p].todo
  OBVIOUS
<1> HIDE DEF t, x
<1>6. Alters(p, {"todo", "marks"}) /\ proc'[p].todo = t
  BY <1>3, <1>4, MarksSet
<1>7. Alters(p, fs) /\ "op" \notin fs
  BY <1>6
<1>8. proc'[p].todo = proc[p].todo \/ Passes(p, s)
  BY <1>1, <1>3, <1>5, <1>6, Tailed
<1> HIDE DEF fs
<1>9. Deed(p, "desk")
  BY <1>1, <1>3, <1>5, <1>6, <1>7, AltersMove
<1> QED BY <1>1, <1>7, <1>8, <1>9 DEF s, fs
LEMMA BulkedMove ==
  ASSUME ProcInv, FlowInv, NEW p \in Handlers, Bulked(p)
  PROVE  /\ At(p, "rejected") /\ Deed(p, "desk") /\ Alters(p, {"op", "todo"}) /\ proc'[p].op = "rows" /\ Passes(p, "rejected")
<1> DEFINE s == "rejected"
           t == Tail(proc[p].todo)
           op == "rows"
<1>1. At(p, s) /\ s \in DeskWords
  BY DeskIn DEF Bulked
<1>2. proc' = [proc EXCEPT ![p].op = op, ![p].todo = Tail(@)]
  BY DEF Bulked
<1>3. op \in Serving("desk")
  BY DeskServes
<1> HIDE DEF s, op
<1>4. Away(proc[p]) /\ s \in OtherWords /\ Kind(s) = "desk" /\ "desk" \in Kinds
  BY <1>1, DeskAt
<1>5. proc' = [proc EXCEPT ![p].op = op, ![p].todo = t]
  BY <1>2, <1>4 DEF ProcInv
<1> HIDE DEF t
<1>6. Alters(p, {"op", "todo"}) /\ proc'[p].todo = t /\ proc'[p].op = op
  BY <1>4, <1>5, SetOp
<1>7. proc'[p].todo = Tail(proc[p].todo)
  BY <1>6 DEF t
<1>8. Passes(p, s)
  BY <1>1, <1>4, <1>7, Tailed
<1>9. KinMove(p, "desk")
  BY <1>3, <1>6, <1>7 DEF KinMove, Alters
<1>10. Deed(p, "desk")
  BY <1>1, <1>4, <1>9, DeedStep
<1> QED BY <1>1, <1>6, <1>8, <1>10 DEF s, op
(* The steps that end a request of the page, or take it past an await.     *)
LEMMA DeskGoes ==
  ASSUME ProcInv, FlowInv, NEW p \in Handlers,
         \/ Rows(p) \/ AnswerLost(p) \/ ServeDetail(p) \/ Detail(p) \/ PatchLead(p) \/ OnSavedNote(p)
         \/ EstimateCost(p) \/ Declined(p)
  PROVE  Deed(p, "desk") /\ Only(p) /\ (proc'[p] = Idle \/ (Alters(p, {"todo"}) /\ \E s \in DeskWords : At(p, s) /\ Passes(p, s)))
<1>1. \E s \in DeskWords : At(p, s) /\ (proc' = Ended(p) \/ proc' = Advance(p))
  BY DeskIn, ZenonT(40) DEF Rows, AnswerLost, ServeDetail, Detail, PatchLead, OnSavedNote, EstimateCost, Declined
<1> QED BY <1>1, DeskEnds, DeskTurns
BesideDesk == UNCHANGED <<accounts, tenancy, mails, sender, mailed, clashes, batches, lists, engines>>
LEMMA DeskStays == LeadsPageStep => BesideDesk
<1>1. ASSUME NEW p \in Handlers,
             \/ ChooseFilter(p) \/ TurnPage(p) \/ ApplyView(p) \/ ServeRows(p) \/ Rows(p) \/ AnswerLost(p)
             \/ OpenDetail(p) \/ ServeDetail(p) \/ Detail(p) \/ HandleBlur(p) \/ PatchLead(p) \/ OnSavedNote(p)
      PROVE  UNCHANGED <<lookOn, book>>
  BY <1>1 DEF ChooseFilter, TurnPage, TurnsTo, ApplyView, ServeRows, Rows, AnswerLost, OpenDetail, Opening, ServeDetail,
         Detail, HandleBlur, PatchLead, OnSavedNote
<1>2. ASSUME NEW p \in Handlers,
             \/ BulkReject(p) \/ Bulked(p) \/ RetryPicked(p) \/ EstimateCost(p) \/ Declined(p) \/ Confirmed(p) \/ StreamEnds(p)
      PROVE  UNCHANGED <<lookOn, book>>
  BY <1>2 DEF BulkReject, Bulked, RetryPicked, EstimateCost, Declined, Confirmed, Confirms, StreamEnds
<1>3. ASSUME CloseDetail \/ Toggle \/ ToggleAll \/ OnEvent PROVE UNCHANGED <<lookOn, book>>
  BY <1>3 DEF CloseDetail, Toggle, ToggleAll, OnEvent
<1>4. ASSUME NEW p \in Handlers, BulkStatus(p) PROVE BesideDesk
  BY <1>4 DEF BulkStatus, BesideDesk, lookOn
<1>5. UNCHANGED <<lookOn, book>> => BesideDesk
  BY DEF BesideDesk, lookOn, book
<1> QED BY <1>1, <1>2, <1>3, <1>4, <1>5 DEF LeadsPageStep
DeskAsking(p) == ChooseFilter(p) \/ TurnPage(p) \/ ApplyView(p) \/ OpenDetail(p) \/ HandleBlur(p) \/ BulkReject(p) \/ RetryPicked(p) \/ StreamEnds(p)
LEMMA DeskAsked ==
  ASSUME ProcInv, NEW p \in Handlers, DeskAsking(p)
  PROVE  Deed(p, "desk")
<1>1. ASSUME ChooseFilter(p) \/ TurnPage(p) \/ ApplyView(p) PROVE \E asked : FetchLeads(p, asked)
  BY <1>1 DEF ChooseFilter, TurnPage, ApplyView
<1>2. ASSUME StreamEnds(p) PROVE \E asked : proc' = [proc EXCEPT ![p] = RowsOf(asked)]
  BY <1>2 DEF StreamEnds
<1> QED BY <1>1, <1>2, FetchLeadsMove, DetailMove, BlurMove, RejectMove, PickedMove, StreamEndsMove DEF DeskAsking
LEMMA DeskWorks ==
  ASSUME ProcInv, FlowInv, LeadsPageStep
  PROVE  \/ \E p \in Handlers : Deed(p, "desk")
         \/ \E p \in Handlers : Confirmed(p)
         \/ proc' = proc
<1>1. ASSUME NEW p \in Handlers,
             \/ Rows(p) \/ AnswerLost(p) \/ ServeDetail(p) \/ Detail(p) \/ PatchLead(p) \/ OnSavedNote(p)
             \/ EstimateCost(p) \/ Declined(p)
      PROVE  Deed(p, "desk")
  BY <1>1, DeskGoes
<1>2. ASSUME NEW p \in Handlers, ServeRows(p) \/ BulkStatus(p) \/ Bulked(p) PROVE Deed(p, "desk")
  BY <1>2, ServeRowsMove, BulkStatusMove, BulkedMove
<1>3. ASSUME CloseDetail \/ Toggle \/ ToggleAll \/ OnEvent PROVE proc' = proc
  BY <1>3 DEF CloseDetail, Toggle, ToggleAll, OnEvent, requests
<1> QED BY <1>1, <1>2, <1>3, DeskAsked DEF LeadsPageStep, DeskAsking

-----------------------------------------------------------------------------
(* All kinds together *)

Steady == FlowInv /\ NicheSafe /\ BookSafe /\ PageSafe
Elsewhere == FlowInv' /\ (\A j \in Kinds : Beside(j)) /\ UNCHANGED <<tenancy, book, engines>>
(* A step is of one kind, or of a sign-in, the clock or a crash.           *)
LEMMA Division ==
  ASSUME Core, FlowInv, [Next]_vars
  PROVE  \/ Elsewhere
         \/ \E p \in Handlers : TenancyStep(p) /\ UNCHANGED <<book, engines>>
         \/ \E p \in Handlers : ListStep(p) /\ UNCHANGED engines
         \/ BookStep /\ UNCHANGED engines
         \/ PageStep
         \/ LeadsPageStep
<1>1. ProcInv /\ RefInv /\ menu \in Menus
  BY DEF Core
<1>2. ASSUME UNCHANGED vars PROVE Elsewhere
  <2>1. proc' = proc /\ UNCHANGED <<tenancy, book, engines>>
    BY <1>2 DEF vars, requests
  <2> QED BY <2>1, SameFlow DEF Elsewhere
<1>3. ASSUME NEW p \in Handlers, Admitted(p) PROVE Elsewhere
  <2>1. Enter(p) \/ Context(p) \/ Token(p)
    BY <1>3 DEF Admitted
  <2>2. UNCHANGED <<tenancy, book, engines>>
    BY <1>3 DEF Admitted, Token
  <2> QED BY <1>1, <2>1, <2>2, AdmittedFlow DEF Elsewhere
<1>4. ASSUME NEW p \in Handlers, Request(p)
      PROVE  Elsewhere \/ (TenancyStep(p) /\ UNCHANGED <<book, engines>>) \/ (ListStep(p) /\ UNCHANGED engines)
  <2>1. CASE AccountsStep(p) /\ UNCHANGED <<tenancy, book, lists, engines>>
    BY <1>1, <2>1, AccountsAlone, AlienFlow DEF Elsewhere
  <2> QED BY <1>4, <2>1 DEF Request
<1>5. ASSUME World PROVE Elsewhere
  <2>1. UNCHANGED <<tenancy, book, engines>>
    BY <1>5 DEF World
  <2>2. proc' = proc \/ proc' = Died
    BY <1>5 DEF World, Tick, CodeExpires, Crash, requests
  <2>3. CASE proc' = Died
    <3>1. Alien
      BY <2>3 DEF Died, Alien
    <3> QED BY <2>1, <3>1, AlienFlow DEF Elsewhere
  <2> QED BY <2>1, <2>2, <2>3, SameFlow DEF Elsewhere
<1> QED BY <1>2, <1>3, <1>4, <1>5 DEF Next
(* What it does to each kind.                                              *)
NicheKept == (\E p \in Handlers : NicheWork(p)) \/ (Beside("niche") /\ UNCHANGED <<niches, raced>>)
ConfigKept == (\E p \in Handlers : ConfigWork(p)) \/ (Beside("config") /\ config' = config)
MetricKept == (\E p \in Handlers : MetricWork(p)) \/ (Beside("metric") /\ daily' = daily)
OtherKept == (\E p \in Handlers : OtherWork(p)) \/ UNCHANGED <<views, singles>>
BookKept == BookStep \/ (\E p \in Handlers : Confirmed(p)) \/ (Beside("retry") /\ UNCHANGED <<mails, sender, mailed, clashes, batches>>)
PageKept == PageStep \/ (Beside("engine") /\ UNCHANGED <<runs, page, panel>>)
EachKept == FlowInv' /\ NicheKept /\ ConfigKept /\ MetricKept /\ OtherKept /\ BookKept /\ PageKept
Idling == UNCHANGED <<niches, raced, config, daily, views, singles>>
LEMMA TenancyRest ==
  ASSUME NEW p
  PROVE  /\ NicheWork(p) => UNCHANGED <<config, daily, views, singles>>
         /\ OtherWork(p) => UNCHANGED <<niches, raced, config, daily>>
         /\ ConfigWork(p) => UNCHANGED <<niches, raced, daily, views, singles>>
         /\ MetricWork(p) => UNCHANGED <<niches, raced, config, views, singles>>
<1>1. NicheWork(p) => UNCHANGED <<config, daily, views, singles>>
  BY ZenonT(40) DEF NicheWork, CreateNiche, UpdateNiche, DeleteNiche, Edit, FindNiche, BeginTransaction, MarkDay, MarkedDay, LockDay,
         WriteNiche, Commit, RemoveNiche, AbortOne, tenancy
<1>2. OtherWork(p) => UNCHANGED <<niches, raced, config, daily>>
  BY ZenonT(40) DEF OtherWork, CreateView, ChangeView, Edit, WriteView, SaveSingle, FindSingle, UpdateSingle, CreateSingle, Boot, Seed,
         tenancy
<1>3. ConfigWork(p) => UNCHANGED <<niches, raced, daily, views, singles>>
  BY DEF ConfigWork, SaveConfig, Edit, Validate, Put, tenancy
<1>4. MetricWork(p) => UNCHANGED <<niches, raced, config, views, singles>>
  BY DEF MetricWork, CountMetric, Ensure, Bump, Bumped, tenancy
<1> QED BY SMTT(30), <1>1, <1>2, <1>3, <1>4
LEMMA DeedKept ==
  ASSUME FlowInv, NEW p \in Handlers, NEW k \in Kinds, Deed(p, k)
  PROVE  /\ FlowInv'
         /\ k # "niche" => Beside("niche")
         /\ k # "config" => Beside("config")
         /\ k # "metric" => Beside("metric")
         /\ k # "retry" => Beside("retry")
         /\ k # "engine" => Beside("engine")
  BY DeedFlow, KindsAre, NicheIs
LEMMA SameKept ==
  ASSUME FlowInv, proc' = proc
  PROVE  FlowInv' /\ Beside("niche") /\ Beside("config") /\ Beside("metric") /\ Beside("retry") /\ Beside("engine")
  BY SameFlow, KindsAre, NicheIs
LEMMA StepKept ==
  ASSUME Core, Steady, [Next]_vars
  PROVE  EachKept
<1>1. ProcInv /\ FlowInv /\ NicheSafe /\ BookSafe /\ PageSafe
  BY DEF Core, Steady
<1>2. CASE Elsewhere
  BY <1>2, KindsAre, NicheIs
     DEF Elsewhere, EachKept, NicheKept, ConfigKept, MetricKept, OtherKept, BookKept, PageKept, tenancy, book, engines
<1>3. ASSUME NEW p \in Handlers, TenancyStep(p), UNCHANGED <<book, engines>> PROVE EachKept
  <2>1. UNCHANGED <<mails, sender, mailed, clashes, batches, runs, page, panel>>
    BY <1>3 DEF book, engines
  <2>2. CASE NicheWork(p)
    <3>1. Deed(p, "niche") /\ UNCHANGED <<config, daily, views, singles>>
      BY <1>1, <2>2, NicheWorks, TenancyRest
    <3>2. FlowInv' /\ Beside("config") /\ Beside("metric") /\ Beside("retry") /\ Beside("engine")
      BY <1>1, <3>1, DeedKept, NicheIs
    <3> QED BY <2>1, <2>2, <3>1, <3>2 DEF EachKept, NicheKept, ConfigKept, MetricKept, OtherKept, BookKept, PageKept
  <2>3. CASE OtherWork(p)
    <3>1. Deed(p, "other") /\ UNCHANGED <<niches, raced, config, daily>>
      BY <1>1, <2>3, OtherDeed, TenancyRest
    <3>2. FlowInv' /\ Beside("niche") /\ Beside("config") /\ Beside("metric") /\ Beside("retry") /\ Beside("engine")
      BY <1>1, <3>1, DeedKept, KindsAre
    <3> QED BY <2>1, <2>3, <3>1, <3>2 DEF EachKept, NicheKept, ConfigKept, MetricKept, OtherKept, BookKept, PageKept
  <2>4. CASE ConfigWork(p)
    <3>1. Deed(p, "config") /\ UNCHANGED <<niches, raced, daily, views, singles>>
      BY <1>1, <2>4, ConfigDeed, TenancyRest
    <3>2. FlowInv' /\ Beside("niche") /\ Beside("metric") /\ Beside("retry") /\ Beside("engine")
      BY <1>1, <3>1, DeedKept, KindsAre
    <3> QED BY <2>1, <2>4, <3>1, <3>2 DEF EachKept, NicheKept, ConfigKept, MetricKept, OtherKept, BookKept, PageKept
  <2>5. CASE MetricWork(p)
    <3>1. Deed(p, "metric") /\ UNCHANGED <<niches, raced, config, views, singles>>
      BY <1>1, <2>5, MetricDeed, TenancyRest
    <3>2. FlowInv' /\ Beside("niche") /\ Beside("config") /\ Beside("retry") /\ Beside("engine")
      BY <1>1, <3>1, DeedKept, KindsAre
    <3> QED BY <2>1, <2>5, <3>1, <3>2 DEF EachKept, NicheKept, ConfigKept, MetricKept, OtherKept, BookKept, PageKept
  <2> QED BY <1>3, <2>2, <2>3, <2>4, <2>5, TenancyWork
<1>4. ASSUME NEW p \in Handlers, ListStep(p), UNCHANGED engines PROVE EachKept
  <2>1. Deed(p, "list") /\ UNCHANGED <<tenancy, book>>
    BY <1>1, <1>4, ListWorks
  <2>2. Idling /\ UNCHANGED <<mails, sender, mailed, clashes, batches, runs, page, panel>>
    BY <1>4, <2>1 DEF Idling, tenancy, book, engines
  <2>3. FlowInv' /\ Beside("niche") /\ Beside("config") /\ Beside("metric") /\ Beside("retry") /\ Beside("engine")
    BY <1>1, <2>1, DeedKept, KindsAre
  <2> QED BY <2>2, <2>3 DEF Idling, EachKept, NicheKept, ConfigKept, MetricKept, OtherKept, BookKept, PageKept
<1>5. ASSUME BookStep, UNCHANGED engines PROVE EachKept
  <2>1. UNCHANGED tenancy /\ ((\E p \in Handlers : Deed(p, "retry")) \/ proc' = proc)
    BY <1>1, <1>5, BookWorks
  <2>2. Idling /\ UNCHANGED <<runs, page, panel>>
    BY <1>5, <2>1 DEF Idling, tenancy, engines
  <2>3. FlowInv' /\ Beside("niche") /\ Beside("config") /\ Beside("metric") /\ Beside("engine")
    BY <1>1, <2>1, DeedKept, SameKept, KindsAre
  <2> QED BY <1>5, <2>2, <2>3 DEF Idling, EachKept, NicheKept, ConfigKept, MetricKept, OtherKept, BookKept, PageKept
<1>6. ASSUME PageStep PROVE EachKept
  <2>1. UNCHANGED <<tenancy, book>> /\ ((\E p \in Handlers : Deed(p, "engine")) \/ proc' = proc)
    BY <1>1, <1>6, PageWorks
  <2>2. Idling /\ UNCHANGED <<mails, sender, mailed, clashes, batches>>
    BY <2>1 DEF Idling, tenancy, book
  <2>3. FlowInv' /\ Beside("niche") /\ Beside("config") /\ Beside("metric") /\ Beside("retry")
    BY <1>1, <2>1, DeedKept, SameKept, KindsAre
  <2> QED BY <1>6, <2>2, <2>3 DEF Idling, EachKept, NicheKept, ConfigKept, MetricKept, OtherKept, BookKept, PageKept
<1>7. ASSUME LeadsPageStep PROVE EachKept
  <2>1. Idling /\ UNCHANGED <<mails, sender, mailed, clashes, batches, runs, page, panel>>
    BY <1>7, DeskStays DEF Idling, BesideDesk, tenancy, engines
  <2>2. (\E p \in Handlers : Deed(p, "desk")) \/ (\E p \in Handlers : Confirmed(p)) \/ proc' = proc
    BY <1>1, <1>7, DeskWorks
  <2>3. CASE \E p \in Handlers : Confirmed(p)
    <3>1. PICK p \in Handlers : Deed(p, "retry")
      BY <1>1, <2>3, ConfirmedRetry
    <3>2. FlowInv' /\ Beside("niche") /\ Beside("config") /\ Beside("metric") /\ Beside("engine")
      BY <1>1, <3>1, DeedKept, KindsAre
    <3> QED BY <2>1, <2>3, <3>2 DEF Idling, EachKept, NicheKept, ConfigKept, MetricKept, OtherKept, BookKept, PageKept
  <2>4. CASE (\E p \in Handlers : Deed(p, "desk")) \/ proc' = proc
    <3>1. FlowInv' /\ Beside("niche") /\ Beside("config") /\ Beside("metric") /\ Beside("retry") /\ Beside("engine")
      BY <1>1, <2>4, DeedKept, SameKept, KindsAre
    <3> QED BY <2>1, <3>1 DEF Idling, EachKept, NicheKept, ConfigKept, MetricKept, OtherKept, BookKept, PageKept
  <2> QED BY <2>2, <2>3, <2>4
<1> QED BY <1>2, <1>3, <1>4, <1>5, <1>6, <1>7, Division DEF Steady
LEMMA SteadyNext ==
  ASSUME Core, Steady, [Next]_vars
  PROVE  Steady'
<1>1. ProcInv /\ FlowInv /\ NicheSafe /\ BookSafe /\ PageSafe /\ EachKept
  BY StepKept DEF Core, Steady
<1>2. NicheSafe'
  BY <1>1, NicheWorks, NicheRest, AllSessionsStay DEF EachKept, NicheKept
<1>3. BookSafe'
  BY <1>1, BookWorks, BookRest, BookBegun, ConfirmedRetry DEF EachKept, BookKept, book
<1>4. PageSafe'
  BY <1>1, PageWorks, PageRest DEF EachKept, PageKept
<1> QED BY <1>1, <1>2, <1>3, <1>4 DEF EachKept, Steady
LEMMA NicheStarts == Init => NicheSafe /\ FlowInv
<1> SUFFICES ASSUME Init PROVE NicheSafe /\ FlowInv
  OBVIOUS
<1>1. \A p \in Handlers : proc[p] = Idle
  BY InitProc
<1>2. \A p \in Handlers : proc[p].todo = <<>> /\ ~Has(proc[p], "niche") /\ Ahead(p) = {}
  BY <1>1, IdleHas, NicheIs, OrderedShort DEF Ahead
<1>3. niches = <<[org |-> 1, day |-> 1, alive |-> TRUE], [org |-> 1, day |-> 2, alive |-> TRUE], [org |-> 2, day |-> 1, alive |-> TRUE]>>
      /\ raced = 0
  BY DEF Init, TenancyInit
<1>4. niches \in Seq(NicheRow) /\ raced \in Nat
  BY <1>3 DEF NicheRow
<1>5. FewADay
  <2> SUFFICES ASSUME NEW o \in Nat, NEW d \in Days PROVE Cardinality(NicheOf(o, d)) <= 1 + raced
    BY DEF FewADay
  <2>1. \A i, j \in NicheOf(o, d) : i = j
    BY <1>3 DEF NicheOf
  <2>2. NicheOf(o, d) = {} \/ \E i : NicheOf(o, d) = {i}
    BY <2>1
  <2>3. Cardinality(NicheOf(o, d)) \in {0, 1}
    BY <2>2, FS_EmptySet, FS_Singleton
  <2> QED BY <1>3, <2>3
<1> QED BY <1>2, <1>4, <1>5 DEF NicheSafe, Disjoint, FlowInv
(* Whatever the requests are and whichever way they interleave, each kind  *)
(* keeps what its steps rely on.                                           *)
THEOREM SteadyInvariant == Spec => [](Core /\ Steady)
<1>1. Init => Core /\ Steady
  BY InitCore, NicheStarts, BookStarts, PageStarts DEF Steady
<1>2. Core /\ Steady /\ [Next]_vars => (Core /\ Steady)'
  BY CoreNext, SteadyNext
<1> QED BY <1>1, <1>2, PTL DEF Spec
(* A mail that was sent is recorded as it was sent, unless a regeneration  *)
(* of it was open when it was marked: whatever is regenerated, sent and    *)
(* cut off at the same time.                                               *)
THEOREM SentStaysRecorded == Spec => []SentAsRecorded
<1>1. Core /\ Steady => SentAsRecorded
  BY DEF Steady, BookSafe, MailSafe
<1> QED BY <1>1, SteadyInvariant, PTL
(* A batch that says done has told of every lead it loaded, and one whose  *)
(* client is gone pays for one more call at most, for any number of        *)
(* batches at once.                                                        *)
THEOREM BatchesAccounted == Spec => []BatchAccounted
<1>1. ASSUME Steady PROVE BatchAccounted
  <2>1. \A b \in Range(batches) : \E i \in DOMAIN batches : b = batches[i]
    BY DEF Range
  <2>2. \A b \in Range(batches) : BatchRow(b)
    BY <1>1, <2>1 DEF Steady, BookSafe, BatchRows
  <2>3. \A b \in Range(batches) : (b.done => b.told = b.loaded) /\ b.after <= 1
    BY <2>2 DEF BatchRow
  <2> QED BY <2>3 DEF BatchAccounted, DoneToldAll, OneMoreLead
<1> QED BY <1>1, SteadyInvariant, PTL
(* A panel that has stopped polling shows how its run ended, unless its    *)
(* row was closed while it ran, by an unlock or by the sweep.              *)
THEOREM PanelStaysTrue == Spec => []PanelTrue
<1>1. Core /\ Steady => PanelTrue
  BY DEF Steady, PageSafe, PanelOK, PanelTrue
<1> QED BY <1>1, SteadyInvariant, PTL

Closing(i) == runs[i].status = "running" /\ runs'[i].status # "running" /\ runs'[i].live = runs[i].live
Rightly(i, p) ==
  /\ Served(p, "serve unlock") => runs[proc[p].who].engine = runs[i].engine
  /\ Served(p, "sweep runs") => runs[i].engine = Engine(p)
(* Two requests are not served in one step.                                *)
LEMMA OneServed ==
  ASSUME NEW p \in Handlers, Only(p)
  PROVE  \A q \in Handlers : \A s : Served(q, s) => q = p /\ At(p, s)
  BY DEF Only, Served
LEMMA NoOther ==
  ASSUME NEW p \in Handlers, Only(p), NEW s, At(p, s), NEW t, t # s, NEW q \in Handlers
  PROVE  ~Served(q, t)
<1>1. ~At(p, t)
  BY Zenon DEF At
<1> QED BY <1>1, OneServed
LEMMA ClosedRows ==
  ASSUME NEW rows, runs' = Closed(rows), NEW i \in DOMAIN runs, Closing(i)
  PROVE  i \in rows
  BY DEF Closed, Closing
LEMMA UnlockRightly ==
  ASSUME ProcInv, FlowInv, PageSafe, NEW i \in DOMAIN runs, Closing(i), NEW q \in Handlers, UnlockRows(q),
         NEW p \in Busy
  PROVE  Rightly(i, p)
<1>1. At(q, "serve unlock") /\ proc' = Advance(q)
  BY DEF UnlockRows, Unlocked
<1>2. Only(q) /\ "serve unlock" \in Ahead(q)
  BY <1>1, PageAt, PageIn, TurnMove
<1>3. Refuses(proc[q].who)
  BY <1>2 DEF PageSafe, PageOK
<1> DEFINE rows == IF Engine(q) \in Triggerable THEN Running(Engine(q)) ELSE {}
<1>4. runs' = Closed(rows)
  BY DEF UnlockRows, Unlocked
<1> HIDE DEF rows
<1>5. i \in rows
  BY <1>4, ClosedRows
<1>6. runs[i].engine \in Triggerable
  BY <1>5 DEF rows, Running
<1>7. runs[proc[q].who].engine = runs[i].engine
  BY <1>3, <1>6 DEF Refuses, Triggerable
<1>8. p \in Handlers
  BY DEF Busy
<1>9. ~Served(p, "sweep runs")
  <2>1. "sweep runs" # "serve unlock"
    OBVIOUS
  <2> QED BY <1>1, <1>2, <1>8, <2>1, NoOther, Zenon
<1>10. Served(p, "serve unlock") => p = q
  BY <1>2, <1>8, OneServed
<1> QED BY <1>7, <1>9, <1>10 DEF Rightly
LEMMA SweepRightly ==
  ASSUME ProcInv, FlowInv, PageSafe, NEW i \in DOMAIN runs, Closing(i), NEW q \in Handlers, SweepRuns(q),
         NEW p \in Busy
  PROVE  Rightly(i, p)
<1>1. runs' # runs
  BY DEF Closing
<1>2. /\ At(q, "sweep runs") /\ proc' = Advance(q)
      /\ \E n \in Running(Engine(q)) \cup {0} : runs' = Closed(Stale(Engine(q), n))
  BY <1>1 DEF SweepRuns
<1>3. Only(q)
  BY <1>2, PageAt, PageIn, TurnMove
<1>4. PICK n : runs' = Closed(Stale(Engine(q), n))
  BY <1>2
<1> DEFINE rows == Stale(Engine(q), n)
<1>5. runs' = Closed(rows)
  BY <1>4
<1> HIDE DEF rows
<1>6. i \in rows
  BY <1>5, ClosedRows
<1>7. runs[i].engine = Engine(q)
  BY <1>6 DEF rows, Stale, Running
<1>8. p \in Handlers
  BY DEF Busy
<1>9. ~Served(p, "serve unlock")
  <2>1. "serve unlock" # "sweep runs"
    OBVIOUS
  <2> QED BY <1>2, <1>3, <1>8, <2>1, NoOther, Zenon
<1>10. Served(p, "sweep runs") => p = q
  BY <1>3, <1>8, OneServed
<1> QED BY <1>7, <1>9, <1>10 DEF Rightly
LEMMA ClosedRightly ==
  ASSUME Core, Steady, [Next]_vars, NEW i \in DOMAIN runs, Closing(i), NEW o \in Busy
  PROVE  Rightly(i, o)
<1>1. ProcInv /\ FlowInv /\ PageSafe /\ PageKept
  BY StepKept DEF Core, Steady, EachKept
<1>2. RunsOK
  BY <1>1 DEF PageSafe
<1>3. runs' # runs
  BY DEF Closing
<1>4. PageStep
  BY <1>1, <1>3 DEF PageKept
<1>5. ASSUME NEW e \in Engines, runs' = Append(runs, RunOf(e)) PROVE FALSE
  <2>1. runs'[i] = runs[i]
    <3> DEFINE row == RunOf(e)
    <3>1. runs' = Append(runs, row) /\ runs \in Seq(RunRow)
      BY <1>2, <1>5 DEF RunsOK
    <3> HIDE DEF row
    <3> QED BY <3>1
  <2> QED BY <2>1 DEF Closing
<1>6. ASSUME NEW p \in Handlers, ServeRun(p) PROVE FALSE
  <2>1. runs' = Append(runs, RunOf(Engine(p)))
    BY <1>3, <1>6 DEF ServeRun
  <2>2. Engine(p) \in Triggerable
    <3>1. "serve run" \in Ahead(p) /\ "sweep runs" \notin Ahead(p)
      BY <1>1, <1>6, RunLast DEF ServeRun
    <3> QED BY <1>1, <3>1 DEF PageSafe, PageOK, Engine
  <2> QED BY <1>5, <2>1, <2>2 DEF Triggerable, Engines
<1>7. ASSUME RowArrives \/ StartElsewhere PROVE FALSE
  BY <1>5, <1>7 DEF RowArrives, StartElsewhere, Engines
<1>8. ASSUME EndRun \/ RunDies PROVE FALSE
  <2>1. PICK j \in DOMAIN runs : /\ runs[j].live
                                 /\ runs' = [runs EXCEPT ![j].live = FALSE, ![j].status = "success"]
                                      \/ runs' = [runs EXCEPT ![j].live = FALSE]
    BY <1>8 DEF EndRun, RunDies
  <2>2. i = j
    BY <2>1 DEF Closing
  <2>3. DOMAIN runs[j] = {"engine", "status", "live", "forced"}
    BY <1>2, RunsIn
  <2>4. ~runs'[j].live
    BY <2>1, <2>3
  <2> QED BY <2>1, <2>2, <2>4 DEF Closing
<1>9. ASSUME NEW p \in Handlers, UnlockRows(p) PROVE Rightly(i, o)
  BY <1>1, <1>9, UnlockRightly
<1>10. ASSUME NEW p \in Handlers, SweepRuns(p) PROVE Rightly(i, o)
  BY <1>1, <1>10, SweepRightly
<1>11. ASSUME CloseElsewhere PROVE Rightly(i, o)
  <2>1. proc' = proc
    BY <1>11 DEF CloseElsewhere, requests
  <2> QED BY <2>1 DEF Rightly, Served
<1>12. \/ \E p \in Handlers : SweepRuns(p) \/ ServeRun(p) \/ UnlockRows(p)
       \/ RowArrives \/ StartElsewhere \/ EndRun \/ RunDies \/ CloseElsewhere
  BY <1>3, <1>4 DEF PageStep, Select, ServeLatest, Latest, RunNow, Started, Refused, Unlock, UnlockShown,
       AskStatus, ServeStatus, PollFails, StatusFails, ShowStatus, Dismiss, engines
<1> QED BY <1>6, <1>7, <1>8, <1>9, <1>10, <1>11, <1>12
(* Of the rows that their own run did not close, an unlock closes those of *)
(* the engine whose run was refused, whichever engine is shown by then,    *)
(* and a trigger those of its own engine.                                  *)
THEOREM UnlocksFit == Spec => UnlockFits
<1>1. ASSUME Core, Steady, [Next]_vars
      PROVE [\A i \in DOMAIN runs :
              runs[i].status = "running" /\ runs'[i].status # "running" /\ runs'[i].live = runs[i].live =>
                \A p \in Busy :
                  /\ Served(p, "serve unlock") => runs[proc[p].who].engine = runs[i].engine
                  /\ Served(p, "sweep runs") => runs[i].engine = Engine(p)]_<<runs, proc>>
  BY <1>1, ClosedRightly DEF Closing, Rightly
<1> QED BY <1>1, SteadyInvariant, PTL DEF Spec, UnlockFits

-----------------------------------------------------------------------------
(* What the tables keep *)

SinglesOK == DOMAIN singles = Tables /\ \A t \in Tables : singles[t] = <<>> \/ \E o : singles[t] = <<o>>
LEMMA SinglesStay ==
  ASSUME SinglesOK, NEW p, OtherWork(p)
  PROVE  SinglesOK'
<1>1. ASSUME NEW t \in Tables, NEW o, singles[t] = <<>>, singles' = [singles EXCEPT ![t] = <<o>>] PROVE SinglesOK'
  <2>1. DOMAIN singles' = Tables /\ \A u \in Tables : singles'[u] = IF u = t THEN <<o>> ELSE singles[u]
    BY <1>1 DEF SinglesOK
  <2> QED BY <2>1 DEF SinglesOK
<1>2. singles' = singles => SinglesOK'
  BY DEF SinglesOK
<1>3. CASE CreateSingle(p)
  <2>1. PICK t \in Tables : IF singles[t] # <<>> THEN singles' = singles
                            ELSE singles' = [singles EXCEPT ![t] = Append(@, OrgOfNew(p))]
    BY <1>3 DEF CreateSingle
  <2>2. CASE singles[t] = <<>>
    <3> DEFINE o == OrgOfNew(p)
    <3>1. singles' = [singles EXCEPT ![t] = Append(singles[t], o)]
      BY <2>1, <2>2 DEF SinglesOK
    <3> HIDE DEF o
    <3>2. Append(<<>>, o) = <<o>>
      OBVIOUS
    <3>3. singles' = [singles EXCEPT ![t] = <<o>>]
      BY <2>2, <3>1, <3>2
    <3> QED BY <1>1, <2>2, <3>3
  <2> QED BY <1>2, <2>1, <2>2
<1>4. CASE Seed(p)
  BY <1>1, <1>2, <1>4 DEF Seed
<1>5. CASE ~CreateSingle(p) /\ ~Seed(p)
  <2>1. singles' = singles
    BY <1>5 DEF OtherWork, CreateView, ChangeView, Edit, WriteView, SaveSingle, FindSingle, UpdateSingle, Boot, tenancy
  <2> QED BY <1>2, <2>1, SMTT(30)
<1> QED BY <1>3, <1>4, <1>5

(* A save that has written its first value and not its second.             *)
Putting(q) == "put b" \in Ahead(q) /\ "put a" \notin Ahead(q)
Whole == config.open = 0 /\ (\A q \in Handlers : ~Putting(q)) /\ config.row["a"].by = config.row["b"].by
Halved == /\ config.open = 1 /\ \A q, r \in Handlers : Putting(q) /\ Putting(r) => q = r
          /\ \A q \in Handlers : Putting(q) => config.row["a"].by = proc[q].no
ConfigSafe ==
  /\ DOMAIN config.row = Keys /\ config.mixed \in BOOLEAN
  /\ \A q \in Handlers : "put a" \in Ahead(q) => "put b" \in Ahead(q)
  /\ config.mixed \/ Whole \/ Halved
LEMMA PutWords ==
  /\ Kind("put a") = "config" /\ Kind("put b") = "config" /\ Kind("validate") = "config"
  /\ \A w : Comes("put a", w) => w = "put b"
  /\ \A w : ~Comes("put b", w)
<1>1. \A w : Comes("put a", w) => w = "put b"
  BY DEF Comes
<1>2. \A w : ~Comes("put b", w)
  BY DEF Comes
<1> QED BY <1>1, <1>2, ConfigKin, ConfigIn
(* Whoever is as it was still has the same of its save ahead.              *)
LEMMA PutSame ==
  ASSUME NEW q, Has(proc'[q], "config") => Intact(q, "config")
  PROVE  /\ Putting(q)' => Putting(q) /\ proc'[q].no = proc[q].no
         /\ ("put a" \in Ahead(q) => "put b" \in Ahead(q)) => ("put a" \in Ahead(q)' => "put b" \in Ahead(q)')
<1>1. \A w : Kind(w) = "config" => (w \in Ahead(q)' => Has(proc'[q], "config"))
  BY DEF Has, Ahead
<1>2. CASE Has(proc'[q], "config")
  <2>1. Intact(q, "config") /\ "no" \in Fields \ {"todo"}
    BY <1>2, AllFields DEF Fields
  <2>2. proc'[q].no = proc[q].no
    BY <2>1 DEF Intact
  <2>3. ("put a" \in Ahead(q)' <=> "put a" \in Ahead(q)) /\ ("put b" \in Ahead(q)' <=> "put b" \in Ahead(q))
    BY <2>1, PutWords DEF Intact
  <2> QED BY <2>2, <2>3 DEF Putting
<1>3. CASE ~Has(proc'[q], "config")
  BY <1>1, <1>3, PutWords DEF Putting
<1> QED BY <1>2, <1>3
LEMMA ConfigRest ==
  ASSUME ConfigSafe, config' = config, \A q \in Handlers : Has(proc'[q], "config") => Intact(q, "config")
  PROVE  ConfigSafe'
<1>1. \A q \in Handlers : Putting(q)' => Putting(q) /\ proc'[q].no = proc[q].no
  BY PutSame
<1>2. \A q \in Handlers : "put a" \in Ahead(q)' => "put b" \in Ahead(q)'
  BY PutSame DEF ConfigSafe
<1>3. (Whole => Whole') /\ (Halved => Halved')
  BY <1>1 DEF Whole, Halved
<1> QED BY <1>2, <1>3 DEF ConfigSafe
(* The others of its kind, when p does a deed.                             *)
LEMMA OthersSame ==
  ASSUME ProcInv, ConfigSafe, NEW p \in Handlers, Deed(p, "config")
  PROVE  /\ \A q \in Handlers \ {p} : Putting(q)' => Putting(q) /\ proc'[q].no = proc[q].no
         /\ \A q \in Handlers \ {p} : "put a" \in Ahead(q)' => "put b" \in Ahead(q)'
<1>1. \A q \in Handlers \ {p} : Has(proc'[q], "config") => Intact(q, "config")
  BY DeedAlike, KindsAre
<1> QED BY <1>1, PutSame DEF ConfigSafe
LEMMA ConfigMove ==
  ASSUME ProcInv, ConfigSafe, NEW p \in Handlers, Deed(p, "config"), config' = config,
         Putting(p)' => Putting(p) /\ proc'[p].no = proc[p].no, "put a" \in Ahead(p)' => "put b" \in Ahead(p)'
  PROVE  ConfigSafe'
<1>1. \A q \in Handlers : Putting(q)' => Putting(q) /\ proc'[q].no = proc[q].no
  BY OthersSame
<1>2. \A q \in Handlers : "put a" \in Ahead(q)' => "put b" \in Ahead(q)'
  BY OthersSame
<1>3. (Whole => Whole') /\ (Halved => Halved')
  BY <1>1 DEF Whole, Halved
<1> QED BY <1>2, <1>3 DEF ConfigSafe
LEMMA GonePut2 ==
  ASSUME NEW p, proc'[p] = Idle
  PROVE  "put a" \notin Ahead(p)' /\ "put b" \notin Ahead(p)'
<1>1. ~Has(proc'[p], "config")
  BY NothingAhead, KindsAre
<1> QED BY <1>1, PutWords DEF Has, Ahead
LEMMA SavingGo ==
  ASSUME ProcInv, ConfigSafe, NEW p \in Handlers, SaveConfig(p)
  PROVE  ConfigSafe'
<1> DEFINE t == <<"validate", "put a", "put b">>
<1>1. t \in Seq(Kin("config")) /\ Ordered(t) /\ (\E bad \in {0, 1} : Edit(p, "config", bad, 0, t))
      /\ "put a" \in Words(t) /\ "put b" \in Words(t)
  BY SavesThem DEF SaveConfig
<1>2. "put a" \notin Doors /\ "put b" \notin Doors
  BY PutWords, DoorKind, NoDoor, KindsAre
<1> HIDE DEF t
<1>3. PICK bad : Deed(p, "config") /\ NewEdit(p, "config", bad, 0, Words(t)) /\ UNCHANGED tenancy
  BY <1>1, EditMove, KindsAre, ServingAre
<1>4. "put a" \in Ahead(p)' /\ "put b" \in Ahead(p)'
  BY <1>1, <1>2, <1>3 DEF NewEdit, Ahead
<1> QED BY <1>3, <1>4, ConfigMove DEF Putting, tenancy
LEMMA ValidateGo ==
  ASSUME ProcInv, FlowInv, ConfigSafe, NEW p \in Handlers, Validate(p)
  PROVE  ConfigSafe'
<1> DEFINE s == "validate"
<1>1. At(p, s) /\ config' = config /\ (proc' = Ended(p) \/ proc' = Advance(p))
  BY DEF Validate, tenancy
<1>2. s \in OtherWords /\ Kind(s) = "config" /\ Deed(p, "config") /\ s # "put a" /\ s # "put b"
  BY ConfigIn, ConfigKin, ConfigDeed DEF ConfigWork
<1> HIDE DEF s
<1>3. proc'[p] = Idle \/ (Alters(p, {"todo"}) /\ Passes(p, s))
  BY <1>1, <1>2, ThrownGone, TurnMove, KindsAre
<1>4. CASE proc'[p] = Idle
  BY <1>1, <1>2, <1>4, GonePut2, ConfigMove DEF Putting
<1>5. CASE Alters(p, {"todo"}) /\ Passes(p, s)
  <2>1. ("put a" \in Ahead(p)' <=> "put a" \in Ahead(p)) /\ ("put b" \in Ahead(p)' <=> "put b" \in Ahead(p))
    BY <1>2, <1>5 DEF Passes
  <2>2. "no" \in Fields \ {"todo"}
    BY DEF Fields
  <2>3. proc'[p].no = proc[p].no
    BY <1>5, <2>2 DEF Alters
  <2> QED BY <1>1, <1>2, <2>1, <2>3, ConfigMove DEF Putting, ConfigSafe
<1> QED BY <1>3, <1>4, <1>5
(* The last await of a request is the only one.                            *)
LEMMA LastOne ==
  ASSUME NEW S, NEW t \in Seq(S), t # <<>>
  PROVE  (Len(t) = 1 <=> Words(Tail(t)) = {})
<1>1. Tail(t) \in Seq(S) /\ Len(Tail(t)) = Len(t) - 1 /\ Len(t) \in Nat \ {0}
  OBVIOUS
<1>2. Words(Tail(t)) = {} <=> 1..(Len(t) - 1) = {}
  BY <1>1 DEF Words
<1>3. 1..(Len(t) - 1) = {} <=> Len(t) - 1 < 1
  BY <1>1
<1> QED BY <1>1, <1>2, <1>3
LEMMA PutGo ==
  ASSUME ProcInv, FlowInv, ConfigSafe, NEW p \in Handlers, Put(p)
  PROVE  ConfigSafe'
<1>1. PICK k \in Keys :
       /\ At(p, Puts(k)) /\ proc' = Advance(p)
       /\ config' = [row |-> [config.row EXCEPT ![k] =
                               [org |-> IF @.org = 0 THEN OrgOfNew(p) ELSE @.org, by |-> proc[p].no]],
                     open |-> (config.open + (IF k = "a" THEN 1 ELSE 0)) - (IF Len(proc[p].todo) = 1 THEN 1 ELSE 0),
                     mixed |-> config.mixed \/ (k = "a" /\ config.open > 0)]
  BY DEF Put
<1> DEFINE s == Puts(k)
<1>2. s \in ConfigClan /\ Deed(p, "config") /\ Only(p)
  BY <1>1, ConfigIn, ConfigDeed, GoneMove, ConfigKin, KindsAre, AdvanceOK DEF ConfigWork, Puts, Keys, GoesOn, At
<1>3. s \in OtherWords /\ Kind(s) = "config" /\ At(p, s)
  BY <1>1, <1>2, ConfigKin
<1> HIDE DEF s
<1>4. (proc'[p] = Idle \/ (Alters(p, {"todo"}) /\ Passes(p, s))) /\ s \in Ahead(p)
  BY <1>1, <1>3, TurnMove, AtKind, KindsAre DEF Ahead
<1>5. Len(proc[p].todo) = 1 <=> Words(Tail(proc[p].todo)) = {}
  <2>1. proc[p].todo \in Seq(Kin("config")) /\ proc[p].todo # <<>>
    BY <1>3, AtKind, KindsAre DEF Clanned
  <2> QED BY <2>1, LastOne
<1>6. /\ DOMAIN config'.row = Keys /\ config'.mixed \in BOOLEAN
      /\ config'.row[k].by = proc[p].no /\ \A j \in Keys \ {k} : config'.row[j] = config.row[j]
  BY <1>1 DEF ConfigSafe
<1>7. /\ \A q \in Handlers \ {p} : Putting(q)' => Putting(q) /\ proc'[q].no = proc[q].no
      /\ \A q \in Handlers \ {p} : "put a" \in Ahead(q)' => "put b" \in Ahead(q)'
  BY <1>2, OthersSame
<1>8. Words(proc[p].todo) = {s} \cup Words(Tail(proc[p].todo)) /\ \A w \in Words(Tail(proc[p].todo)) : Comes(s, w)
  <2>1. proc[p].todo \in Seq(Kin("config")) /\ Ordered(proc[p].todo) /\ proc[p].todo # <<>> /\ Head(proc[p].todo) = s
    BY <1>3, AtKind, KindsAre DEF Clanned
  <2> QED BY <2>1, OrderedTail
<1>9. Words(Tail(proc[p].todo)) = {} => Ahead(p)' \cap {"put a", "put b"} = {}
  <2>1. ASSUME Words(Tail(proc[p].todo)) = {}, Passes(p, s), Alters(p, {"todo"}), NEW w \in Ahead(p)' PROVE w = s /\ Comes(s, s)
    BY <1>8, <2>1 DEF Passes, Ahead
  <2>2. (~Comes("put a", "put a")) /\ ~Comes("put b", "put b")
    BY PutWords
  <2> QED BY <1>4, <2>1, <2>2, GonePut2
<1>10. CASE k = "a"
  <2>1. s = "put a" /\ "put a" \in Ahead(p) /\ "put b" \in Ahead(p)
    BY <1>4, <1>10 DEF s, Puts, ConfigSafe
  <2>2. "put b" \in Words(Tail(proc[p].todo))
    BY <1>8, <2>1 DEF Ahead
  <2>3. Len(proc[p].todo) # 1
    BY <1>5, <2>2
  <2>4. "put a" \notin Ahead(p)'
    BY <1>4, <2>1, GonePut2, PutWords DEF Passes
  <2>5. proc'[p].no = proc[p].no \/ ~Putting(p)'
    <3>1. "no" \in Fields \ {"todo"}
      BY DEF Fields
    <3> QED BY <1>4, <3>1, GonePut2 DEF Alters, Putting
  <2>6. CASE config.mixed \/ config.open > 0
    BY <1>1, <1>6, <1>7, <1>10, <2>4, <2>6 DEF ConfigSafe
  <2>7. CASE ~config.mixed /\ ~(config.open > 0)
    <3>5. Halved => config.open > 0
      <4>1. Halved => config.open = 1
        BY DEF Halved
      <4> QED BY <4>1
    <3>1. Whole
      BY <2>7, <3>5 DEF ConfigSafe
    <3>2. config'.open = 1
      BY <1>1, <1>10, <2>3, <3>1 DEF Whole
    <3>3. \A q \in Handlers \ {p} : ~Putting(q)'
      BY <1>7, <3>1 DEF Whole
    <3>4. Halved'
      BY <1>6, <1>10, <2>5, <3>2, <3>3 DEF Halved
    <3> QED BY <1>6, <1>7, <2>4, <3>4 DEF ConfigSafe
  <2> QED BY <2>6, <2>7
<1>11. CASE k = "b"
  <2>1. s = "put b" /\ "put b" \in Ahead(p)
    BY <1>4, <1>11 DEF s, Puts
  <2>2. Words(Tail(proc[p].todo)) = {}
    BY <1>8, <2>1, PutWords
  <2>3. "put a" \notin Ahead(p)
    BY <1>8, <2>1, <2>2 DEF Ahead
  <2>4. Len(proc[p].todo) = 1 /\ Putting(p) /\ "put a" \notin Ahead(p)' /\ "put b" \notin Ahead(p)'
    BY <1>5, <1>9, <2>1, <2>2, <2>3 DEF Putting
  <2>5. CASE config.mixed
    BY <1>1, <1>6, <1>7, <2>4, <2>5 DEF ConfigSafe
  <2>6. CASE ~config.mixed
    <3>1. Halved
      BY <2>4, <2>6 DEF ConfigSafe, Whole
    <3>5. config.open = 1 /\ config'.open = (config.open + 0) - 1
      BY <1>1, <1>11, <2>4, <3>1, Zenon DEF Halved
    <3>2. config'.open = 0
      BY <3>5
    <3>3. \A q \in Handlers : ~Putting(q)'
      BY <1>7, <2>4, <3>1 DEF Halved, Putting
    <3>4. config'.row["a"].by = config'.row["b"].by
      BY <1>6, <1>11, <2>4, <3>1 DEF Halved, Keys
    <3> QED BY <1>6, <1>7, <2>4, <3>2, <3>3, <3>4 DEF ConfigSafe, Whole
  <2> QED BY <2>5, <2>6
<1> QED BY <1>10, <1>11 DEF Keys
LEMMA ConfigSafeNext ==
  ASSUME Core, Steady, ConfigSafe, ConfigKept
  PROVE  ConfigSafe'
<1>1. ProcInv /\ FlowInv
  BY DEF Core, Steady
<1>2. ASSUME Beside("config"), config' = config PROVE ConfigSafe'
  BY <1>1, <1>2, BesideAlike, ConfigRest, KindsAre
<1> QED BY <1>1, <1>2, SavingGo, ValidateGo, PutGo DEF ConfigKept, ConfigWork

MetricSafe ==
  /\ daily \in [org : 0..2, count : Nat, own : [0..2 -> Nat]]
  /\ DayCounts /\ (daily.org = 0 => \A o \in 1..2 : daily.own[o] = 0)
  /\ \A q \in Handlers : Has(proc[q], "metric") => proc[q].org \in 0..2
LEMMA MetricRest ==
  ASSUME MetricSafe, daily' = daily, \A q \in Handlers : Has(proc'[q], "metric") => Intact(q, "metric") /\ Has(proc[q], "metric")
  PROVE  MetricSafe'
<1>1. ASSUME NEW q \in Handlers, Has(proc'[q], "metric") PROVE proc'[q].org \in 0..2
  <2>1. proc'[q].org = proc[q].org
    BY <1>1, AllFields DEF Intact, Fields
  <2> QED BY <1>1, <2>1 DEF MetricSafe
<1> QED BY <1>1 DEF MetricSafe, DayCounts
(* Those who are to count, after a step of p.                              *)
LEMMA MetricOthers ==
  ASSUME ProcInv, FlowInv, MetricSafe, NEW p \in Handlers, MetricWork(p)
  PROVE  \A q \in Handlers : Has(proc'[q], "metric") => proc'[q].org \in 0..2
<1>1. Deed(p, "metric") /\ (CountMetric(p) => proc'[p].org \in 0..2)
  BY MetricDeed
<1>2. ASSUME NEW q \in Handlers \ {p}, Has(proc'[q], "metric") PROVE proc'[q].org \in 0..2
  <2>1. proc'[q] = proc[q] /\ Has(proc[q], "metric")
    BY <1>1, <1>2, DeedAlike, KindsAre
  <2> QED BY <2>1 DEF MetricSafe
<1>3. ASSUME Ensure(p) \/ Bump(p), Has(proc'[p], "metric") PROVE proc'[p].org \in 0..2
  <2>1. \E w \in MetricClan : At(p, w) /\ (proc' = Ended(p) \/ proc' = Advance(p) \/ proc' = Thrown(p))
    BY <1>3, MetricIn, ZenonT(40) DEF Ensure, Bump, Bumped
  <2>2. proc'[p] # Idle
    BY <1>3, NothingAhead, KindsAre
  <2>3. PICK w \in MetricClan : At(p, w) /\ proc' = Advance(p)
    BY <2>1, <2>2, ThrownGone
  <2>4. Alters(p, {"todo"}) /\ w \in Words(proc[p].todo) /\ Kind(w) = "metric"
    BY <2>2, <2>3, TurnMove, MetricKin, KindsAre, AtKind
  <2>5. "org" \in Fields \ {"todo"}
    BY DEF Fields
  <2>6. proc'[p].org = proc[p].org /\ Has(proc[p], "metric")
    BY <2>4, <2>5 DEF Alters, Has
  <2> QED BY <2>6 DEF MetricSafe
<1> QED BY <1>1, <1>2, <1>3 DEF MetricWork
LEMMA MetricAt ==
  ASSUME ProcInv, FlowInv, MetricSafe, NEW p \in Handlers, Ensure(p) \/ Bump(p)
  PROVE  proc[p].org \in 0..2
<1>1. \E w \in MetricClan : At(p, w)
  BY MetricIn, ZenonT(40) DEF Ensure, Bump, Bumped
<1>2. PICK w \in MetricClan : At(p, w)
  BY <1>1
<1>3. w \in Words(proc[p].todo) /\ Kind(w) = "metric"
  BY <1>2, MetricKin, KindsAre, AtKind
<1> QED BY <1>3 DEF MetricSafe, Has
(* The row is made, or was there; the counter goes up, or the write finds no row of its organisation. *)
Counts(o, c, own) == c = own[0] + (IF o = 0 THEN 0 ELSE own[o])
LEMMA EnsureRow ==
  ASSUME NEW o \in 0..2, NEW own \in [0..2 -> Nat], NEW c \in Nat, Counts(0, c, own), \A j \in 1..2 : own[j] = 0
  PROVE  Counts(o, c, own)
  BY DEF Counts
LEMMA BumpRow ==
  ASSUME NEW b \in 0..2, NEW own \in [0..2 -> Nat], NEW c \in Nat, NEW o \in {0, b}, Counts(b, c, own), b = 0 => \A j \in 1..2 : own[j] = 0
  PROVE  LET after == [own EXCEPT ![o] = @ + 1] IN
         /\ after \in [0..2 -> Nat] /\ Counts(b, c + 1, after) /\ (b = 0 => \A j \in 1..2 : after[j] = 0)
  BY DEF Counts
LEMMA MetricSafeNext ==
  ASSUME Core, Steady, MetricSafe, MetricKept
  PROVE  MetricSafe'
<1>1. ProcInv /\ FlowInv
  BY DEF Core, Steady
<1>2. ASSUME Beside("metric"), daily' = daily PROVE MetricSafe'
  BY <1>1, <1>2, BesideAlike, MetricRest, KindsAre
<1>3. ASSUME NEW p \in Handlers, MetricWork(p) PROVE MetricSafe'
  <2>1. \A q \in Handlers : Has(proc'[q], "metric") => proc'[q].org \in 0..2
    BY <1>1, <1>3, MetricOthers
  <2>2. daily \in [org : 0..2, count : Nat, own : [0..2 -> Nat]] /\ Counts(daily.org, daily.count, daily.own)
        /\ (daily.org = 0 => \A o \in 1..2 : daily.own[o] = 0)
    BY DEF MetricSafe, DayCounts, Counts
  <2>3. daily' = daily => MetricSafe'
    BY <2>1 DEF MetricSafe, DayCounts
  <2>4. CASE CountMetric(p)
    BY <2>3, <2>4 DEF CountMetric, tenancy
  <2>5. CASE Ensure(p) /\ daily' # daily
    <3>1. PICK o \in 1..2 : daily.org = 0 /\ daily' = [daily EXCEPT !.org = o]
      <4>1. proc[p].org \in 0..2
        BY <1>1, <2>5, MetricAt
      <4>2. daily.org = 0 /\ daily' = [daily EXCEPT !.org = IF proc[p].org = 0 THEN 1 ELSE proc[p].org]
        BY <2>5 DEF Ensure
      <4>3. (IF proc[p].org = 0 THEN 1 ELSE proc[p].org) \in 1..2
        BY <4>1
      <4> QED BY <4>2, <4>3
    <3>2. /\ daily' \in [org : 0..2, count : Nat, own : [0..2 -> Nat]] /\ daily'.org = o /\ o # 0
          /\ daily'.count = daily.count /\ daily'.own = daily.own
      BY <2>2, <3>1
    <3>3. Counts(o, daily.count, daily.own)
      BY <2>2, <3>1, EnsureRow
    <3>4. DayCounts'
      BY <3>2, <3>3 DEF DayCounts, Counts
    <3> QED BY <2>1, <3>2, <3>4 DEF MetricSafe
  <2>6. CASE Bump(p) /\ daily' # daily
    <3>1. PICK o \in {0, daily.org} : daily' = [daily EXCEPT !.count = @ + 1, !.own[o] = @ + 1]
      BY <2>6 DEF Bump, Bumped
    <3> DEFINE after == [daily.own EXCEPT ![o] = @ + 1]
    <3>2. daily'.org = daily.org /\ daily'.count = daily.count + 1 /\ daily'.own = after
          /\ daily' = [org |-> daily.org, count |-> daily.count + 1, own |-> after]
      BY <2>2, <3>1
    <3>3. after \in [0..2 -> Nat] /\ Counts(daily.org, daily.count + 1, after) /\ (daily.org = 0 => \A j \in 1..2 : after[j] = 0)
      <4> DEFINE b == daily.org
                 c == daily.count
                 own == daily.own
      <4>1. b \in 0..2 /\ own \in [0..2 -> Nat] /\ c \in Nat /\ o \in {0, b} /\ Counts(b, c, own)
            /\ (b = 0 => \A j \in 1..2 : own[j] = 0)
        BY <2>2, <3>1
      <4> HIDE DEF b, c, own
      <4>2. LET then == [own EXCEPT ![o] = @ + 1] IN
            then \in [0..2 -> Nat] /\ Counts(b, c + 1, then) /\ (b = 0 => \A j \in 1..2 : then[j] = 0)
        BY <4>1, BumpRow
      <4> QED BY <4>2 DEF b, c, own
    <3> HIDE DEF after
    <3>4. DayCounts' /\ (daily'.org = 0 => \A j \in 1..2 : daily'.own[j] = 0)
      BY <3>2, <3>3 DEF DayCounts, Counts
    <3>5. daily' \in [org : 0..2, count : Nat, own : [0..2 -> Nat]]
      BY <2>2, <3>2, <3>3
    <3> QED BY <2>1, <3>4, <3>5 DEF MetricSafe
  <2> QED BY <1>3, <2>3, <2>4, <2>5, <2>6 DEF MetricWork
<1> QED BY <1>2, <1>3 DEF MetricKept

ViewRows == \E S : views \in Seq(S)
LEMMA ViewsStay ==
  ASSUME ViewRows, NEW p, OtherWork(p)
  PROVE  ViewRows'
<1>1. CASE WriteView(p)
  <2>1. \/ \E x : views' = Append(views, x)
        \/ \E i, b : views' = [views EXCEPT ![i].alive = b]
        \/ views' = views
    BY <1>1 DEF WriteView
  <2>2. PICK S : views \in Seq(S)
    BY DEF ViewRows
  <2>3. ASSUME NEW x, views' = Append(views, x) PROVE ViewRows'
    <3>1. views \in Seq(S \cup {x})
      BY <2>2
    <3>2. Append(views, x) \in Seq(S \cup {x})
      BY <3>1, SeqAdd
    <3> QED BY <2>3, <3>2 DEF ViewRows
  <2>4. ASSUME NEW i, NEW b, views' = [views EXCEPT ![i].alive = b] PROVE ViewRows'
    <3> DEFINE x == [views[i] EXCEPT !.alive = b]
    <3>1. views' = [views EXCEPT ![i] = x]
      BY <2>4
    <3> HIDE DEF x
    <3>2. views \in Seq(S \cup {x})
      BY <2>2
    <3>3. [views EXCEPT ![i] = x] \in Seq(S \cup {x})
      <4>1. CASE i \in DOMAIN views
        BY <3>2, <4>1, SeqSet
      <4>2. CASE i \notin DOMAIN views
        <5>1. DOMAIN views = 1..Len(views)
          BY <3>2
        <5>2. views = [j \in DOMAIN views |-> views[j]]
          BY <3>2
        <5>3. [views EXCEPT ![i] = x] = [j \in DOMAIN views |-> views[j]]
          BY <4>2
        <5> QED BY <3>2, <5>2, <5>3
      <4> QED BY <4>1, <4>2
    <3> QED BY <3>1, <3>3 DEF ViewRows
  <2> QED BY <2>1, <2>3, <2>4 DEF ViewRows
<1>2. CASE ~WriteView(p)
  <2>1. views' = views
    BY <1>2 DEF OtherWork, CreateView, ChangeView, Edit, SaveSingle, FindSingle, UpdateSingle, CreateSingle, Boot, Seed, tenancy
  <2> QED BY SMTT(30), <2>1 DEF ViewRows
<1> QED BY <1>1, <1>2

TableSafe == SinglesOK /\ ConfigSafe /\ MetricSafe /\ ViewRows
LEMMA TablesStart == Init => TableSafe
<1> SUFFICES ASSUME Init PROVE TableSafe
  OBVIOUS
<1>1. \A q \in Handlers : proc[q] = Idle
  BY InitProc
<1>2. \A q \in Handlers : Ahead(q) = {} /\ ~Has(proc[q], "metric")
  BY <1>1, IdleHas, KindsAre, OrderedShort DEF Ahead
<1>3. TenancyInit
  BY DEF Init
<1>4. SinglesOK
  <2>1. DOMAIN singles = Tables /\ \A t \in Tables : singles[t] = <<>> \/ singles[t] = <<1>>
    BY <1>3 DEF TenancyInit
  <2> QED BY <2>1 DEF SinglesOK
<1>5. ConfigSafe
  <2>1. config.row = [k \in Keys |-> [org |-> 0, by |-> 0]] /\ config.open = 0 /\ config.mixed = FALSE
    BY <1>3 DEF TenancyInit
  <2>2. DOMAIN config.row = Keys /\ config.row["a"].by = config.row["b"].by
    BY <2>1 DEF Keys
  <2>3. Whole
    BY <1>2, <2>1, <2>2 DEF Whole, Putting
  <2> QED BY <1>2, <2>1, <2>2, <2>3 DEF ConfigSafe
<1>6. MetricSafe
  <2>1. daily = [org |-> 0, count |-> 0, own |-> [o \in 0..2 |-> 0]]
    BY <1>3 DEF TenancyInit
  <2> QED BY <1>2, <2>1 DEF MetricSafe, DayCounts
<1>7. ViewRows
  <2>1. views = <<[org |-> 1, alive |-> TRUE]>>
    BY <1>3 DEF TenancyInit
  <2>2. <<[org |-> 1, alive |-> TRUE]>> \in Seq({[org |-> 1, alive |-> TRUE]})
    OBVIOUS
  <2> QED BY <2>1, <2>2 DEF ViewRows
<1> QED BY <1>4, <1>5, <1>6, <1>7 DEF TableSafe
LEMMA TablesNext ==
  ASSUME Core, Steady, TableSafe, [Next]_vars
  PROVE  TableSafe'
<1>1. NicheKept /\ ConfigKept /\ MetricKept /\ OtherKept
  BY StepKept DEF EachKept
<1>2. SinglesOK'
  <2>1. singles' = singles => SinglesOK'
    BY DEF TableSafe, SinglesOK
  <2> QED BY <1>1, <2>1, SinglesStay DEF OtherKept, TableSafe
<1>3. ViewRows'
  <2>1. views' = views => ViewRows'
    BY DEF TableSafe, ViewRows
  <2> QED BY <1>1, <2>1, ViewsStay DEF OtherKept, TableSafe
<1> QED BY <1>1, <1>2, <1>3, ConfigSafeNext, MetricSafeNext DEF TableSafe
(* The tables keep what their saves mean together: a niche a day but for   *)
(* overlaps, one offer and one profile, a save whole but for overlaps and  *)
(* cuts, and every count of the day.  For any number of organisations,     *)
(* requests and days.                                                      *)
THEOREM TablesStayKept == Spec => []TablesKept
<1>1. Init => Core /\ Steady /\ TableSafe
  BY InitCore, NicheStarts, BookStarts, PageStarts, TablesStart DEF Steady
<1>2. Core /\ Steady /\ TableSafe /\ [Next]_vars => (Core /\ Steady /\ TableSafe)'
  BY CoreNext, SteadyNext, TablesNext
<1>3. ASSUME Core, Steady, TableSafe PROVE TablesKept
  <2>1. OneNichePerDay
    <3>1. DOMAIN orgs \subseteq Nat
      BY <1>3 DEF Core, RefInv, RowInv
    <3> QED BY <1>3, <3>1 DEF Steady, NicheSafe, FewADay, NicheOf, OneNichePerDay
  <2>2. OneOffer
    <3> SUFFICES ASSUME NEW t \in Tables, NEW o PROVE Cardinality({i \in DOMAIN singles[t] : singles[t][i] = o}) <= 1
      BY DEF OneOffer
    <3> DEFINE found == {i \in DOMAIN singles[t] : singles[t][i] = o}
    <3>1. found = {} \/ found = {1}
      BY <1>3 DEF TableSafe, SinglesOK
    <3> HIDE DEF found
    <3>2. Cardinality(found) \in {0, 1}
      BY <3>1, FS_EmptySet, FS_Singleton
    <3> QED BY <3>2 DEF found
  <2>3. SavedTogether
    <3>1. Halved => config.open # 0
      <4>1. Halved => config.open = 1
        BY DEF Halved
      <4> QED BY <4>1
    <3> QED BY <1>3, <3>1 DEF TableSafe, ConfigSafe, Whole, SavedTogether
  <2> QED BY <1>3, <2>1, <2>2, <2>3 DEF TableSafe, MetricSafe, TablesKept
<1> QED BY <1>1, <1>2, <1>3, PTL DEF Spec

(* Who takes a niche or a view from what it was.                           *)
LEMMA CommitOnly ==
  ASSUME ProcInv, FlowInv, NicheSafe, NEW p \in Handlers, Commit(p)
  PROVE  /\ NicheOK(p) /\ "commit" \in Ahead(p) /\ (\A w \in Ahead(p) : w = "commit")
         /\ Locked(p) /\ (proc[p].id # 0 => proc[p].id \in proc[p].locks)
         /\ At(p, "commit") /\ p \in Busy /\ proc'[p] # proc[p]
<1>1. At(p, "commit") /\ proc' = Ended(p)
  BY DEF Commit
<1>2. NicheOK(p) /\ "commit" \in Ahead(p) /\ "commit" \in OtherWords /\ Kind("commit") = "niche" /\ "niche" \in Kinds
  BY <1>1, NicheAtKind, NicheIn
<1>3. \A w \in Ahead(p) : w = "commit"
  BY <1>1, <1>2, LastWord, NicheNoMore, NicheIn
<1>4. p \in Busy /\ proc[p].todo # <<>> /\ proc'[p] = Idle
  BY <1>1, <1>2, BusyIs, ThrownGone
<1>5. "write" \notin Ahead(p)
  BY <1>3, NicheIn
<1>6. Locked(p) /\ (proc[p].id # 0 => proc[p].id \in proc[p].locks)
  BY <1>2, <1>5 DEF NicheOK
<1> QED BY <1>1, <1>2, <1>3, <1>4, <1>6, IdleHas
LEMMA RemoveOnly ==
  ASSUME ProcInv, FlowInv, NicheSafe, NEW p \in Handlers, RemoveNiche(p)
  PROVE  /\ proc[p].id \in DOMAIN niches /\ Sees(p, niches[proc[p].id]) /\ p \in Busy /\ proc'[p] # proc[p]
         /\ niches' = niches \/ niches' = [niches EXCEPT ![proc[p].id].alive = FALSE]
<1>1. /\ At(p, "delete niche") /\ (proc' = Ended(p) \/ proc' = Thrown(p))
      /\ niches' = niches \/ niches' = [niches EXCEPT ![proc[p].id].alive = FALSE]
  BY DEF RemoveNiche
<1>2. /\ NicheOK(p) /\ "delete niche" \in Ahead(p) /\ "delete niche" \in OtherWords /\ Kind("delete niche") = "niche"
      /\ "niche" \in Kinds
  BY <1>1, NicheAtKind, NicheIn
<1>3. \A w \in Ahead(p) : w = "delete niche"
  BY <1>1, <1>2, LastWord, NicheNoMore, NicheIn
<1>4. p \in Busy /\ proc[p].todo # <<>> /\ proc'[p] = Idle
  BY <1>1, <1>2, BusyIs, ThrownGone
<1>5. "find niche" \notin Ahead(p)
  BY <1>3, NicheIn
<1> QED BY <1>1, <1>2, <1>4, <1>5, IdleHas DEF NicheOK
NicheMoved(i) == niches'[i] # niches[i]
LEMMA NicheHome ==
  ASSUME Core, Steady, [Next]_vars, NEW i \in DOMAIN niches, NicheMoved(i)
  PROVE  /\ FromHome(niches[i])
         /\ niches[i].day # 0 /\ niches'[i].alive /\ niches'[i].day = 0 =>
              \/ \E p \in Busy : At(p, "commit") /\ proc[p].id = i
              \/ \E j \in DOMAIN niches' : niches'[j].alive /\ niches'[j].day = niches[i].day
<1>1. ProcInv /\ FlowInv /\ NicheSafe /\ NicheKept
  BY StepKept DEF Core, Steady, EachKept
<1>2. niches \in Seq(NicheRow)
  BY <1>1 DEF NicheSafe
<1>3. ASSUME NEW p \in Handlers, Commit(p) PROVE FromHome(niches[i]) /\
        (niches[i].day # 0 /\ niches'[i].alive /\ niches'[i].day = 0 =>
              \/ \E q \in Busy : At(q, "commit") /\ proc[q].id = i
              \/ \E j \in DOMAIN niches' : niches'[j].alive /\ niches'[j].day = niches[i].day)
  <2>1. /\ NicheOK(p) /\ "commit" \in Ahead(p) /\ (\A w \in Ahead(p) : w = "commit")
        /\ Locked(p) /\ (proc[p].id # 0 => proc[p].id \in proc[p].locks)
        /\ At(p, "commit") /\ p \in Busy /\ proc'[p] # proc[p]
    BY <1>1, <1>3, CommitOnly
  <2>2. /\ i # proc[p].id /\ i \notin proc[p].locks => niches'[i] = niches[i]
        /\ \E x \in DOMAIN niches' : niches'[x].day = proc[p].who /\ niches'[x].alive
    BY <1>2, <1>3, <2>1, CommitRows
  <2>3. i # 0
    BY <1>2
  <2>4. i \in proc[p].locks
    BY <2>1, <2>2, <2>3 DEF NicheMoved
  <2>5. Sees(p, niches[i]) /\ (i # proc[p].id => niches[i].day = proc[p].who)
    BY <2>1, <2>4 DEF Locked
  <2>6. FromHome(niches[i])
    BY <2>1, <2>5 DEF FromHome, Sees
  <2> QED BY <2>1, <2>2, <2>5, <2>6
<1>4. ASSUME NEW p \in Handlers, RemoveNiche(p) PROVE FromHome(niches[i]) /\ niches'[i].day = niches[i].day
  <2>1. /\ proc[p].id \in DOMAIN niches /\ Sees(p, niches[proc[p].id]) /\ p \in Busy /\ proc'[p] # proc[p]
        /\ niches' = niches \/ niches' = [niches EXCEPT ![proc[p].id].alive = FALSE]
    BY <1>1, <1>4, RemoveOnly
  <2>2. niches' = [niches EXCEPT ![proc[p].id].alive = FALSE]
    BY <2>1 DEF NicheMoved
  <2>3. niches'[i].day = niches[i].day /\ (i # proc[p].id => niches'[i] = niches[i])
    BY <1>2, <2>1, <2>2, RemoveRows
  <2> QED BY <2>1, <2>3 DEF NicheMoved, FromHome, Sees
<1>5. \E p \in Handlers : Commit(p) \/ RemoveNiche(p)
  BY <1>1, ZenonT(40) DEF NicheKept, NicheMoved, NicheWork, CreateNiche, UpdateNiche, DeleteNiche, Edit, FindNiche, BeginTransaction,
       MarkDay, MarkedDay, LockDay, WriteNiche, AbortOne, tenancy
<1> QED BY <1>3, <1>4, <1>5
LEMMA ViewHome ==
  ASSUME Core, Steady, ViewRows, [Next]_vars, NEW i \in DOMAIN views, views'[i] # views[i]
  PROVE  FromHome(views[i])
<1>1. ProcInv /\ FlowInv /\ OtherKept
  BY StepKept DEF Core, Steady, EachKept
<1>2. PICK p \in Handlers : WriteView(p)
  BY <1>1 DEF OtherKept, OtherWork, CreateView, ChangeView, Edit, SaveSingle, FindSingle, UpdateSingle, CreateSingle, Boot,
       Seed, tenancy
<1>3. PICK S : views \in Seq(S)
  BY DEF ViewRows
<1>4. ASSUME NEW x, views' = Append(views, x) PROVE FALSE
  <2>1. views \in Seq(S \cup {x})
    BY <1>3
  <2>2. Append(views, x)[i] = views[i]
    BY <2>1, SeqAdd
  <2> QED BY <1>4, <2>2
<1>5. /\ At(p, "create view") \/ At(p, "update view") \/ At(p, "delete view")
      /\ proc' = Ended(p) \/ proc' = Thrown(p)
  BY <1>2 DEF WriteView
<1>6. /\ views[proc[p].id].alive /\ Sees(p, views[proc[p].id])
      /\ \E b : views' = [views EXCEPT ![proc[p].id].alive = b]
  BY <1>2, <1>4 DEF WriteView
<1>7. i = proc[p].id
  BY <1>6
<1>8. p \in Busy /\ proc'[p] # proc[p]
  <2>1. proc[p].todo # <<>> /\ proc'[p] = Idle
    BY <1>1, <1>5, ThrownGone DEF At
  <2> QED BY <2>1, IdleHas DEF Busy
<1> QED BY <1>6, <1>7, <1>8 DEF FromHome, Sees
(* A niche or a view changes for its own organisation or a super-admin     *)
(* only, and a niche loses its day to another or by its own update: under  *)
(* transactions that overlap, wait for each other, are aborted or cut off. *)
THEOREM NichesStayKept == Spec => NichesKept
<1>1. Init => Core /\ Steady /\ TableSafe
  BY InitCore, NicheStarts, BookStarts, PageStarts, TablesStart DEF Steady
<1>2. Core /\ Steady /\ TableSafe /\ [Next]_vars => (Core /\ Steady /\ TableSafe)'
  BY CoreNext, SteadyNext, TablesNext
<1>3. ASSUME Core, Steady, TableSafe, [Next]_vars
      PROVE [/\ \A i \in DOMAIN niches : niches'[i] # niches[i] => FromHome(niches[i])
             /\ \A i \in DOMAIN views : views'[i] # views[i] => FromHome(views[i])]_<<niches, views, proc>>
  BY <1>3, NicheHome, ViewHome DEF TableSafe, NicheMoved
<1>4. ASSUME Core, Steady, TableSafe, [Next]_vars
      PROVE [\A i \in DOMAIN niches :
              niches[i].day # 0 /\ niches'[i].alive /\ niches'[i].day = 0 =>
                \/ \E p \in Busy : At(p, "commit") /\ proc[p].id = i
                \/ \E j \in DOMAIN niches' : niches'[j].alive /\ niches'[j].day = niches[i].day]_<<niches, proc>>
  BY <1>4, NicheHome DEF NicheMoved
<1>5. Spec => StaysHome
  BY <1>1, <1>2, <1>3, PTL DEF Spec, StaysHome
<1>6. Spec => DayHandedOver
  BY <1>1, <1>2, <1>4, PTL DEF Spec, DayHandedOver
<1> QED BY <1>5, <1>6 DEF NichesKept
=============================================================================
