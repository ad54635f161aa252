--------------------------- MODULE PlatformProofs ----------------------------
(***************************************************************************)
(* The safety properties of Platform as theorems. TypeInv types the state  *)
(* and says which program every handler is in; BoundInv counts the runs    *)
(* that lost their row; OnceInv ties what a delivery has still to write to *)
(* what is written of its event; MirrorInv says where the rows are while   *)
(* the last event is being carried out.                                    *)
(***************************************************************************)
EXTENDS Platform, FiniteSetTheorems, SequenceTheorems, TLAPS

(* The steps a handler of a kind may have left.                            *)
May(op, step) ==
  \/ op = "hook" /\ step \in {"find", "record", "sub active", "sub charged", "sub locked", "sub grace",
                              "org active", "org locked"}
  \/ op = "check" /\ step \in {"read sub", "read org", "sweep", "look", "enqueue", "unlock",
                               "sub locked", "org locked"}
  \/ op = "admin" /\ step \in {"org suspended", "subs locked", "sub upserted", "sub trial", "org trial",
                               "delete sub", "delete org"}
  \/ op = "touch" /\ step = "sub touched"
  \/ op = "subscribe" /\ step \in {"open", "store"}
  \/ op = "night" /\ step \in {"lock trials", "lock graces", "find locked", "sync orgs"}
  \/ op = "job" /\ step \in {"read sub", "read org", "row", "cron", "finish", "close"}
  \/ op = "legacy" /\ step \in {"sweep", "look", "cron", "finish", "unlock"}

(* The steps that come right after a step in some program.                 *)
Then(step, next) ==
  \/ step = "read sub" /\ next = "read org"
  \/ step = "read org" /\ next \in {"sweep", "unlock", "row"}
  \/ step = "sweep" /\ next = "look"
  \/ step = "look" /\ next \in {"enqueue", "cron"}
  \/ step = "row" /\ next = "cron"
  \/ step = "cron" /\ next = "finish"
  \/ step = "finish" /\ next = "close"
  \/ step = "open" /\ next = "store"
  \/ step = "lock trials" /\ next = "lock graces"
  \/ step = "lock graces" /\ next = "find locked"
  \/ step = "find locked" /\ next = "sync orgs"
  \/ step \in {"sub active", "sub charged"} /\ next = "org active"
  \/ step = "sub locked" /\ next = "org locked"
  \/ step = "org suspended" /\ next = "subs locked"
  \/ step = "sub trial" /\ next = "org trial"
  \/ step = "delete sub" /\ next = "delete org"

Program(op, t) ==
  /\ t \in Seq(Steps)
  /\ \A i \in 1..Len(t) : May(op, t[i])
  /\ \A i \in 1..Len(t) - 1 : Then(t[i], t[i + 1])

Handlers == [op : Ops, ev : Nat, todo : Seq(Steps), saw : {"nothing", "open", "expired", "locked"}]

(* A handler of p that has a program of its own kind, while n events have  *)
(* been emitted.                                                           *)
Fits(p, r, n) ==
  /\ r \in Handlers
  /\ Program(r.op, r.todo)
  /\ p \in Dash => r.op \in {"idle", "legacy"}
  /\ p = Worker => r.op \in {"idle", "job"} /\ r.ev < Attempts
  /\ r.op = "hook" => r.ev \in 1..n /\ p \in Api
  /\ r.op = "subscribe" => r.ev <= MaxSubs

ProcOK(pr, n) ==
  /\ pr \in [Procs -> Handlers]
  /\ \A p \in Procs : Fits(p, pr[p], n)

(* PlatformTypeOK but for the handlers, and with them.                     *)
WorldOK ==
  /\ sub \in Subs \cup {NoSub}
  /\ org \in OrgStatuses \cup {"gone"}
  /\ opened \in [1..MaxSubs -> {"none", "created", "offered", "live", "over"}]
  /\ emitted \in Seq([type : EventTypes, rzp : 1..MaxSubs]) /\ Len(emitted) <= MaxEvents
  /\ due \subseteq 1..Len(emitted) /\ seen \subseteq 1..Len(emitted)
  /\ children \in BOOLEAN /\ muddled \in BOOLEAN
  /\ calls \in 0..MaxCalls /\ faults \in 0..MaxFaults
  /\ done \in [1..MaxEvents -> Nat] /\ early \subseteq Procs
  /\ jobs \in Seq(0..Attempts - 1) /\ rows \subseteq Row /\ slipped \in Nat
TypeInv == WorldOK /\ ProcOK(proc, Len(emitted))

-----------------------------------------------------------------------------
(* Programs *)

(* What is left of a program is a program, and begins with a step that may *)
(* come next.                                                              *)
LEMMA TailProgram ==
  ASSUME NEW op, NEW t, Program(op, t), t # <<>>
  PROVE  /\ May(op, Head(t))
         /\ Program(op, Tail(t))
         /\ Tail(t) # <<>> => Then(Head(t), Head(Tail(t)))
<1>1. /\ t \in Seq(Steps) /\ Len(t) \in Nat \ {0} /\ Tail(t) \in Seq(Steps)
      /\ Len(Tail(t)) = Len(t) - 1
      /\ \A i \in 1..Len(Tail(t)) : Tail(t)[i] = t[i + 1]
  BY HeadTailProperties, EmptySeq DEF Program
<1>2. Head(t) = t[1] /\ (Tail(t) # <<>> => Len(Tail(t)) # 0 /\ Head(Tail(t)) = Tail(t)[1])
  BY <1>1, EmptySeq
<1>3. \A i \in 1..Len(Tail(t)) : May(op, Tail(t)[i])
  BY <1>1 DEF Program
<1>4. \A i \in 1..Len(Tail(t)) - 1 : Then(Tail(t)[i], Tail(t)[i + 1])
  <2> SUFFICES ASSUME NEW i \in 1..Len(Tail(t)) - 1 PROVE Then(Tail(t)[i], Tail(t)[i + 1])
    OBVIOUS
  <2>1. i + 1 \in 1..Len(t) - 1 /\ Tail(t)[i] = t[i + 1] /\ Tail(t)[i + 1] = t[(i + 1) + 1]
    BY <1>1
  <2> QED BY <2>1 DEF Program
<1> QED BY <1>1, <1>2, <1>3, <1>4 DEF Program

LEMMA NoProgram == \A op : Program(op, <<>>)
  BY EmptySeq DEF Program

(* Programs of one and of two steps.                                       *)
LEMMA ShortProgram ==
  ASSUME NEW op, NEW a \in Steps, NEW b \in Steps, May(op, a)
  PROVE  /\ Program(op, <<a>>)
         /\ May(op, b) /\ Then(a, b) => Program(op, <<a, b>>)
<1>1. Program(op, <<a>>)
  BY DEF Program
<1>2. ASSUME May(op, b), Then(a, b) PROVE Program(op, <<a, b>>)
  BY <1>2 DEF Program
<1> QED BY <1>1, <1>2

(* A sequence of at most six steps, step by step.                          *)
LEMMA ListProgram ==
  ASSUME NEW op, NEW t \in Seq(Steps), NEW n \in 1..6, Len(t) = n,
         1 <= n => May(op, t[1]),
         2 <= n => May(op, t[2]) /\ Then(t[1], t[2]),
         3 <= n => May(op, t[3]) /\ Then(t[2], t[3]),
         4 <= n => May(op, t[4]) /\ Then(t[3], t[4]),
         5 <= n => May(op, t[5]) /\ Then(t[4], t[5]),
         6 <= n => May(op, t[6]) /\ Then(t[5], t[6])
  PROVE  Program(op, t)
<1>1. Len(t) \in 1..6
  OBVIOUS
<1>2. \A i \in 1..Len(t) : May(op, t[i])
  <2> SUFFICES ASSUME NEW i \in 1..Len(t) PROVE May(op, t[i])
    OBVIOUS
  <2>1. i \in {1, 2, 3, 4, 5, 6}
    BY <1>1
  <2> QED BY <1>1, <2>1
<1>3. \A i \in 1..Len(t) - 1 : Then(t[i], t[i + 1])
  <2> SUFFICES ASSUME NEW i \in 1..Len(t) - 1 PROVE Then(t[i], t[i + 1])
    OBVIOUS
  <2>1. i = 1 \/ i = 2 \/ i = 3 \/ i = 4 \/ i = 5
    BY <1>1
  <2>2. CASE i = 1
    BY <1>1, <2>2
  <2>3. CASE i = 2
    BY <1>1, <2>3
  <2>4. CASE i = 3
    BY <1>1, <2>4
  <2>5. CASE i = 4
    BY <1>1, <2>5
  <2>6. CASE i = 5
    BY <1>1, <2>6
  <2> QED BY <2>1, <2>2, <2>3, <2>4, <2>5, <2>6
<1> QED BY <1>2, <1>3 DEF Program

(* The programs that are begun.                                            *)
LEMMA TriggerProgram == Program("check", <<"read sub", "read org", "sweep", "look", "enqueue">>)
<1> DEFINE t == <<"read sub", "read org", "sweep", "look", "enqueue">>
<1>1. t \in Seq(Steps) /\ Len(t) = 5
  BY DEF Steps, SubWrites, OrgWrites
<1>2. t[1] = "read sub" /\ t[2] = "read org" /\ t[3] = "sweep" /\ t[4] = "look" /\ t[5] = "enqueue"
  OBVIOUS
<1> HIDE DEF t
<1>3. SUFFICES ASSUME NEW op, op = "check" PROVE Program(op, t)
  BY DEF t
<1>4. May(op, t[1]) /\ May(op, t[2]) /\ May(op, t[3]) /\ May(op, t[4]) /\ May(op, t[5])
  BY <1>2, <1>3 DEF May
<1>5. Then(t[1], t[2]) /\ Then(t[2], t[3]) /\ Then(t[3], t[4]) /\ Then(t[4], t[5])
  BY <1>2 DEF Then
<1> QED BY <1>1, <1>4, <1>5, ListProgram

LEMMA UnlockProgram == Program("check", <<"read sub", "read org", "unlock">>)
<1> DEFINE t == <<"read sub", "read org", "unlock">>
<1>1. t \in Seq(Steps) /\ Len(t) = 3
  BY DEF Steps, SubWrites, OrgWrites
<1>2. t[1] = "read sub" /\ t[2] = "read org" /\ t[3] = "unlock"
  OBVIOUS
<1> HIDE DEF t
<1>3. SUFFICES ASSUME NEW op, op = "check" PROVE Program(op, t)
  BY DEF t
<1>4. May(op, t[1]) /\ May(op, t[2]) /\ May(op, t[3])
  BY <1>2, <1>3 DEF May
<1>5. Then(t[1], t[2]) /\ Then(t[2], t[3])
  BY <1>2 DEF Then
<1> QED BY <1>1, <1>4, <1>5, ListProgram

LEMMA LegacyProgram == Program("legacy", <<"sweep", "look", "cron", "finish">>)
<1> DEFINE t == <<"sweep", "look", "cron", "finish">>
<1>1. t \in Seq(Steps) /\ Len(t) = 4
  BY DEF Steps, SubWrites, OrgWrites
<1>2. t[1] = "sweep" /\ t[2] = "look" /\ t[3] = "cron" /\ t[4] = "finish"
  OBVIOUS
<1> HIDE DEF t
<1>3. SUFFICES ASSUME NEW op, op = "legacy" PROVE Program(op, t)
  BY DEF t
<1>4. May(op, t[1]) /\ May(op, t[2]) /\ May(op, t[3]) /\ May(op, t[4])
  BY <1>2, <1>3 DEF May
<1>5. Then(t[1], t[2]) /\ Then(t[2], t[3]) /\ Then(t[3], t[4])
  BY <1>2 DEF Then
<1> QED BY <1>1, <1>4, <1>5, ListProgram

LEMMA JobProgram == Program("job", <<"read sub", "read org", "row", "cron", "finish", "close">>)
<1> DEFINE t == <<"read sub", "read org", "row", "cron", "finish", "close">>
<1>1. t \in Seq(Steps) /\ Len(t) = 6
  BY DEF Steps, SubWrites, OrgWrites
<1>2. t[1] = "read sub" /\ t[2] = "read org" /\ t[3] = "row" /\ t[4] = "cron" /\ t[5] = "finish" /\ t[6] = "close"
  OBVIOUS
<1> HIDE DEF t
<1>3. SUFFICES ASSUME NEW op, op = "job" PROVE Program(op, t)
  BY DEF t
<1>4. May(op, t[1]) /\ May(op, t[2]) /\ May(op, t[3]) /\ May(op, t[4]) /\ May(op, t[5]) /\ May(op, t[6])
  BY <1>2, <1>3 DEF May
<1>5. Then(t[1], t[2]) /\ Then(t[2], t[3]) /\ Then(t[3], t[4]) /\ Then(t[4], t[5]) /\ Then(t[5], t[6])
  BY <1>2 DEF Then
<1> QED BY <1>1, <1>4, <1>5, ListProgram

LEMMA NightProgram == Program("night", <<"lock trials", "lock graces", "find locked", "sync orgs">>)
<1> DEFINE t == <<"lock trials", "lock graces", "find locked", "sync orgs">>
<1>1. t \in Seq(Steps) /\ Len(t) = 4
  BY DEF Steps, SubWrites, OrgWrites
<1>2. t[1] = "lock trials" /\ t[2] = "lock graces" /\ t[3] = "find locked" /\ t[4] = "sync orgs"
  OBVIOUS
<1> HIDE DEF t
<1>3. SUFFICES ASSUME NEW op, op = "night" PROVE Program(op, t)
  BY DEF t
<1>4. May(op, t[1]) /\ May(op, t[2]) /\ May(op, t[3]) /\ May(op, t[4])
  BY <1>2, <1>3 DEF May
<1>5. Then(t[1], t[2]) /\ Then(t[2], t[3]) /\ Then(t[3], t[4])
  BY <1>2 DEF Then
<1> QED BY <1>1, <1>4, <1>5, ListProgram

(* The writes of an event: at most two.                                    *)
LEMMA EffectsProgram ==
  ASSUME NEW type \in EventTypes
  PROVE  /\ Program("hook", Effects(type)) /\ Len(Effects(type)) \in 0..2
         /\ Effects(type) # <<>> => Head(Effects(type)) \notin {"find", "record"}
<1>1. Program("hook", Effects(type))
  BY ShortProgram, NoProgram DEF Effects, EventTypes, May, Then, Steps, SubWrites, OrgWrites, Updates
<1>2. Len(Effects(type)) \in 0..2
  BY DEF Effects, EventTypes
<1>3. Effects(type) # <<>> => Head(Effects(type)) \notin {"find", "record"}
  BY DEF Effects, EventTypes
<1> QED BY <1>1, <1>2, <1>3

-----------------------------------------------------------------------------
(* Handlers *)

(* An idle handler, one that goes on, and one that has begun a program.    *)
LEMMA IdleFits == \A p \in Procs, n \in Nat : Fits(p, Idle, n)
<1>1. Idle \in Handlers /\ Idle.op = "idle" /\ Idle.todo = <<>> /\ Idle.ev = 0
  BY EmptySeq DEF Idle, Handlers, Ops
<1> QED BY <1>1, NoProgram DEF Fits, Attempts

LEMMA GoesOn ==
  ASSUME NEW p \in Procs, NEW r, NEW n \in Nat, Fits(p, r, n), r.todo # <<>>
  PROVE  /\ May(r.op, Head(r.todo))
         /\ Tail(r.todo) # <<>> => Then(Head(r.todo), Head(Tail(r.todo)))
         /\ Fits(p, [r EXCEPT !.todo = Tail(@)], n)
<1>1. /\ May(r.op, Head(r.todo)) /\ Program(r.op, Tail(r.todo))
      /\ Tail(r.todo) # <<>> => Then(Head(r.todo), Head(Tail(r.todo)))
  BY TailProgram DEF Fits
<1>2. [r EXCEPT !.todo = Tail(@)] \in Handlers
  BY <1>1 DEF Fits, Handlers, Program
<1> QED BY <1>1, <1>2 DEF Fits, Handlers

LEMMA BegunFits ==
  ASSUME NEW p \in Procs, NEW op \in Ops, NEW ev \in Nat, NEW t, Program(op, t), NEW n \in Nat,
         p \in Dash => op \in {"idle", "legacy"},
         p = Worker => op \in {"idle", "job"} /\ ev < Attempts,
         op = "hook" => ev \in 1..n /\ p \in Api,
         op = "subscribe" => ev <= MaxSubs
  PROVE  Fits(p, [op |-> op, ev |-> ev, todo |-> t, saw |-> "nothing"], n)
  BY DEF Fits, Handlers, Program

(* More events do no harm.                                                 *)
LEMMA MoreEvents ==
  ASSUME NEW p \in Procs, NEW r, NEW n \in Nat, NEW m \in Nat, n <= m, Fits(p, r, n)
  PROVE  Fits(p, r, m)
  BY DEF Fits

(* What becomes of the handlers when one of them changes, or a process dies. *)
LEMMA ChangeOK ==
  ASSUME NEW n \in Nat, ProcOK(proc, n), NEW p \in Procs, NEW r, Fits(p, r, n)
  PROVE  ProcOK([proc EXCEPT ![p] = r], n)
  BY DEF ProcOK, Fits

LEMMA EndedOK ==
  ASSUME NEW n \in Nat, ProcOK(proc, n), NEW p \in Procs
  PROVE  ProcOK(Ended(p), n)
  BY IdleFits, ChangeOK DEF Ended

LEMMA TailOK ==
  ASSUME NEW n \in Nat, ProcOK(proc, n), NEW p \in Procs, proc[p].todo # <<>>
  PROVE  /\ May(proc[p].op, Head(proc[p].todo))
         /\ Tail(proc[p].todo) # <<>> => Then(Head(proc[p].todo), Head(Tail(proc[p].todo)))
         /\ Fits(p, [proc[p] EXCEPT !.todo = Tail(@)], n)
         /\ ProcOK([proc EXCEPT ![p].todo = Tail(@)], n)
<1>1. Fits(p, proc[p], n)
  BY DEF ProcOK
<1>2. /\ May(proc[p].op, Head(proc[p].todo))
      /\ Tail(proc[p].todo) # <<>> => Then(Head(proc[p].todo), Head(Tail(proc[p].todo)))
      /\ Fits(p, [proc[p] EXCEPT !.todo = Tail(@)], n)
  BY <1>1, GoesOn
<1>3. ProcOK([proc EXCEPT ![p] = [proc[p] EXCEPT !.todo = Tail(@)]], n)
  BY <1>2, ChangeOK
<1>4. [proc EXCEPT ![p] = [proc[p] EXCEPT !.todo = Tail(@)]] = [proc EXCEPT ![p].todo = Tail(@)]
  BY DEF ProcOK
<1> QED BY <1>2, <1>3, <1>4

LEMMA AdvanceOK ==
  ASSUME NEW n \in Nat, ProcOK(proc, n), NEW p \in Procs, proc[p].todo # <<>>
  PROVE  ProcOK(Advance(p), n)
  BY TailOK, EndedOK DEF Advance

LEMMA DeadOK ==
  ASSUME NEW n \in Nat, ProcOK(proc, n)
  PROVE  /\ ProcOK(ApiDead, n)
         /\ \A p \in Procs : ProcOK(Thrown(p), n)
<1>1. ProcOK(ApiDead, n)
  BY IdleFits DEF ProcOK, ApiDead, Fits
<1> QED BY <1>1, EndedOK DEF Thrown

LEMMA KeptOK ==
  ASSUME NEW n \in Nat, NEW m \in Nat, n <= m, ProcOK(proc, n)
  PROVE  ProcOK(proc, m)
  BY MoreEvents DEF ProcOK

LEMMA BegunOK ==
  ASSUME NEW n \in Nat, ProcOK(proc, n), NEW p \in Procs, NEW kind, NEW op \in Ops, NEW ev \in Nat,
         NEW t, Program(op, t), Begin(p, kind, op, ev, t),
         p \in Dash => op \in {"idle", "legacy"},
         p = Worker => op \in {"idle", "job"} /\ ev < Attempts,
         op = "hook" => ev \in 1..n /\ p \in Api,
         op = "subscribe" => ev <= MaxSubs
  PROVE  ProcOK(proc', n)
  BY BegunFits, ChangeOK DEF Begin

-----------------------------------------------------------------------------
(* Types *)

(* Requests.                                                               *)
LEMMA Apart == \A p \in Api : p \in Procs /\ p \notin Dash /\ p # Worker /\ p # Night
  BY BillingAssumption DEF Procs

LEMMA ShortPrograms ==
  /\ Program("hook", <<"find">>) /\ Program("hook", <<"record">>)
  /\ Program("check", <<"read sub", "read org">>) /\ Program("check", <<"sub locked", "org locked">>)
  /\ Program("touch", <<"sub touched">>) /\ Program("subscribe", <<"open", "store">>)
  /\ Program("legacy", <<"unlock">>)
  /\ \A t \in AdminPrograms : Program("admin", t)
<1>1. /\ Program("hook", <<"find">>) /\ Program("hook", <<"record">>)
      /\ Program("check", <<"read sub", "read org">>) /\ Program("check", <<"sub locked", "org locked">>)
  BY ShortProgram DEF May, Then, Steps, SubWrites, OrgWrites, Updates
<1>2. /\ Program("touch", <<"sub touched">>) /\ Program("subscribe", <<"open", "store">>)
      /\ Program("legacy", <<"unlock">>)
  BY ShortProgram DEF May, Then, Steps, SubWrites, OrgWrites, Updates
<1>3. Program("admin", <<"org suspended", "subs locked">>) /\ Program("admin", <<"sub upserted">>)
  BY ShortProgram DEF May, Then, Steps, SubWrites, OrgWrites, Updates
<1>4. Program("admin", <<"sub trial", "org trial">>) /\ Program("admin", <<"delete sub", "delete org">>)
  BY ShortProgram DEF May, Then, Steps, SubWrites, OrgWrites, Updates
<1> QED BY <1>1, <1>2, <1>3, <1>4 DEF AdminPrograms

(* A request other than a delivery begins a program of its kind.            *)
LEMMA AskedOK ==
  ASSUME NEW n \in Nat, ProcOK(proc, n), NEW p \in Procs, p # Worker, NEW kind,
         NEW op \in Ops, op # "hook", p \in Dash => op = "legacy",
         NEW t, Program(op, t), Begin(p, kind, op, 0, t)
  PROVE  ProcOK(proc', n)
<1>1. 0 \in Nat /\ 0 <= MaxSubs
  BY BillingAssumption
<1> QED BY <1>1, BegunOK

LEMMA RequestsOK ==
  ASSUME TypeInv, NEW p \in Procs,
         \/ (Deliver(p) \/ Admin(p) \/ Query(p) \/ Touch(p) \/ Subscribe(p)) /\ UNCHANGED lock
         \/ Trigger(p) \/ Unlock(p) \/ LegacyTrigger(p)
  PROVE  TypeInv'
<1>1. Len(emitted) \in Nat /\ ProcOK(proc, Len(emitted)) /\ due \subseteq 1..Len(emitted)
  BY DEF TypeInv, WorldOK
<1>2. UNCHANGED <<billing, faults, ghosts, lock>> /\ calls' = calls + 1 /\ calls < MaxCalls
  BY DEF Deliver, Admin, Query, Touch, Subscribe, Trigger, Unlock, LegacyTrigger, Ask, Begin
<1>3. WorldOK' /\ emitted' = emitted
  <2>1. calls \in 0..MaxCalls /\ MaxCalls \in Nat
    BY BillingAssumption DEF TypeInv, WorldOK
  <2>2. calls' \in 0..MaxCalls
    BY <1>2, <2>1
  <2> QED BY <1>2, <2>2 DEF TypeInv, WorldOK, billing, ghosts, lock
<1>4. Worker \notin Api /\ Worker \notin Dash /\ Api \cap Dash = {}
  BY BillingAssumption
<1>5. "hook" \in Ops /\ "check" \in Ops /\ "admin" \in Ops /\ "touch" \in Ops /\ "subscribe" \in Ops /\ "legacy" \in Ops
  BY DEF Ops
<1>6. ProcOK(proc', Len(emitted))
  <2>1. CASE Deliver(p)
    <3>1. PICK k \in due : p \in Api /\ Begin(p, "hook", "hook", k, <<"find">>)
      BY <2>1 DEF Deliver
    <3>2. k \in Nat /\ k \in 1..Len(emitted)
      BY <1>1
    <3> QED BY <3>1, <3>2, <1>1, <1>4, <1>5, Apart, BegunOK, ShortPrograms
  <2>2. CASE Admin(p)
    BY <2>2, <1>1, <1>4, <1>5, AskedOK, ShortPrograms DEF Admin, Ask
  <2>3. CASE Query(p)
    BY <2>3, <1>1, <1>4, <1>5, AskedOK, ShortPrograms DEF Query, Ask
  <2>4. CASE Touch(p)
    BY <2>4, <1>1, <1>4, <1>5, AskedOK, ShortPrograms DEF Touch, Ask
  <2>5. CASE Subscribe(p)
    BY <2>5, <1>1, <1>4, <1>5, AskedOK, ShortPrograms DEF Subscribe, Ask
  <2>6. CASE Trigger(p)
    BY <2>6, <1>1, <1>4, <1>5, AskedOK, TriggerProgram DEF Trigger, Ask
  <2>7. CASE Unlock(p)
    BY <2>7, <1>1, <1>4, <1>5, AskedOK, UnlockProgram, ShortPrograms DEF Unlock, Ask
  <2>8. CASE LegacyTrigger(p)
    BY <2>8, <1>1, <1>4, <1>5, AskedOK, LegacyProgram DEF LegacyTrigger, Ask
  <2> QED BY <2>1, <2>2, <2>3, <2>4, <2>5, <2>6, <2>7, <2>8
<1> QED BY <1>3, <1>6 DEF TypeInv

(* Deliveries and writes.                                                  *)
LEMMA ProgramOK ==
  ASSUME NEW n \in Nat, ProcOK(proc, n), NEW p \in Procs, NEW t, Program(proc[p].op, t)
  PROVE  ProcOK([proc EXCEPT ![p].todo = t], n)
<1>1. Fits(p, proc[p], n)
  BY DEF ProcOK
<1>2. Fits(p, [proc[p] EXCEPT !.todo = t], n)
  BY <1>1 DEF Fits, Handlers, Program
<1>3. [proc EXCEPT ![p] = [proc[p] EXCEPT !.todo = t]] = [proc EXCEPT ![p].todo = t]
  BY DEF ProcOK
<1> QED BY <1>2, <1>3, ChangeOK

LEMMA HookOK ==
  ASSUME NEW n \in Nat, ProcOK(proc, n), NEW p \in Procs, At(p, "find") \/ At(p, "record")
  PROVE  proc[p].op = "hook" /\ proc[p].ev \in 1..n
<1>1. May(proc[p].op, Head(proc[p].todo)) /\ Fits(p, proc[p], n)
  BY TailOK DEF At, ProcOK
<1> QED BY <1>1 DEF At, May, Fits

LEMMA SubAfterOK ==
  ASSUME sub \in Subs \cup {NoSub}, NEW w, ~Throws(w)
  PROVE  SubAfter(w) \in Subs \cup {NoSub}
<1>1. NoSub = [status |-> "none", trial |-> "none", grace |-> "none", rzp |-> 0] /\ 0 \in 0..MaxSubs
  BY BillingAssumption DEF NoSub
<1>2. [sub EXCEPT !.status = "active"] \in Subs
  BY <1>1 DEF Subs, SubStatuses
<1>3. sub # NoSub => [sub EXCEPT !.status = "active", !.grace = "none"] \in Subs
  BY DEF Subs, SubStatuses
<1>4. sub # NoSub => [sub EXCEPT !.status = "locked"] \in Subs
  BY DEF Subs, SubStatuses
<1>5. sub # NoSub => [sub EXCEPT !.status = "grace", !.grace = "ahead"] \in Subs
  BY DEF Subs, SubStatuses
<1>6. sub # NoSub => [sub EXCEPT !.status = "trial", !.trial = "ahead"] \in Subs
  BY DEF Subs, SubStatuses
<1>7. w \in Updates => sub # NoSub
  BY DEF Throws
<1>8. sub.status # "none" => sub # NoSub
  BY <1>1
<1> QED BY <1>2, <1>3, <1>4, <1>5, <1>6, <1>7, <1>8 DEF SubAfter, Updates

LEMMA OrgAfterOK ==
  ASSUME org \in OrgStatuses \cup {"gone"}, NEW w, NEW saw
  PROVE  OrgAfter(w, saw) \in OrgStatuses \cup {"gone"}
  BY DEF OrgAfter, OrgStatuses

LEMMA AnsweredOK ==
  ASSUME WorldOK, NEW k, Answered(k), UNCHANGED emitted
  PROVE  due' \subseteq 1..Len(emitted') /\ faults' \in 0..MaxFaults
<1>1. due \subseteq 1..Len(emitted) /\ faults \in 0..MaxFaults /\ MaxFaults \in Nat
  BY BillingAssumption DEF WorldOK
<1>2. due' \subseteq due
  BY DEF Answered
<1>3. faults' = faults \/ (faults < MaxFaults /\ faults' = faults + 1)
  BY DEF Answered
<1> QED BY <1>1, <1>2, <1>3

LEMMA FaultOK ==
  ASSUME WorldOK, faults < MaxFaults, faults' = faults + 1
  PROVE  faults' \in 0..MaxFaults
  BY BillingAssumption DEF WorldOK

LEMMA EarlyOK ==
  ASSUME WorldOK, StillEarly
  PROVE  early' \subseteq Procs
  BY DEF WorldOK, StillEarly

LEMMA FindEventOK ==
  ASSUME TypeInv, NEW p \in Procs, FindEvent(p), UNCHANGED lock
  PROVE  TypeInv'
<1> DEFINE k == proc[p].ev
<1>1. Len(emitted) \in Nat /\ ProcOK(proc, Len(emitted)) /\ WorldOK
  BY DEF TypeInv, WorldOK
<1>2. /\ At(p, "find") /\ StillEarly /\ UNCHANGED emitted
      /\ \/ Answered(k) /\ proc' = Ended(p)
         \/ UNCHANGED <<due, faults>> /\ proc' = [proc EXCEPT ![p].todo = <<"record">>]
  BY DEF FindEvent
<1>3. proc[p].op = "hook"
  BY <1>1, <1>2, HookOK
<1>4. ProcOK(proc', Len(emitted))
  <2>1. Program(proc[p].op, <<"record">>)
    BY <1>3, ShortPrograms
  <2> QED BY <1>1, <1>2, <2>1, EndedOK, ProgramOK
<1>5. due' \subseteq 1..Len(emitted') /\ faults' \in 0..MaxFaults
  <2>1. CASE Answered(k)
    BY <1>1, <1>2, <2>1, AnsweredOK
  <2>2. CASE UNCHANGED <<due, faults>>
    BY <1>1, <1>2, <2>2 DEF WorldOK
  <2> QED BY <1>2, <2>1, <2>2
<1>6. WorldOK'
  BY <1>1, <1>2, <1>5, EarlyOK DEF FindEvent, WorldOK, lock
<1> QED BY <1>2, <1>4, <1>6 DEF TypeInv

LEMMA RecordEventOK ==
  ASSUME TypeInv, NEW p \in Procs, RecordEvent(p), UNCHANGED lock
  PROVE  TypeInv'
<1> DEFINE k == proc[p].ev
<1> DEFINE effects == Effects(emitted[k].type)
<1>1. Len(emitted) \in Nat /\ ProcOK(proc, Len(emitted)) /\ WorldOK
  BY DEF TypeInv, WorldOK
<1>2. /\ At(p, "record") /\ StillEarly /\ UNCHANGED emitted
      /\ \/ proc' = ApiDead /\ muddled' = TRUE /\ UNCHANGED <<seen, due, faults>>
         \/ /\ seen' = seen \cup {k} /\ muddled' = (muddled \/ OutOfTurn(p, k))
            /\ \/ Answered(k) /\ proc' = Ended(p)
               \/ UNCHANGED <<due, faults>> /\ proc' = [proc EXCEPT ![p].todo = effects]
  BY DEF RecordEvent
<1>3. proc[p].op = "hook" /\ k \in 1..Len(emitted)
  BY <1>1, <1>2, HookOK
<1>4. Program("hook", effects)
  <2>1. emitted \in Seq([type : EventTypes, rzp : 1..MaxSubs])
    BY <1>1 DEF WorldOK
  <2>2. emitted[k] \in [type : EventTypes, rzp : 1..MaxSubs]
    BY <1>3, <2>1, ElementOfSeq
  <2>3. emitted[k].type \in EventTypes
    BY <2>2
  <2> QED BY <2>3, EffectsProgram
<1>5. ProcOK(proc', Len(emitted))
  BY <1>1, <1>2, <1>3, <1>4, EndedOK, DeadOK, ProgramOK
<1>6. due' \subseteq 1..Len(emitted') /\ faults' \in 0..MaxFaults
  <2>1. CASE Answered(k)
    BY <1>1, <1>2, <2>1, AnsweredOK
  <2>2. CASE UNCHANGED <<due, faults>>
    BY <1>1, <1>2, <2>2 DEF WorldOK
  <2> QED BY <1>2, <2>1, <2>2
<1>7. seen' \subseteq 1..Len(emitted')
  BY <1>1, <1>2, <1>3 DEF WorldOK
<1>8. muddled' \in BOOLEAN
  <2>1. OutOfTurn(p, k) \in BOOLEAN
    BY DEF OutOfTurn
  <2>2. muddled \in BOOLEAN
    BY <1>1 DEF WorldOK
  <2> QED BY <1>2, <2>1, <2>2
<1>9. WorldOK'
  BY <1>1, <1>2, <1>6, <1>7, <1>8, EarlyOK DEF RecordEvent, WorldOK, lock
<1> QED BY <1>2, <1>5, <1>9 DEF TypeInv

LEMMA WriteOK ==
  ASSUME TypeInv, NEW p \in Procs, NEW w \in SubWrites \cup OrgWrites, Write(p, w), UNCHANGED lock
  PROVE  TypeInv'
<1> DEFINE k == proc[p].ev
<1>1. Len(emitted) \in Nat /\ ProcOK(proc, Len(emitted)) /\ WorldOK /\ proc[p].todo # <<>>
  <2>1. proc[p].todo # <<>>
    BY DEF Write, At
  <2> QED BY <2>1 DEF TypeInv, WorldOK
<1>2. /\ UNCHANGED <<menu, opened, emitted, seen, children, calls, lock>>
      /\ \/ /\ proc' = Thrown(p) /\ muddled' = TRUE /\ UNCHANGED <<sub, org, due, faults, done>>
         \/ /\ ~Throws(w) /\ sub' = SubAfter(w) /\ org' = OrgAfter(w, proc[p].saw)
            /\ proc' = Advance(p)
            /\ Answered(k) \/ UNCHANGED <<due, faults>>
            /\ done' = [done EXCEPT ![k] = @ + 1] \/ done' = done
            /\ muddled' = (muddled \/ (~(proc[p].op = "hook") /\ <<sub', org'>> # <<sub, org>>))
      /\ early' = {q \in Busy \ {p} : proc'[q].todo # <<>>} \/ StillEarly
  BY DEF Write
<1>3. ProcOK(proc', Len(emitted))
  BY <1>1, <1>2, AdvanceOK, DeadOK
<1>4. sub' \in Subs \cup {NoSub} /\ org' \in OrgStatuses \cup {"gone"}
  <2>1. sub \in Subs \cup {NoSub} /\ org \in OrgStatuses \cup {"gone"}
    BY <1>1 DEF WorldOK
  <2> QED BY <1>2, <2>1, SubAfterOK, OrgAfterOK
<1>5. due' \subseteq 1..Len(emitted') /\ faults' \in 0..MaxFaults
  <2>1. CASE Answered(k)
    BY <1>1, <1>2, <2>1, AnsweredOK
  <2>2. CASE UNCHANGED <<due, faults>>
    BY <1>1, <1>2, <2>2 DEF WorldOK
  <2> QED BY <1>2, <2>1, <2>2
<1>6. muddled' \in BOOLEAN
  <2>1. muddled \in BOOLEAN
    BY <1>1 DEF WorldOK
  <2> QED BY <1>2, <2>1
<1>7. done' \in [1..MaxEvents -> Nat]
  BY <1>1, <1>2 DEF WorldOK
<1>8. early' \subseteq Procs
  BY <1>1, <1>2, EarlyOK DEF Busy
<1>9. WorldOK'
  BY <1>1, <1>2, <1>4, <1>5, <1>6, <1>7, <1>8 DEF WorldOK, lock
<1> QED BY <1>2, <1>3, <1>9 DEF TypeInv

(* The plan check.                                                         *)
LEMMA SawOK ==
  ASSUME NEW n \in Nat, ProcOK(proc, n), NEW p \in Procs, proc[p].todo # <<>>,
         NEW saw \in {"nothing", "open", "expired", "locked"}
  PROVE  ProcOK([proc EXCEPT ![p].todo = Tail(@), ![p].saw = saw], n)
<1>1. Fits(p, [proc[p] EXCEPT !.todo = Tail(@)], n)
  BY TailOK
<1>2. proc[p] \in Handlers
  BY DEF ProcOK
<1>3. Fits(p, [proc[p] EXCEPT !.todo = Tail(@), !.saw = saw], n)
  BY <1>1, <1>2 DEF Fits, Handlers
<1>4. [proc EXCEPT ![p] = [proc[p] EXCEPT !.todo = Tail(@), !.saw = saw]]
        = [proc EXCEPT ![p].todo = Tail(@), ![p].saw = saw]
  BY DEF ProcOK
<1> QED BY <1>3, <1>4, ChangeOK

LEMMA CheckOK ==
  ASSUME TypeInv, NEW p \in Procs, ReadSub(p) \/ ReadOrg(p), UNCHANGED lock
  PROVE  TypeInv'
<1>1. Len(emitted) \in Nat /\ ProcOK(proc, Len(emitted)) /\ WorldOK /\ proc[p].todo # <<>>
  <2>1. proc[p].todo # <<>>
    BY DEF ReadSub, ReadOrg, At
  <2> QED BY <2>1 DEF TypeInv, WorldOK
<1>2. ProcOK(proc', Len(emitted))
  <2>1. CASE ReadSub(p)
    <3>1. ProcOK([proc EXCEPT ![p].todo = Tail(@), ![p].saw = IF Expired THEN "expired" ELSE "open"], Len(emitted))
      BY <1>1, SawOK
    <3> QED BY <1>1, <2>1, <3>1, EndedOK DEF ReadSub
  <2>2. CASE ReadOrg(p)
    <3>1. proc[p].op = "check" => ProcOK([proc EXCEPT ![p].todo = <<"sub locked", "org locked">>], Len(emitted))
      <4> SUFFICES ASSUME proc[p].op = "check"
                   PROVE  ProcOK([proc EXCEPT ![p].todo = <<"sub locked", "org locked">>], Len(emitted))
        OBVIOUS
      <4>1. Program(proc[p].op, <<"sub locked", "org locked">>)
        BY ShortPrograms
      <4> QED BY <1>1, <4>1, ProgramOK
    <3> QED BY <1>1, <2>2, <3>1, EndedOK, AdvanceOK DEF ReadOrg
  <2> QED BY <2>1, <2>2
<1>3. UNCHANGED <<billing, calls, faults, done, muddled, lock>> /\ StillEarly
  BY DEF ReadSub, ReadOrg
<1>4. WorldOK'
  BY <1>1, <1>3, EarlyOK DEF WorldOK, billing, lock
<1> QED BY <1>2, <1>3, <1>4 DEF TypeInv, billing

(* Opening and storing a subscription.                                     *)
LEMMA OpenOK ==
  ASSUME TypeInv, NEW p \in Procs, OpenSub(p) \/ OpenFails(p) \/ StoreSub(p), UNCHANGED lock
  PROVE  TypeInv'
<1>1. Len(emitted) \in Nat /\ ProcOK(proc, Len(emitted)) /\ WorldOK /\ proc[p].todo # <<>>
  BY DEF TypeInv, WorldOK, OpenSub, OpenFails, StoreSub, At
<1>2. Fits(p, proc[p], Len(emitted)) /\ Fits(p, [proc[p] EXCEPT !.todo = Tail(@)], Len(emitted))
      /\ May(proc[p].op, Head(proc[p].todo))
  BY <1>1, TailOK DEF ProcOK
<1>3. At(p, "open") \/ At(p, "store") => proc[p].op = "subscribe"
  BY <1>2 DEF At, May
<1>4. CASE OpenSub(p)
  <2>1. PICK r \in 1..MaxSubs :
          /\ opened' = [opened EXCEPT ![r] = "created"]
          /\ proc' = [proc EXCEPT ![p].todo = Tail(@), ![p].ev = r]
    BY <1>4 DEF OpenSub
  <2>2. proc[p].op = "subscribe"
    BY <1>3, <1>4 DEF OpenSub
  <2>3. p \notin Dash /\ p # Worker
    BY <1>2, <2>2 DEF Fits
  <2>4. Fits(p, [proc[p] EXCEPT !.todo = Tail(@), !.ev = r], Len(emitted))
    <3>1. r \in Nat /\ r <= MaxSubs
      BY <2>1, BillingAssumption
    <3> QED BY <1>2, <2>2, <2>3, <3>1 DEF Fits, Handlers
  <2>5. proc' = [proc EXCEPT ![p] = [proc[p] EXCEPT !.todo = Tail(@), !.ev = r]]
    BY <1>1, <2>1 DEF ProcOK
  <2>6. ProcOK(proc', Len(emitted))
    BY <1>1, <2>4, <2>5, ChangeOK
  <2>7. WorldOK' /\ emitted' = emitted
    BY <1>1, <1>4, <2>1 DEF WorldOK, OpenSub, ghosts, lock
  <2> QED BY <2>6, <2>7 DEF TypeInv
<1>5. CASE OpenFails(p)
  <2>1. ProcOK(proc', Len(emitted))
    BY <1>1, <1>5, EndedOK DEF OpenFails
  <2>2. UNCHANGED <<billing, calls, done, muddled, lock>> /\ StillEarly /\ faults < MaxFaults /\ faults' = faults + 1
    BY <1>5 DEF OpenFails
  <2>3. early' \subseteq Procs /\ faults' \in 0..MaxFaults
    BY <1>1, <2>2, EarlyOK, FaultOK
  <2>4. WorldOK'
    BY <1>1, <2>2, <2>3 DEF WorldOK, billing, lock
  <2> QED BY <2>1, <2>2, <2>4 DEF TypeInv, billing
<1>6. CASE StoreSub(p)
  <2> DEFINE r == proc[p].ev
  <2>1. ProcOK(proc', Len(emitted))
    BY <1>1, <1>6, EndedOK DEF StoreSub
  <2>2. r \in 0..MaxSubs
    BY <1>2, <1>3, <1>6, BillingAssumption DEF StoreSub, Fits, Handlers
  <2>3. sub' \in Subs \cup {NoSub} /\ opened' \in [1..MaxSubs -> {"none", "created", "offered", "live", "over"}]
    <3>1. sub # NoSub => [sub EXCEPT !.rzp = r] \in Subs
      BY <1>1, <2>2 DEF WorldOK, Subs
    <3> QED BY <1>1, <1>6, <3>1 DEF StoreSub, WorldOK
  <2>4. muddled' \in BOOLEAN
    <3>1. muddled \in BOOLEAN /\ muddled' = (muddled \/ seen # {})
      BY <1>1, <1>6 DEF WorldOK, StoreSub
    <3> QED BY <3>1
  <2>5. UNCHANGED <<menu, org, emitted, due, seen, children, calls, faults, done, lock>> /\ StillEarly
    BY <1>6 DEF StoreSub
  <2>6. WorldOK'
    BY <1>1, <2>3, <2>4, <2>5, EarlyOK DEF WorldOK, lock
  <2> QED BY <2>1, <2>5, <2>6 DEF TypeInv
<1> QED BY <1>4, <1>5, <1>6

(* The gateway, the nightly job and the clock, a crash of the API process. *)
LEMMA LifeOK ==
  ASSUME NEW e \in Life
  PROVE  e.types \in Seq(EventTypes) /\ Len(e.types) \in 1..2 /\ e.to \in {"live", "over"}
<1>1. \A s, t \in EventTypes : <<s, t>> \in Seq(EventTypes) /\ Len(<<s, t>>) = 2 /\ <<s>> \in Seq(EventTypes) /\ Len(<<s>>) = 1
  OBVIOUS
<1>2. \/ e.types = <<"activated", "charged">>
      \/ \E s \in {"charged", "failed", "cancelled", "completed"} : e.types = <<s>>
  BY DEF Life
<1>3. {"activated", "charged", "failed", "cancelled", "completed"} \subseteq EventTypes
  BY DEF EventTypes
<1>4. e.types \in Seq(EventTypes) /\ (Len(e.types) = 1 \/ Len(e.types) = 2)
  BY <1>1, <1>2, <1>3
<1>5. e.to \in {"live", "over"}
  BY DEF Life
<1> QED BY <1>4, <1>5

LEMMA GatewayOK ==
  ASSUME TypeInv, Gateway, UNCHANGED lock
  PROVE  TypeInv'
<1>1. Len(emitted) \in Nat /\ ProcOK(proc, Len(emitted)) /\ WorldOK
  BY DEF TypeInv, WorldOK
<1>2. PICK r \in 1..MaxSubs, e \in Life :
        /\ Len(emitted) + Len(e.types) <= MaxEvents
        /\ opened' = [opened EXCEPT ![r] = e.to]
        /\ emitted' = emitted \o [i \in 1..Len(e.types) |-> [type |-> e.types[i], rzp |-> r]]
        /\ due' = due \cup (Len(emitted) + 1 .. Len(emitted) + Len(e.types))
        /\ UNCHANGED <<menu, sub, org, seen, children, proc, calls, faults, ghosts>>
  BY DEF Gateway
<1>3. e.types \in Seq(EventTypes) /\ e.to \in {"live", "over"}
  BY <1>2, LifeOK
<1> DEFINE new == [i \in 1..Len(e.types) |-> [type |-> e.types[i], rzp |-> r]]
<1>4. new \in Seq([type : EventTypes, rzp : 1..MaxSubs]) /\ Len(new) = Len(e.types)
  BY <1>3
<1> HIDE DEF new
<1>5. emitted' \in Seq([type : EventTypes, rzp : 1..MaxSubs]) /\ Len(emitted') = Len(emitted) + Len(e.types)
  BY <1>1, <1>2, <1>4 DEF WorldOK, new
<1>6. Len(e.types) \in Nat
  BY <1>3
<1>7. Len(emitted') <= MaxEvents /\ Len(emitted) <= Len(emitted') /\ Len(emitted') \in Nat
  BY <1>1, <1>2, <1>5, <1>6
<1>8. due' \subseteq 1..Len(emitted') /\ seen' \subseteq 1..Len(emitted')
  <2>1. due \subseteq 1..Len(emitted) /\ seen \subseteq 1..Len(emitted) /\ seen' = seen
    BY <1>1, <1>2 DEF WorldOK
  <2>2. due' = due \cup (Len(emitted) + 1 .. Len(emitted) + Len(e.types)) /\ Len(emitted') = Len(emitted) + Len(e.types)
    BY <1>2, <1>5
  <2>3. 1..Len(emitted) \subseteq 1..Len(emitted') /\ Len(emitted) + 1 .. Len(emitted) + Len(e.types) \subseteq 1..Len(emitted')
    BY <1>1, <1>6, <2>2
  <2> QED BY <2>1, <2>2, <2>3
<1>9. opened' \in [1..MaxSubs -> {"none", "created", "offered", "live", "over"}]
  BY <1>1, <1>2, <1>3 DEF WorldOK
<1>10. WorldOK'
  BY <1>1, <1>2, <1>5, <1>7, <1>8, <1>9 DEF WorldOK, ghosts, lock
<1> QED BY <1>1, <1>2, <1>7, <1>10, KeptOK DEF TypeInv

LEMMA BillingWorldOK ==
  ASSUME TypeInv, Nightfall \/ FindLocked \/ TimePasses \/ ApiCrash, UNCHANGED lock
  PROVE  TypeInv'
<1>1. Len(emitted) \in Nat /\ ProcOK(proc, Len(emitted)) /\ WorldOK /\ Night \in Procs
  BY DEF TypeInv, WorldOK, Procs
<1>2. CASE Nightfall
  <2> DEFINE t == <<"lock trials", "lock graces", "find locked", "sync orgs">>
  <2> DEFINE r == [proc[Night] EXCEPT !.op = "night", !.todo = t]
  <2>1. Program("night", t)
    BY NightProgram
  <2>2. proc' = [proc EXCEPT ![Night].op = "night", ![Night].todo = t]
    BY <1>2 DEF Nightfall
  <2>3. UNCHANGED <<billing, calls, faults, ghosts>>
    BY <1>2 DEF Nightfall
  <2>4. Night \notin Dash /\ Night # Worker
    BY BillingAssumption DEF Night, Worker
  <2>5. proc' = [proc EXCEPT ![Night] = r]
    <3> HIDE DEF t
    <3> QED BY <1>1, <2>2 DEF ProcOK
  <2>6. Fits(Night, r, Len(emitted))
    <3> HIDE DEF t
    <3>1. proc[Night] \in Handlers /\ t \in Seq(Steps) /\ "night" \in Ops
      BY <1>1, <2>1 DEF ProcOK, Program, Ops
    <3>2. r \in Handlers /\ r.op = "night" /\ r.todo = t
      BY <3>1 DEF Handlers
    <3> HIDE DEF r
    <3> QED BY <2>1, <2>4, <3>2 DEF Fits
  <2>7. ProcOK(proc', Len(emitted))
    <3> HIDE DEF r
    <3> QED BY <1>1, <2>5, <2>6, ChangeOK
  <2> QED BY <1>1, <2>3, <2>7 DEF TypeInv, WorldOK, billing, ghosts, lock
<1>3. CASE FindLocked
  <2>1. proc[Night].todo # <<>>
    BY <1>3 DEF FindLocked, At
  <2>2. ProcOK([proc EXCEPT ![Night].todo = Tail(@), ![Night].saw = IF sub.status = "locked" THEN "locked" ELSE "open"],
               Len(emitted))
    BY <1>1, <2>1, SawOK
  <2>3. ProcOK(proc', Len(emitted)) /\ UNCHANGED <<billing, calls, faults, ghosts>>
    BY <1>3, <2>2 DEF FindLocked
  <2> QED BY <1>1, <2>3 DEF TypeInv, WorldOK, billing, ghosts, lock
<1>4. CASE TimePasses
  <2>1. sub.trial = "ahead" \/ sub.grace = "ahead" => sub # NoSub
    BY DEF NoSub
  <2>2. sub' \in Subs \cup {NoSub}
    <3>1. sub # NoSub => [sub EXCEPT !.trial = "passed"] \in Subs /\ [sub EXCEPT !.grace = "passed"] \in Subs
      BY <1>1 DEF WorldOK, Subs
    <3> QED BY <1>4, <2>1, <3>1 DEF TimePasses
  <2>3. UNCHANGED <<menu, org, opened, emitted, due, seen, children, proc, calls, faults, ghosts>>
    BY <1>4 DEF TimePasses
  <2> QED BY <1>1, <2>2, <2>3 DEF TypeInv, WorldOK, ghosts, lock
<1>5. CASE ApiCrash
  <2>1. ProcOK(proc', Len(emitted))
    BY <1>1, <1>5, DeadOK DEF ApiCrash
  <2>2. UNCHANGED <<billing, calls, done, lock>> /\ StillEarly /\ faults < MaxFaults /\ faults' = faults + 1 /\ muddled' = TRUE
    BY <1>5 DEF ApiCrash
  <2>3. WorldOK'
    <3>1. muddled' \in BOOLEAN /\ early' \subseteq Procs /\ faults' \in 0..MaxFaults
      BY <1>1, <2>2, EarlyOK, FaultOK
    <3> QED BY <1>1, <2>2, <3>1 DEF WorldOK, billing, lock
  <2> QED BY <2>1, <2>2, <2>3 DEF TypeInv, billing
<1> QED BY <1>2, <1>3, <1>4, <1>5

(* The lock, and the runs that take it.                                    *)
LEMMA LiftedOK ==
  ASSUME NEW kept
  PROVE  Lifted(kept) \in Nat
<1>1. {p \in Started : RowsOf(p) \cap (rows \ kept) # {}} \subseteq Dash
  BY DEF Started
<1> QED BY <1>1, LockAssumption, FS_Subset, FS_CardinalityType DEF Lifted

LEMMA LockStepOK ==
  ASSUME TypeInv, NEW p \in Procs,
         \/ SweepStaleLocks(p) \/ UnlockEngine(p) \/ Look(p) \/ Enqueue(p)
         \/ CreateRow(p, "row", "worker") \/ CreateRow(p, "cron", "engine")
         \/ FinishRow(p, "finish", "engine") \/ FinishRow(p, "close", "worker")
  PROVE  TypeInv'
<1>1. Len(emitted) \in Nat /\ ProcOK(proc, Len(emitted)) /\ WorldOK
  BY DEF TypeInv, WorldOK
<1>2. proc[p].todo # <<>> /\ StillEarly /\ proc' \in {Advance(p), Ended(p)}
      /\ UNCHANGED <<menu, sub, org, opened, emitted, due, seen, calls, faults, done, muddled>>
  BY DEF SweepStaleLocks, UnlockEngine, Look, Enqueue, CreateRow, FinishRow, At, billing
<1>3. ProcOK(proc', Len(emitted))
  BY <1>1, <1>2, AdvanceOK, EndedOK
<1>4. children' \in BOOLEAN
  <2>1. children' = TRUE \/ children' = children
    BY DEF SweepStaleLocks, UnlockEngine, Look, Enqueue, CreateRow, FinishRow, billing
  <2> QED BY <1>1, <2>1 DEF WorldOK
<1>5. jobs' \in Seq(0..Attempts - 1)
  <2>1. jobs' = Append(jobs, 0) \/ jobs' = jobs
    BY DEF SweepStaleLocks, UnlockEngine, Look, Enqueue, CreateRow, FinishRow
  <2>2. jobs \in Seq(0..Attempts - 1) /\ 0 \in 0..Attempts - 1
    BY <1>1 DEF WorldOK, Attempts
  <2>3. CASE jobs' = Append(jobs, 0)
    BY <2>2, <2>3, AppendProperties
  <2>4. CASE jobs' = jobs
    BY <2>2, <2>4
  <2> QED BY <2>1, <2>3, <2>4
<1>6. rows' \subseteq Row
  <2>1. rows' \subseteq rows \/ rows' = rows \cup {NewRow(p, "worker")} \/ rows' = rows \cup {NewRow(p, "engine")}
    BY DEF SweepStaleLocks, UnlockEngine, Look, Enqueue, CreateRow, FinishRow
  <2>2. NewRow(p, "worker") \in Row /\ NewRow(p, "engine") \in Row
    BY DEF NewRow, Row
  <2> QED BY <1>1, <2>1, <2>2 DEF WorldOK
<1>7. slipped' \in Nat
  <2>1. slipped \in Nat
    BY <1>1 DEF WorldOK
  <2>2. Cardinality({q \in Dash : At(q, "cron")}) \in Nat
    BY LockAssumption, FS_Subset, FS_CardinalityType
  <2>3. \/ slipped' = slipped \/ slipped' = slipped + Cardinality({q \in Dash : At(q, "cron")})
        \/ \E kept : slipped' = slipped + Lifted(kept)
    BY DEF SweepStaleLocks, UnlockEngine, Look, Enqueue, CreateRow, FinishRow
  <2> QED BY <2>1, <2>2, <2>3, LiftedOK
<1>8. WorldOK'
  BY <1>1, <1>2, <1>4, <1>5, <1>6, <1>7, EarlyOK DEF WorldOK
<1> QED BY <1>2, <1>3, <1>8 DEF TypeInv

(* The scheduler, the worker and the crashes.                              *)
LEMMA OrphanedOK ==
  ASSUME rows \subseteq Row, NEW P
  PROVE  Orphaned(P) \subseteq Row
  BY DEF Orphaned, Row

LEMMA LockWorldOK ==
  ASSUME TypeInv, LockWorld
  PROVE  TypeInv'
<1>1. Len(emitted) \in Nat /\ ProcOK(proc, Len(emitted)) /\ WorldOK
  BY DEF TypeInv, WorldOK
<1>2. jobs \in Seq(0..Attempts - 1) /\ rows \subseteq Row /\ Worker \in Procs /\ 0 \in 0..Attempts - 1
  BY <1>1 DEF WorldOK, Procs, Attempts
<1>3. Fits(Worker, proc[Worker], Len(emitted)) /\ proc[Worker].ev \in Nat /\ proc[Worker].ev < Attempts
  BY <1>1, <1>2 DEF ProcOK, Fits, Handlers
<1>4. CASE Schedule
  <2>1. UNCHANGED <<billing, proc, calls, faults, ghosts, rows, slipped>> /\ jobs' = Append(jobs, 0)
    BY <1>4 DEF Schedule
  <2> QED BY <1>1, <1>2, <2>1 DEF TypeInv, WorldOK, billing, ghosts
<1>5. CASE TakeJob
  <2> DEFINE t == <<"read sub", "read org", "row", "cron", "finish", "close">>
  <2>1. jobs # <<>> /\ jobs' = Tail(jobs) /\ UNCHANGED <<billing, faults, ghosts, rows, slipped>>
        /\ Begin(Worker, "job", "job", Head(jobs), t)
    BY <1>5 DEF TakeJob
  <2>2. Program("job", t)
    BY JobProgram
  <2> HIDE DEF t
  <2>3. Head(jobs) \in Nat /\ Head(jobs) < Attempts /\ jobs' \in Seq(0..Attempts - 1)
    BY <1>2, <2>1, HeadTailProperties DEF Attempts
  <2>4. Worker \notin Dash /\ "job" \in Ops
    BY BillingAssumption DEF Ops
  <2>5. ProcOK(proc', Len(emitted))
    BY <1>1, <1>2, <2>1, <2>2, <2>3, <2>4, BegunOK
  <2>6. calls' \in 0..MaxCalls
    BY <1>1, <2>1, BillingAssumption DEF Begin, WorldOK
  <2> QED BY <1>1, <2>1, <2>3, <2>5, <2>6 DEF TypeInv, WorldOK, billing, ghosts
<1>6. CASE WorkerThrows
  <2>1. UNCHANGED <<billing, calls, done, muddled, slipped>> 
        /\ proc' = Ended(Worker) /\ rows' \subseteq Orphaned({Worker})
    BY <1>6 DEF WorkerThrows
  <2>2. jobs' \in Seq(0..Attempts - 1)
    BY <1>2, <1>3, <1>6 DEF WorkerThrows, Attempts
  <2>3. rows' \subseteq Row
    BY <1>2, <2>1, OrphanedOK
  <2>4. ProcOK(proc', Len(emitted))
    BY <1>1, <1>2, <2>1, EndedOK
  <2>5. early' \subseteq Procs /\ faults' \in 0..MaxFaults
    BY <1>1, <1>6, EarlyOK, FaultOK DEF WorkerThrows
  <2> QED BY <1>1, <2>1, <2>2, <2>3, <2>4, <2>5 DEF TypeInv, WorldOK, billing
<1>7. CASE WorkersCrash
  <2>1. UNCHANGED <<billing, calls, done, muddled, slipped>> 
        /\ rows' = Orphaned({Worker}) /\ proc' = [proc EXCEPT ![Worker] = Idle, ![Night] = Idle]
    BY <1>7 DEF WorkersCrash
  <2>2. jobs' \in Seq(0..Attempts - 1)
    <3> DEFINE D == 0..Attempts - 1
    <3>1. proc[Worker].ev \in D /\ jobs \in Seq(D)
      BY <1>2, <1>3 DEF Attempts
    <3>2. jobs' = jobs \/ jobs' = Append(jobs, proc[Worker].ev)
      BY <1>7 DEF WorkersCrash
    <3> HIDE DEF D
    <3>3. jobs' \in Seq(D)
      BY <3>1, <3>2, AppendProperties
    <3> QED BY <3>3 DEF D
  <2>3. rows' \subseteq Row
    BY <1>2, <2>1, OrphanedOK
  <2>4. ProcOK(proc', Len(emitted))
    BY <1>1, <2>1, IdleFits DEF ProcOK, Fits
  <2>5. early' \subseteq Procs /\ faults' \in 0..MaxFaults
    BY <1>1, <1>7, EarlyOK, FaultOK DEF WorkersCrash
  <2> QED BY <1>1, <2>1, <2>2, <2>3, <2>4, <2>5 DEF TypeInv, WorldOK, billing
<1>8. CASE DashCrash
  <2>1. UNCHANGED <<billing, calls, done, muddled, slipped, jobs>> 
        /\ rows' = Orphaned(Dash) /\ proc' = [q \in Procs |-> IF q \in Dash THEN Idle ELSE proc[q]]
    BY <1>8 DEF DashCrash
  <2>2. rows' \subseteq Row
    BY <1>2, <2>1, OrphanedOK
  <2>3. ProcOK(proc', Len(emitted))
    BY <1>1, <2>1, IdleFits DEF ProcOK, Fits
  <2>4. early' \subseteq Procs /\ faults' \in 0..MaxFaults
    BY <1>1, <1>8, EarlyOK, FaultOK DEF DashCrash
  <2> QED BY <1>1, <2>1, <2>2, <2>3, <2>4 DEF TypeInv, WorldOK, billing
<1>9. CASE Age
  <2>1. UNCHANGED <<billing, proc, calls, faults, ghosts, jobs, slipped>>
    BY <1>9 DEF Age
  <2>2. PICK r \in rows : rows' = (rows \ {r}) \cup {[r EXCEPT !.old = TRUE]}
    BY <1>9 DEF Age
  <2>3. r \in Row
    BY <1>2
  <2>4. [r EXCEPT !.old = TRUE] \in Row
    BY <2>3 DEF Row
  <2>5. rows' \subseteq Row
    BY <1>2, <2>2, <2>4
  <2> QED BY <1>1, <2>1, <2>5 DEF TypeInv, WorldOK, billing, ghosts
<1> QED BY <1>4, <1>5, <1>6, <1>7, <1>8, <1>9 DEF LockWorld

LEMMA InitOK == Init => TypeInv
<1> SUFFICES ASSUME Init PROVE TypeInv
  OBVIOUS
<1>1. PICK r \in IF "hook" \in menu THEN {0, 1} \cap 0..MaxSubs ELSE {0} :
        /\ sub = [NoSub EXCEPT !.status = "trial", !.trial = "ahead", !.rzp = r]
        /\ IF r = 0 THEN emitted = <<>> /\ opened = [q \in 1..MaxSubs |-> "none"]
           ELSE \E h \in Histories :
                  /\ emitted = [i \in 1..Len(h) |-> [type |-> h[i], rzp |-> r]]
                  /\ opened = [q \in 1..MaxSubs |-> IF q = r THEN "over" ELSE "none"]
  BY DEF Init, BillingInit
<1>2. r \in 0..MaxSubs
  BY <1>1, BillingAssumption
<1>3. sub \in Subs
  BY <1>1, <1>2 DEF NoSub, Subs, SubStatuses
<1>4. opened \in [1..MaxSubs -> {"none", "created", "offered", "live", "over"}]
  BY <1>1
<1>5. emitted \in Seq([type : EventTypes, rzp : 1..MaxSubs]) /\ Len(emitted) <= MaxEvents
  <2>1. CASE r = 0
    BY <1>1, <2>1, EmptySeq, BillingAssumption
  <2>2. CASE r # 0
    <3>1. PICK h \in Histories : emitted = [i \in 1..Len(h) |-> [type |-> h[i], rzp |-> r]]
      BY <1>1, <2>2
    <3>2. Len(h) = 3 /\ h \in Seq(EventTypes) /\ r \in 1..MaxSubs
      <4>1. PICK e \in EventTypes : h = <<"activated", "charged", e>>
        BY <3>1 DEF Histories
      <4>2. \A a, b, c \in EventTypes : <<a, b, c>> \in Seq(EventTypes) /\ Len(<<a, b, c>>) = 3
        OBVIOUS
      <4>3. "activated" \in EventTypes /\ "charged" \in EventTypes
        BY DEF EventTypes
      <4>4. r \in 1..MaxSubs
        BY <1>2, <2>2, BillingAssumption
      <4> QED BY <4>1, <4>2, <4>3, <4>4
    <3> DEFINE new == [i \in 1..Len(h) |-> [type |-> h[i], rzp |-> r]]
    <3>3. new \in Seq([type : EventTypes, rzp : 1..MaxSubs]) /\ Len(new) = Len(h)
      BY <3>2
    <3> HIDE DEF new
    <3>4. emitted = new
      BY <3>1 DEF new
    <3>5. 3 <= MaxEvents
      BY BillingAssumption
    <3> QED BY <3>2, <3>3, <3>4, <3>5
  <2> QED BY <2>1, <2>2
<1>6. org \in OrgStatuses /\ children \in BOOLEAN /\ muddled \in BOOLEAN
  BY DEF Init, BillingInit, OrgStatuses
<1>7. due \subseteq 1..Len(emitted) /\ seen \subseteq 1..Len(emitted) /\ done \in [1..MaxEvents -> Nat]
  BY DEF Init, BillingInit
<1>8. calls \in 0..MaxCalls /\ faults \in 0..MaxFaults /\ early \subseteq Procs
  BY BillingAssumption DEF Init
<1>9. jobs \in Seq(0..Attempts - 1) /\ rows \subseteq Row /\ slipped \in Nat
  BY EmptySeq DEF Init, LockInit
<1>10. ProcOK(proc, Len(emitted))
  <2>1. Len(emitted) \in Nat /\ proc = [p \in Procs |-> Idle]
    BY <1>5 DEF Init
  <2> QED BY <2>1, IdleFits DEF ProcOK, Fits
<1> QED BY <1>3, <1>4, <1>5, <1>6, <1>7, <1>8, <1>9, <1>10 DEF TypeInv, WorldOK

LEMMA StepOK == TypeInv /\ [Next]_vars => TypeInv'
<1> SUFFICES ASSUME TypeInv, [Next]_vars PROVE TypeInv'
  OBVIOUS
<1>1. ASSUME NEW p \in Procs, BillingStep(p) PROVE TypeInv'
  BY <1>1, RequestsOK, FindEventOK, RecordEventOK, WriteOK, CheckOK, OpenOK DEF BillingStep
<1>2. ASSUME NEW p \in Procs, LockStep(p) PROVE TypeInv'
  BY <1>2, RequestsOK, LockStepOK DEF LockStep
<1>3. CASE BillingWorld
  BY <1>3, GatewayOK, BillingWorldOK DEF BillingWorld
<1>4. CASE LockWorld
  BY <1>4, LockWorldOK
<1>5. CASE UNCHANGED vars
  BY <1>5 DEF vars, billing, ghosts, lock, TypeInv, WorldOK, ProcOK
<1> QED BY <1>1, <1>2, <1>3, <1>4, <1>5 DEF Next

(* The state stays typed and every handler in a program of its own kind:   *)
(* the invariant every other theorem of this module rests on.              *)
THEOREM PlatformTypeInvariant == Spec => []TypeInv
  BY InitOK, StepOK, PTL DEF Spec

(* Every row, every handler and every counter stays in its domain: of the  *)
(* handlers, each goes through a program of its own kind.                  *)
THEOREM PlatformTyping == Spec => []PlatformTypeOK
<1>1. TypeInv => PlatformTypeOK
  BY DEF TypeInv, WorldOK, ProcOK, Handlers, PlatformTypeOK
<1> QED BY <1>1, PlatformTypeInvariant, PTL

-----------------------------------------------------------------------------
(* Suspended organisations *)

(* A check or a job past the plan check.                                   *)
LateSteps == {"sweep", "look", "enqueue", "unlock", "row", "cron", "finish", "close"}
Late(r) == r.op \in {"check", "job"} /\ r.todo # <<>> /\ Head(r.todo) \in LateSteps

LEMMA LateServed == /\ \A q \in Procs : q \in Admitted <=> Late(proc[q])
                    /\ \A q \in Procs : q \in Admitted' <=> Late(proc'[q])
  BY DEF Admitted, Late, LateSteps, At

(* The only way past the plan check is the reading of the organisation.    *)
LEMMA LateTail ==
  ASSUME NEW n \in Nat, ProcOK(proc, n), NEW p \in Procs, proc[p].todo # <<>>, Head(proc[p].todo) # "read org",
         Tail(proc[p].todo) # <<>>, Head(Tail(proc[p].todo)) \in LateSteps
  PROVE  Head(proc[p].todo) \in LateSteps
<1>1. Then(Head(proc[p].todo), Head(Tail(proc[p].todo)))
  BY TailOK
<1> QED BY <1>1 DEF Then, LateSteps

LEMMA ServedEnds ==
  ASSUME NEW n \in Nat, ProcOK(proc, n)
  PROVE  /\ proc' = proc => Admitted' \subseteq Admitted
         /\ proc' = ApiDead => Admitted' \subseteq Admitted
         /\ \A p \in Procs : proc' = Ended(p) \/ proc' = Thrown(p) => Admitted' \subseteq Admitted
         /\ \A p \in Procs : \A r : proc' = [proc EXCEPT ![p] = r] /\ ~Late(r) => Admitted' \subseteq Admitted
<1>1. Admitted' \subseteq Procs /\ Admitted \subseteq Procs /\ proc \in [Procs -> Handlers] /\ ~Late(Idle)
  BY DEF Admitted, Late, Idle, ProcOK
<1>2. proc' = proc => Admitted' \subseteq Admitted
  BY <1>1, LateServed
<1>3. proc' = ApiDead => Admitted' \subseteq Admitted
  BY <1>1, LateServed DEF ApiDead
<1>4. ASSUME NEW p \in Procs, NEW r, proc' = [proc EXCEPT ![p] = r], ~Late(r)
      PROVE  Admitted' \subseteq Admitted
  BY <1>1, <1>4, LateServed
<1>5. \A p \in Procs : proc' = Ended(p) => Admitted' \subseteq Admitted
  BY <1>1, <1>4 DEF Ended
<1> QED BY <1>2, <1>3, <1>4, <1>5 DEF Thrown

LEMMA ServedGoesOn ==
  ASSUME NEW n \in Nat, ProcOK(proc, n), NEW p \in Procs, proc[p].todo # <<>>, Head(proc[p].todo) # "read org"
  PROVE  /\ proc' = Advance(p) => Admitted' \subseteq Admitted
         /\ \A saw : proc' = [proc EXCEPT ![p].todo = Tail(@), ![p].saw = saw] => Admitted' \subseteq Admitted
<1>1. Admitted' \subseteq Procs /\ Admitted \subseteq Procs /\ proc \in [Procs -> Handlers] /\ proc[p] \in Handlers
  BY DEF Admitted, ProcOK
<1>2. Tail(proc[p].todo) \in Seq(Steps)
  BY <1>1, HeadTailProperties DEF Handlers
<1>3. ASSUME NEW saw, proc' = [proc EXCEPT ![p].todo = Tail(@), ![p].saw = saw] PROVE Admitted' \subseteq Admitted
  <2> SUFFICES ASSUME NEW q \in Procs, Late(proc'[q]) PROVE Late(proc[q])
    BY <1>1, LateServed
  <2>1. CASE q # p
    BY <1>1, <1>3, <2>1
  <2>2. CASE q = p
    <3>1. proc'[p].op = proc[p].op /\ proc'[p].todo = Tail(proc[p].todo)
      BY <1>1, <1>3 DEF Handlers
    <3>2. Tail(proc[p].todo) # <<>> /\ Head(Tail(proc[p].todo)) \in LateSteps /\ proc[p].op \in {"check", "job"}
      BY <2>2, <3>1 DEF Late
    <3> QED BY <2>2, <3>2, LateTail DEF Late
  <2> QED BY <2>1, <2>2
<1>4. [proc EXCEPT ![p].todo = Tail(@)] = [proc EXCEPT ![p].todo = Tail(@), ![p].saw = proc[p].saw]
  BY <1>1, <1>2 DEF Handlers
<1>5. proc' = Advance(p) => Admitted' \subseteq Admitted
  BY <1>3, <1>4, ServedEnds DEF Advance
<1> QED BY <1>3, <1>5

(* What goes on being served was under way already.                        *)
LEMMA ServedKept ==
  ASSUME SuspendedNotAdmitted, Admitted' \subseteq Admitted, StillEarly \/ early' = early,
         org' = "suspended" => org = "suspended"
  PROVE  SuspendedNotAdmitted'
<1>1. \A q \in Admitted' : q \in Procs /\ proc'[q].todo # <<>>
  BY DEF Admitted, At
<1> QED BY <1>1 DEF SuspendedNotAdmitted, StillEarly

LEMMA BegunServed ==
  ASSUME NEW n \in Nat, ProcOK(proc, n), NEW p \in Procs, NEW kind, NEW op, NEW ev, NEW t,
         Begin(p, kind, op, ev, t), op \notin {"check", "job"} \/ Head(t) = "read sub"
  PROVE  Admitted' \subseteq Admitted
<1> DEFINE r == [op |-> op, ev |-> ev, todo |-> t, saw |-> "nothing"]
<1>1. ~Late(r) /\ proc' = [proc EXCEPT ![p] = r]
  BY DEF Late, LateSteps, Begin
<1> HIDE DEF r
<1> QED BY <1>1, ServedEnds

LEMMA RequestsServed ==
  ASSUME TypeInv, NEW p \in Procs,
         \/ Deliver(p) \/ Admin(p) \/ Query(p) \/ Touch(p) \/ Subscribe(p)
         \/ Trigger(p) \/ Unlock(p) \/ LegacyTrigger(p)
  PROVE  Admitted' \subseteq Admitted /\ early' = early /\ org' = org
<1>1. Len(emitted) \in Nat /\ ProcOK(proc, Len(emitted))
  BY DEF TypeInv, WorldOK
<1>2. early' = early /\ org' = org
  BY DEF Deliver, Admin, Query, Touch, Subscribe, Trigger, Unlock, LegacyTrigger, Ask, billing, ghosts
<1>3. /\ "hook" \notin {"check", "job"} /\ "admin" \notin {"check", "job"} /\ "touch" \notin {"check", "job"}
      /\ "subscribe" \notin {"check", "job"} /\ "legacy" \notin {"check", "job"}
  OBVIOUS
<1>4. CASE Deliver(p)
  BY <1>1, <1>2, <1>3, <1>4, BegunServed DEF Deliver
<1>5. CASE Admin(p)
  BY <1>1, <1>2, <1>3, <1>5, BegunServed DEF Admin, Ask
<1>6. CASE Query(p)
  <2>1. Head(<<"read sub", "read org">>) = "read sub"
    OBVIOUS
  <2> QED BY <1>1, <1>2, <1>6, <2>1, BegunServed DEF Query, Ask
<1>7. CASE Touch(p)
  BY <1>1, <1>2, <1>3, <1>7, BegunServed DEF Touch, Ask
<1>8. CASE Subscribe(p)
  BY <1>1, <1>2, <1>3, <1>8, BegunServed DEF Subscribe, Ask
<1>9. CASE Trigger(p)
  <2>1. Head(<<"read sub", "read org", "sweep", "look", "enqueue">>) = "read sub"
    OBVIOUS
  <2> QED BY <1>1, <1>2, <1>9, <2>1, BegunServed DEF Trigger, Ask
<1>10. CASE Unlock(p)
  <2>1. Head(<<"read sub", "read org", "unlock">>) = "read sub"
    OBVIOUS
  <2> QED BY <1>1, <1>2, <1>3, <1>10, <2>1, BegunServed DEF Unlock, Ask
<1>11. CASE LegacyTrigger(p)
  BY <1>1, <1>2, <1>3, <1>11, BegunServed DEF LegacyTrigger, Ask
<1> QED BY <1>4, <1>5, <1>6, <1>7, <1>8, <1>9, <1>10, <1>11

LEMMA HooksServed ==
  ASSUME TypeInv, NEW p \in Procs, FindEvent(p) \/ RecordEvent(p)
  PROVE  Admitted' \subseteq Admitted /\ StillEarly /\ org' = org
<1>1. Len(emitted) \in Nat /\ ProcOK(proc, Len(emitted)) /\ proc \in [Procs -> Handlers]
  BY DEF TypeInv, WorldOK, ProcOK
<1>2. proc[p].op = "hook"
  <2>1. At(p, "find") \/ At(p, "record")
    BY DEF FindEvent, RecordEvent
  <2> QED BY <1>1, <2>1, HookOK
<1>3. ASSUME NEW t, proc' = [proc EXCEPT ![p].todo = t] PROVE Admitted' \subseteq Admitted
  <2> DEFINE r == [proc[p] EXCEPT !.todo = t]
  <2>1. ~Late(r) /\ proc' = [proc EXCEPT ![p] = r]
    BY <1>1, <1>2, <1>3 DEF Late, Handlers
  <2> HIDE DEF r
  <2> QED BY <1>1, <2>1, ServedEnds
<1>4. StillEarly /\ org' = org
      /\ \/ proc' = Ended(p) \/ proc' = ApiDead
         \/ proc' = [proc EXCEPT ![p].todo = <<"record">>]
         \/ proc' = [proc EXCEPT ![p].todo = Effects(emitted[proc[p].ev].type)]
  BY DEF FindEvent, RecordEvent
<1> QED BY <1>1, <1>3, <1>4, ServedEnds

LEMMA WriteServed ==
  ASSUME TypeInv, SuspendedNotAdmitted, NEW p \in Procs, NEW w \in SubWrites \cup OrgWrites, Write(p, w)
  PROVE  SuspendedNotAdmitted'
<1>1. Len(emitted) \in Nat /\ ProcOK(proc, Len(emitted)) /\ At(p, w) /\ proc[p].todo # <<>>
      /\ May(proc[p].op, w)
  <2>1. At(p, w) /\ proc[p].todo # <<>> /\ Head(proc[p].todo) = w
    BY DEF Write, At
  <2>2. Len(emitted) \in Nat /\ ProcOK(proc, Len(emitted))
    BY DEF TypeInv, WorldOK
  <2> QED BY <2>1, <2>2, TailOK
<1>2. w # "read org" /\ w \notin LateSteps
  BY DEF SubWrites, OrgWrites, Updates, LateSteps
<1>3. Admitted' \subseteq Admitted
  <2>1. proc' = Thrown(p) \/ proc' = Advance(p)
    BY DEF Write
  <2>2. Head(proc[p].todo) # "read org"
    BY <1>1, <1>2 DEF At
  <2> QED BY <1>1, <2>1, <2>2, ServedEnds, ServedGoesOn
<1>4. CASE w = "org suspended"
  <2>1. early' = {q \in Busy \ {p} : proc'[q].todo # <<>>}
    BY <1>4 DEF Write
  <2>2. p \notin Admitted
    BY <1>1, <1>2, LateServed DEF Late, At
  <2>3. \A q \in Admitted' : q \in Busy \ {p} /\ proc'[q].todo # <<>>
    BY <1>3, <2>2 DEF Admitted, At, Busy
  <2> QED BY <2>1, <2>3 DEF SuspendedNotAdmitted
<1>5. CASE w # "org suspended"
  <2>1. StillEarly
    BY <1>5 DEF Write
  <2>2. org' = "suspended" => org = "suspended"
    <3>1. org' = org \/ org' = OrgAfter(w, proc[p].saw)
      BY DEF Write
    <3>2. OrgAfter(w, proc[p].saw) = "suspended" => org = "suspended"
      BY <1>5 DEF OrgAfter
    <3> QED BY <3>1, <3>2
  <2> QED BY <1>3, <2>1, <2>2, ServedKept
<1> QED BY <1>4, <1>5

LEMMA CheckServed ==
  ASSUME TypeInv, SuspendedNotAdmitted, NEW p \in Procs, ReadSub(p) \/ ReadOrg(p)
  PROVE  SuspendedNotAdmitted'
<1>1. Len(emitted) \in Nat /\ ProcOK(proc, Len(emitted)) /\ org' = org /\ StillEarly
  <2>1. org' = org /\ StillEarly
    BY DEF ReadSub, ReadOrg, billing
  <2> QED BY <2>1 DEF TypeInv, WorldOK
<1>2. CASE ReadSub(p)
  <2>1. proc[p].todo # <<>> /\ Head(proc[p].todo) # "read org"
    BY <1>2 DEF ReadSub, At
  <2>2. proc' = Ended(p) \/ proc' = [proc EXCEPT ![p].todo = Tail(@), ![p].saw = IF Expired THEN "expired" ELSE "open"]
    BY <1>2 DEF ReadSub
  <2>3. Admitted' \subseteq Admitted
    BY <1>1, <2>1, <2>2, ServedEnds, ServedGoesOn
  <2> QED BY <1>1, <2>3, ServedKept
<1>3. CASE ReadOrg(p)
  <2>1. CASE org = "suspended"
    <3>1. proc' = Ended(p)
      BY <1>3, <2>1 DEF ReadOrg
    <3>2. Admitted' \subseteq Admitted
      BY <1>1, <3>1, ServedEnds
    <3> QED BY <1>1, <3>2, ServedKept
  <2>2. CASE org # "suspended"
    BY <1>1, <2>2 DEF SuspendedNotAdmitted
  <2> QED BY <2>1, <2>2
<1> QED BY <1>2, <1>3

LEMMA OpenServed ==
  ASSUME TypeInv, NEW p \in Procs, OpenSub(p) \/ OpenFails(p) \/ StoreSub(p)
  PROVE  Admitted' \subseteq Admitted /\ (StillEarly \/ early' = early) /\ org' = org
<1>1. Len(emitted) \in Nat /\ ProcOK(proc, Len(emitted)) /\ proc \in [Procs -> Handlers]
  BY DEF TypeInv, WorldOK, ProcOK
<1>2. CASE OpenSub(p)
  <2>1. PICK ev : proc' = [proc EXCEPT ![p].todo = Tail(@), ![p].ev = ev]
    BY <1>2 DEF OpenSub
  <2>2. proc[p].todo # <<>> /\ Head(proc[p].todo) = "open"
    BY <1>2 DEF OpenSub, At
  <2>3. proc[p].op = "subscribe"
    <3>1. May(proc[p].op, Head(proc[p].todo))
      BY <1>1, <2>2, TailOK
    <3> QED BY <2>2, <3>1 DEF May
  <2> DEFINE r == [proc[p] EXCEPT !.todo = Tail(@), !.ev = ev]
  <2>4. ~Late(r) /\ proc' = [proc EXCEPT ![p] = r]
    BY <1>1, <2>1, <2>3 DEF Late, Handlers
  <2> HIDE DEF r
  <2>5. Admitted' \subseteq Admitted
    BY <1>1, <2>4, ServedEnds
  <2> QED BY <1>2, <2>5 DEF OpenSub, ghosts
<1>3. CASE OpenFails(p) \/ StoreSub(p)
  <2>1. proc' = Ended(p) /\ StillEarly /\ org' = org
    BY <1>3 DEF OpenFails, StoreSub, billing
  <2> QED BY <1>1, <2>1, ServedEnds
<1> QED BY <1>2, <1>3

LEMMA BillingWorldServed ==
  ASSUME TypeInv, BillingWorld
  PROVE  Admitted' \subseteq Admitted /\ (StillEarly \/ early' = early) /\ org' = org
<1>1. Len(emitted) \in Nat /\ ProcOK(proc, Len(emitted)) /\ proc \in [Procs -> Handlers] /\ Night \in Procs
  BY DEF TypeInv, WorldOK, ProcOK, Procs
<1>2. CASE Gateway \/ TimePasses
  <2>1. proc' = proc /\ early' = early /\ org' = org
    BY <1>2 DEF Gateway, TimePasses, ghosts
  <2> QED BY <1>1, <2>1, ServedEnds
<1>3. CASE Nightfall
  <2> DEFINE t == <<"lock trials", "lock graces", "find locked", "sync orgs">>
  <2>1. proc' = [proc EXCEPT ![Night].op = "night", ![Night].todo = t] /\ early' = early /\ org' = org
    BY <1>3 DEF Nightfall, ghosts, billing
  <2> HIDE DEF t
  <2> DEFINE r == [proc[Night] EXCEPT !.op = "night", !.todo = t]
  <2>2. ~Late(r) /\ proc' = [proc EXCEPT ![Night] = r]
    BY <1>1, <2>1 DEF Late, Handlers
  <2> HIDE DEF r
  <2> QED BY <1>1, <2>1, <2>2, ServedEnds
<1>4. CASE FindLocked
  <2>1. proc[Night].todo # <<>> /\ Head(proc[Night].todo) # "read org" /\ early' = early /\ org' = org
        /\ proc' = [proc EXCEPT ![Night].todo = Tail(@),
                                ![Night].saw = IF sub.status = "locked" THEN "locked" ELSE "open"]
    BY <1>4 DEF FindLocked, At, ghosts, billing
  <2> QED BY <1>1, <2>1, ServedGoesOn
<1>5. CASE ApiCrash
  <2>1. proc' = ApiDead /\ StillEarly /\ org' = org
    BY <1>5 DEF ApiCrash, billing
  <2> QED BY <1>1, <2>1, ServedEnds
<1> QED BY <1>2, <1>3, <1>4, <1>5 DEF BillingWorld

LEMMA LockStepServed ==
  ASSUME TypeInv, NEW p \in Procs,
         \/ SweepStaleLocks(p) \/ UnlockEngine(p) \/ Look(p) \/ Enqueue(p)
         \/ CreateRow(p, "row", "worker") \/ CreateRow(p, "cron", "engine")
         \/ FinishRow(p, "finish", "engine") \/ FinishRow(p, "close", "worker")
  PROVE  Admitted' \subseteq Admitted /\ StillEarly /\ org' = org
<1>1. Len(emitted) \in Nat /\ ProcOK(proc, Len(emitted))
  BY DEF TypeInv, WorldOK
<1>2. proc[p].todo # <<>> /\ Head(proc[p].todo) # "read org"
  BY DEF SweepStaleLocks, UnlockEngine, Look, Enqueue, CreateRow, FinishRow, At
<1>3. StillEarly /\ org' = org /\ (proc' = Advance(p) \/ proc' = Ended(p))
  BY DEF SweepStaleLocks, UnlockEngine, Look, Enqueue, CreateRow, FinishRow, billing
<1> QED BY <1>1, <1>2, <1>3, ServedEnds, ServedGoesOn

LEMMA LockWorldServed ==
  ASSUME TypeInv, LockWorld
  PROVE  Admitted' \subseteq Admitted /\ (StillEarly \/ early' = early) /\ org' = org
<1>1. Len(emitted) \in Nat /\ ProcOK(proc, Len(emitted)) /\ proc \in [Procs -> Handlers] /\ Worker \in Procs
  BY DEF TypeInv, WorldOK, ProcOK, Procs
<1>2. CASE Schedule \/ Age
  <2>1. proc' = proc /\ early' = early /\ org' = org
    BY <1>2 DEF Schedule, Age, ghosts, billing
  <2> QED BY <1>1, <2>1, ServedEnds
<1>3. CASE TakeJob
  <2> DEFINE t == <<"read sub", "read org", "row", "cron", "finish", "close">>
  <2> DEFINE r == [op |-> "job", ev |-> Head(jobs), todo |-> t, saw |-> "nothing"]
  <2>1. proc' = [proc EXCEPT ![Worker] = r] /\ early' = early /\ org' = org
    BY <1>3 DEF TakeJob, Begin, ghosts, billing
  <2>2. Head(t) = "read sub"
    OBVIOUS
  <2> HIDE DEF t
  <2>3. ~Late(r)
    BY <2>2 DEF Late, LateSteps
  <2> HIDE DEF r
  <2> QED BY <1>1, <2>1, <2>3, ServedEnds
<1>4. CASE WorkerThrows
  <2>1. proc' = Ended(Worker) /\ StillEarly /\ org' = org
    BY <1>4 DEF WorkerThrows, billing
  <2> QED BY <1>1, <2>1, ServedEnds
<1>5. CASE WorkersCrash \/ DashCrash
  <2>1. StillEarly /\ org' = org /\ \A q \in Procs : proc'[q] = proc[q] \/ proc'[q] = Idle
    BY <1>1, <1>5 DEF WorkersCrash, DashCrash, billing
  <2>2. Admitted' \subseteq Procs /\ ~Late(Idle)
    BY DEF Admitted, Late, Idle
  <2>3. Admitted' \subseteq Admitted
    BY <2>1, <2>2, LateServed
  <2> QED BY <2>1, <2>3
<1> QED BY <1>2, <1>3, <1>4, <1>5 DEF LockWorld

(* No request and no job gets past the check of an organisation that has   *)
(* been suspended; those that were past it, or in front of it, when the    *)
(* row was written are the ones that may go on.                            *)
THEOREM SuspendedStaysOut == Spec => []SuspendedNotAdmitted
<1>1. Init => SuspendedNotAdmitted
  BY DEF Init, BillingInit, SuspendedNotAdmitted
<1>2. TypeInv /\ SuspendedNotAdmitted /\ [Next]_vars => SuspendedNotAdmitted'
  <2> SUFFICES ASSUME TypeInv, SuspendedNotAdmitted, [Next]_vars PROVE SuspendedNotAdmitted'
    OBVIOUS
  <2>1. ASSUME NEW p \in Procs, BillingStep(p) PROVE SuspendedNotAdmitted'
    BY <2>1, RequestsServed, HooksServed, WriteServed, CheckServed, OpenServed, ServedKept DEF BillingStep
  <2>2. ASSUME NEW p \in Procs, LockStep(p) PROVE SuspendedNotAdmitted'
    BY <2>2, RequestsServed, LockStepServed, ServedKept DEF LockStep
  <2>3. CASE BillingWorld
    BY <2>3, BillingWorldServed, ServedKept
  <2>4. CASE LockWorld
    BY <2>4, LockWorldServed, ServedKept
  <2>5. CASE UNCHANGED vars
    BY <2>5 DEF vars, billing, ghosts, SuspendedNotAdmitted, Admitted, At
  <2> QED BY <2>1, <2>2, <2>3, <2>4, <2>5 DEF Next
<1> QED BY <1>1, <1>2, PlatformTypeInvariant, PTL DEF Spec

-----------------------------------------------------------------------------
(* Runs of the dashboard *)

(* Started runs that have lost their row.                                  *)
Bare == {p \in Dash : At(p, "finish") /\ RowsOf(p) = {}}
BoundInv == Cardinality(Bare) <= slipped /\ Cardinality(Started) <= slipped + 1

(* No handler of the dashboard starts a run, or goes on to its end.        *)
Quiet == \A q \in Dash : (At(q, "cron")' => At(q, "cron")) /\ (At(q, "finish")' => At(q, "finish"))

LEMMA DashSize ==
  /\ \A T : T \subseteq Dash => IsFiniteSet(T) /\ Cardinality(T) \in Nat
  /\ \A T, U : T \subseteq U /\ U \subseteq Dash => Cardinality(T) <= Cardinality(U)
<1>1. \A T : T \subseteq Dash => IsFiniteSet(T) /\ Cardinality(T) \in Nat
  BY LockAssumption, FS_Subset, FS_CardinalityType
<1> QED BY <1>1, FS_Subset

LEMMA StartedInDash ==
  /\ Started \subseteq Dash /\ Bare \subseteq Dash /\ Bare \subseteq Started
  /\ Started' \subseteq Dash /\ Bare' \subseteq Dash
  BY DEF Started, Bare

LEMMA BoundShrinks ==
  ASSUME slipped \in Nat, BoundInv, Started' \subseteq Started, Bare' \subseteq Bare, slipped' = slipped
  PROVE  BoundInv'
<1>1. Cardinality(Started') <= Cardinality(Started) /\ Cardinality(Bare') <= Cardinality(Bare)
  BY StartedInDash, DashSize
<1>2. /\ Cardinality(Started') \in Nat /\ Cardinality(Started) \in Nat
      /\ Cardinality(Bare') \in Nat /\ Cardinality(Bare) \in Nat
  BY StartedInDash, DashSize
<1>3. Cardinality(Bare') <= slipped' /\ Cardinality(Started') <= slipped' + 1
  BY <1>1, <1>2 DEF BoundInv
<1> QED BY <1>3 DEF BoundInv

LEMMA QuietKept ==
  ASSUME slipped \in Nat, BoundInv, Quiet, slipped' = slipped,
         \A q \in Dash : RowsOf(q)' = {} => RowsOf(q) = {}
  PROVE  BoundInv'
<1>1. Started' \subseteq Started /\ Bare' \subseteq Bare
  BY DEF Quiet, Started, Bare
<1> QED BY <1>1, BoundShrinks

LEMMA AsideKept ==
  ASSUME slipped \in Nat, BoundInv, \A q \in Dash : proc'[q] = proc[q] \/ proc'[q] = Idle, UNCHANGED <<rows, slipped>>
  PROVE  BoundInv'
<1>1. Quiet
  BY DEF Quiet, At, Idle
<1>2. \A q \in Dash : RowsOf(q)' = RowsOf(q)
  BY DEF RowsOf
<1> QED BY <1>1, <1>2, QuietKept

(* The handlers of the dashboard take the steps of the lock only.          *)
LEMMA NotDash ==
  ASSUME NEW n \in Nat, ProcOK(proc, n), NEW p \in Procs, proc[p].todo # <<>>,
         Head(proc[p].todo) \notin {"sweep", "look", "cron", "finish", "unlock"}
  PROVE  p \notin Dash
<1>1. May(proc[p].op, Head(proc[p].todo)) /\ Fits(p, proc[p], n)
  BY TailOK DEF ProcOK
<1> QED BY <1>1 DEF May, Fits

LEMMA StepSpot ==
  ASSUME NEW n \in Nat, ProcOK(proc, n), NEW p \in Procs, proc[p].todo # <<>>, proc' = Advance(p) \/ proc' = Ended(p)
  PROVE  /\ \A q \in Procs \ {p} : proc'[q] = proc[q]
         /\ \A step : At(p, step)' => Then(Head(proc[p].todo), step)
<1>1. proc \in [Procs -> Handlers]
  BY DEF ProcOK
<1>2. \A q \in Procs \ {p} : proc'[q] = proc[q]
  BY <1>1 DEF Advance, Ended
<1>3. proc'[p].todo = <<>> \/ proc'[p].todo = Tail(proc[p].todo)
  <2>1. Ended(p)[p].todo = <<>>
    BY <1>1 DEF Ended, Idle
  <2>2. [proc EXCEPT ![p].todo = Tail(@)][p].todo = Tail(proc[p].todo)
    BY <1>1 DEF Handlers
  <2> QED BY <2>1, <2>2 DEF Advance
<1>4. Tail(proc[p].todo) # <<>> => Then(Head(proc[p].todo), Head(Tail(proc[p].todo)))
  BY TailOK
<1> QED BY <1>2, <1>3, <1>4 DEF At

LEMMA RequestsBound ==
  ASSUME TypeInv, BoundInv, NEW p \in Procs,
         \/ (Deliver(p) \/ Admin(p) \/ Query(p) \/ Touch(p) \/ Subscribe(p)) /\ UNCHANGED lock
         \/ Trigger(p) \/ Unlock(p) \/ LegacyTrigger(p)
  PROVE  BoundInv'
<1>1. slipped \in Nat /\ UNCHANGED <<rows, slipped>> /\ proc \in [Procs -> Handlers] /\ Dash \subseteq Procs
  BY DEF TypeInv, WorldOK, ProcOK, Procs, Trigger, Unlock, LegacyTrigger, lock
<1>2. p \in Api \/ p \in Dash
  BY DEF Deliver, Admin, Query, Touch, Subscribe, Trigger, Unlock, LegacyTrigger
<1>3. \A q \in Procs \ {p} : proc'[q] = proc[q]
  BY <1>1 DEF Deliver, Admin, Query, Touch, Subscribe, Trigger, Unlock, LegacyTrigger, Ask, Begin
<1>4. CASE p \in Api
  <2>1. \A q \in Dash : proc'[q] = proc[q]
    BY <1>1, <1>3, <1>4, BillingAssumption
  <2> QED BY <1>1, <2>1, AsideKept
<1>5. CASE p \in Dash
  <2>1. p \notin Api
    BY <1>5, BillingAssumption
  <2>2. Unlock(p) \/ LegacyTrigger(p)
    BY <2>1 DEF Deliver, Admin, Query, Touch, Subscribe, Trigger
  <2>3. Head(proc'[p].todo) = "unlock" \/ Head(proc'[p].todo) = "sweep"
    <3>1. CASE Unlock(p)
      <4> DEFINE t == <<"unlock">>
      <4>1. Begin(p, "unlock", "legacy", 0, t)
        BY <2>1, <3>1 DEF Unlock, Ask
      <4>2. Head(t) = "unlock"
        OBVIOUS
      <4> HIDE DEF t
      <4> QED BY <1>1, <4>1, <4>2 DEF Begin
    <3>2. CASE LegacyTrigger(p)
      <4> DEFINE t == <<"sweep", "look", "cron", "finish">>
      <4>1. proc'[p].todo = t
        BY <1>1, <3>2 DEF LegacyTrigger, Ask, Begin
      <4>2. Head(t) = "sweep"
        OBVIOUS
      <4> QED BY <4>1, <4>2
    <3> QED BY <2>2, <3>1, <3>2
  <2>4. Quiet
    BY <1>1, <1>3, <2>3 DEF Quiet, At
  <2>5. \A q \in Dash : RowsOf(q)' = RowsOf(q)
    BY <1>1 DEF RowsOf
  <2> QED BY <1>1, <2>4, <2>5, QuietKept
<1> QED BY <1>2, <1>4, <1>5

LEMMA BillingBound ==
  ASSUME TypeInv, BoundInv, NEW p \in Procs, UNCHANGED lock,
         \/ FindEvent(p) \/ RecordEvent(p) \/ \E w \in SubWrites \cup OrgWrites : Write(p, w)
         \/ ReadSub(p) \/ ReadOrg(p) \/ OpenSub(p) \/ OpenFails(p) \/ StoreSub(p)
  PROVE  BoundInv'
<1>1. /\ slipped \in Nat /\ UNCHANGED <<rows, slipped>> /\ proc \in [Procs -> Handlers] /\ Dash \subseteq Procs
      /\ Len(emitted) \in Nat /\ ProcOK(proc, Len(emitted))
  BY DEF TypeInv, WorldOK, ProcOK, Procs, lock
<1>2. p \notin Dash
  <2>1. /\ proc[p].todo # <<>>
        /\ Head(proc[p].todo) \in SubWrites \cup OrgWrites \cup {"find", "record", "read sub", "read org", "open", "store"}
    BY DEF FindEvent, RecordEvent, Write, ReadSub, ReadOrg, OpenSub, OpenFails, StoreSub, At
  <2>2. Head(proc[p].todo) \notin {"sweep", "look", "cron", "finish", "unlock"}
    BY <2>1 DEF SubWrites, OrgWrites, Updates
  <2> QED BY <1>1, <2>1, <2>2, NotDash
<1>3. \A q \in Procs \ {p} : proc'[q] = proc[q] \/ q \in Api
  BY <1>1 DEF FindEvent, RecordEvent, Write, ReadSub, ReadOrg, OpenSub, OpenFails, StoreSub, Ended, Advance, ApiDead, Thrown
<1>4. \A q \in Dash : proc'[q] = proc[q]
  BY <1>1, <1>2, <1>3, BillingAssumption
<1> QED BY <1>1, <1>4, AsideKept

LEMMA BillingWorldBound ==
  ASSUME TypeInv, BoundInv, BillingWorld
  PROVE  BoundInv'
<1>1. slipped \in Nat /\ UNCHANGED <<rows, slipped>> /\ proc \in [Procs -> Handlers] /\ Dash \subseteq Procs
  BY DEF TypeInv, WorldOK, ProcOK, Procs, BillingWorld, lock
<1>2. \A q \in Procs \ {Night} : proc'[q] = proc[q] \/ q \in Api
  BY <1>1 DEF BillingWorld, Gateway, Nightfall, FindLocked, TimePasses, ApiCrash, ApiDead
<1>3. \A q \in Dash : proc'[q] = proc[q]
  BY <1>1, <1>2, BillingAssumption
<1> QED BY <1>1, <1>3, AsideKept

(* A row that is taken from a live run counts.                             *)
LEMMA LiftBound ==
  ASSUME slipped \in Nat, BoundInv, Quiet, NEW kept, kept \subseteq rows, rows' = kept, slipped' = slipped + Lifted(kept)
  PROVE  BoundInv'
<1> DEFINE L == {q \in Started : RowsOf(q) \cap (rows \ kept) # {}}
<1>1. Started' \subseteq Started /\ Bare' \subseteq Bare \cup L
  BY DEF Quiet, Started, Bare, RowsOf
<1>2. L \subseteq Dash /\ Lifted(kept) = Cardinality(L)
  BY DEF Started, Lifted
<1> HIDE DEF L
<1>3. /\ IsFiniteSet(Bare) /\ IsFiniteSet(L) /\ Cardinality(Bare) \in Nat /\ Cardinality(L) \in Nat
      /\ Bare \cup L \subseteq Dash /\ Cardinality(Bare \cap L) \in Nat /\ Cardinality(Bare \cup L) \in Nat
  <2>1. Bare \subseteq Dash /\ Bare \cup L \subseteq Dash /\ Bare \cap L \subseteq Dash
    BY <1>2, StartedInDash
  <2> QED BY <1>2, <2>1, DashSize
<1>4. Cardinality(Bare \cup L) <= Cardinality(Bare) + Cardinality(L)
  <2>1. Cardinality(Bare \cup L) = Cardinality(Bare) + Cardinality(L) - Cardinality(Bare \cap L)
    BY <1>3, FS_Union
  <2> QED BY <1>3, <2>1
<1>5. Cardinality(Bare') <= Cardinality(Bare \cup L) /\ Cardinality(Started') <= Cardinality(Started)
  BY <1>1, <1>3, StartedInDash, DashSize
<1>6. Cardinality(Bare') \in Nat /\ Cardinality(Started') \in Nat /\ Cardinality(Started) \in Nat
  BY StartedInDash, DashSize
<1>7. Cardinality(Bare') <= slipped' /\ Cardinality(Started') <= slipped' + 1
  BY <1>2, <1>3, <1>4, <1>5, <1>6 DEF BoundInv
<1> QED BY <1>7 DEF BoundInv

LEMMA SweepBound ==
  ASSUME TypeInv, BoundInv, NEW p \in Procs, SweepStaleLocks(p) \/ UnlockEngine(p)
  PROVE  BoundInv'
<1>1. /\ slipped \in Nat /\ Dash \subseteq Procs
      /\ Len(emitted) \in Nat /\ ProcOK(proc, Len(emitted))
  BY DEF TypeInv, WorldOK, Procs
<1>2. /\ proc[p].todo # <<>> /\ Head(proc[p].todo) \in {"sweep", "unlock"}
      /\ proc' = Advance(p) \/ proc' = Ended(p)
  BY DEF SweepStaleLocks, UnlockEngine, At
<1>3. \E kept : kept \subseteq rows /\ rows' = kept /\ slipped' = slipped + Lifted(kept)
  BY DEF SweepStaleLocks, UnlockEngine
<1>4. Quiet
  <2>1. /\ \A q \in Procs \ {p} : proc'[q] = proc[q]
        /\ ~At(p, "cron")' /\ ~At(p, "finish")'
    BY <1>1, <1>2, StepSpot DEF Then
  <2> QED BY <1>1, <2>1 DEF Quiet, At
<1> QED BY <1>1, <1>3, <1>4, LiftBound

LEMMA LookBound ==
  ASSUME TypeInv, BoundInv, NEW p \in Procs, Look(p)
  PROVE  BoundInv'
<1>1. /\ slipped \in Nat /\ Dash \subseteq Procs
      /\ Len(emitted) \in Nat /\ ProcOK(proc, Len(emitted)) /\ proc \in [Procs -> Handlers]
  BY DEF TypeInv, WorldOK, Procs, ProcOK
<1>2. /\ proc[p].todo # <<>> /\ Head(proc[p].todo) = "look" /\ rows' = rows
      /\ proc' = Advance(p) \/ proc' = Ended(p)
  BY DEF Look, At
<1>3. /\ \A q \in Procs \ {p} : proc'[q] = proc[q]
      /\ ~At(p, "finish")'
  BY <1>1, <1>2, StepSpot DEF Then
<1>4. \A q \in Dash : RowsOf(q)' = RowsOf(q)
  BY <1>2 DEF RowsOf
<1>5. CASE rows # {} \/ p \notin Dash
  <2>1. slipped' = slipped
    BY <1>5 DEF Look
  <2>2. Quiet
    <3>1. rows # {} => proc'[p] = Idle
      BY <1>1 DEF Look, Ended
    <3> QED BY <1>1, <1>3, <1>5, <3>1 DEF Quiet, At, Idle
  <2> QED BY <1>1, <1>4, <2>1, <2>2, QuietKept
<1>6. CASE rows = {} /\ p \in Dash
  <2> DEFINE C == {q \in Dash : At(q, "cron")}
  <2>1. slipped' = slipped + Cardinality(C)
    BY <1>6 DEF Look
  <2>2. Started' \subseteq (C \cup Bare) \cup {p}
    BY <1>1, <1>3, <1>6 DEF Started, Bare, RowsOf, At
  <2>3. Bare' \subseteq Bare
    BY <1>1, <1>3, <1>4 DEF Bare, At
  <2>4. C \subseteq Dash
    OBVIOUS
  <2> HIDE DEF C
  <2>5. /\ C \cup Bare \subseteq Dash /\ (C \cup Bare) \cup {p} \subseteq Dash
        /\ Bare \subseteq Dash /\ C \cap Bare \subseteq Dash
    BY <1>6, <2>4, StartedInDash
  <2>6. Cardinality(C \cup Bare) <= Cardinality(C) + Cardinality(Bare)
    <3>1. IsFiniteSet(C) /\ IsFiniteSet(Bare)
      BY <2>4, <2>5, DashSize
    <3>2. Cardinality(C \cup Bare) = Cardinality(C) + Cardinality(Bare) - Cardinality(C \cap Bare)
      BY <3>1, FS_Union
    <3>3. Cardinality(C) \in Nat /\ Cardinality(Bare) \in Nat /\ Cardinality(C \cap Bare) \in Nat
      BY <2>4, <2>5, DashSize
    <3> QED BY <3>2, <3>3
  <2>7. Cardinality((C \cup Bare) \cup {p}) <= Cardinality(C \cup Bare) + 1
    <3>1. IsFiniteSet(C \cup Bare) /\ Cardinality(C \cup Bare) \in Nat
      BY <2>5, DashSize
    <3>2. Cardinality((C \cup Bare) \cup {p})
          = IF p \in C \cup Bare THEN Cardinality(C \cup Bare) ELSE Cardinality(C \cup Bare) + 1
      BY <3>1, FS_AddElement
    <3> QED BY <3>1, <3>2
  <2>8. Cardinality(Started') <= Cardinality((C \cup Bare) \cup {p}) /\ Cardinality(Bare') <= Cardinality(Bare)
    BY <2>2, <2>3, <2>5, DashSize
  <2>9. /\ Cardinality(C) \in Nat /\ Cardinality(Bare) \in Nat /\ Cardinality(Bare') \in Nat /\ Cardinality(Started') \in Nat
        /\ Cardinality(C \cup Bare) \in Nat /\ Cardinality((C \cup Bare) \cup {p}) \in Nat
    BY <2>4, <2>5, StartedInDash, DashSize
  <2>10. Cardinality(Bare) <= slipped
    BY DEF BoundInv
  <2>11. Cardinality(Bare') <= slipped' /\ Cardinality(Started') <= slipped' + 1
    BY <1>1, <2>1, <2>6, <2>7, <2>8, <2>9, <2>10
  <2> QED BY <2>11 DEF BoundInv
<1> QED BY <1>5, <1>6

LEMMA RowsBound ==
  ASSUME TypeInv, BoundInv, NEW p \in Procs,
         \/ Enqueue(p)
         \/ CreateRow(p, "row", "worker") \/ CreateRow(p, "cron", "engine")
         \/ FinishRow(p, "finish", "engine") \/ FinishRow(p, "close", "worker")
  PROVE  BoundInv'
<1>1. /\ slipped \in Nat /\ Dash \subseteq Procs
      /\ Len(emitted) \in Nat /\ ProcOK(proc, Len(emitted)) /\ proc \in [Procs -> Handlers]
  BY DEF TypeInv, WorldOK, Procs, ProcOK
<1>2. /\ proc[p].todo # <<>> /\ slipped' = slipped
      /\ Head(proc[p].todo) \in {"enqueue", "row", "cron", "finish", "close"} /\ proc' = Advance(p)
  BY DEF Enqueue, CreateRow, FinishRow, At
<1>3. /\ \A q \in Procs \ {p} : proc'[q] = proc[q]
      /\ \A step : At(p, step)' => Then(Head(proc[p].todo), step)
  BY <1>1, <1>2, StepSpot
<1>4. \A q \in Dash \ {p} : RowsOf(q)' = {} => RowsOf(q) = {}
  BY DEF Enqueue, CreateRow, FinishRow, RowsOf, NewRow
<1>5. Started' \subseteq Started /\ Bare' \subseteq Bare
  <2>1. CASE p \notin Dash
    BY <1>1, <1>3, <1>4, <2>1 DEF Started, Bare, At
  <2>2. CASE p \in Dash /\ CreateRow(p, "cron", "engine")
    <3>1. At(p, "cron") /\ RowsOf(p)' # {}
      <4>1. At(p, "cron") /\ NewRow(p, "engine") \in rows' /\ NewRow(p, "engine").by = p
        BY <2>2 DEF CreateRow, NewRow
      <4> QED BY <4>1 DEF RowsOf
    <3> QED BY <1>1, <1>3, <1>4, <2>2, <3>1 DEF Started, Bare, At
  <2>3. CASE p \in Dash /\ ~CreateRow(p, "cron", "engine")
    <3>1. Head(proc[p].todo) = "finish"
      <4>1. Head(proc[p].todo) \in {"enqueue", "row", "finish", "close"}
        BY <2>3 DEF Enqueue, CreateRow, FinishRow, At
      <4> QED BY <1>1, <1>2, <2>3, <4>1, NotDash
    <3>2. ~At(p, "cron")' /\ ~At(p, "finish")'
      BY <1>3, <3>1 DEF Then
    <3> QED BY <1>1, <1>3, <1>4, <2>3, <3>2 DEF Started, Bare, At
  <2> QED BY <2>1, <2>2, <2>3
<1> QED BY <1>1, <1>2, <1>5, BoundShrinks

LEMMA LockWorldBound ==
  ASSUME TypeInv, BoundInv, LockWorld
  PROVE  BoundInv'
<1>1. /\ slipped \in Nat /\ slipped' = slipped /\ Dash \subseteq Procs /\ proc \in [Procs -> Handlers]
      /\ Worker \notin Dash /\ Night \notin Dash
  <2>1. slipped' = slipped
    BY DEF LockWorld, Schedule, TakeJob, WorkerThrows, WorkersCrash, DashCrash, Age
  <2>2. slipped \in Nat /\ proc \in [Procs -> Handlers]
    BY DEF TypeInv, WorldOK, ProcOK
  <2> QED BY <2>1, <2>2, BillingAssumption DEF Procs
<1>2. CASE Schedule \/ TakeJob
  <2>1. UNCHANGED <<rows, slipped>> /\ \A q \in Dash : proc'[q] = proc[q]
    BY <1>1, <1>2 DEF Schedule, TakeJob, Begin
  <2> QED BY <1>1, <2>1, AsideKept
<1>3. CASE WorkerThrows \/ WorkersCrash
  <2>1. \A q \in Dash : proc'[q] = proc[q]
    BY <1>1, <1>3 DEF WorkerThrows, WorkersCrash, Ended
  <2>2. \A r \in rows : r.by \in Dash => r \in rows'
    BY <1>1, <1>3 DEF WorkerThrows, WorkersCrash, Orphaned
  <2>3. \A q \in Dash : RowsOf(q)' = {} => RowsOf(q) = {}
    BY <2>2 DEF RowsOf
  <2>4. Quiet
    BY <2>1 DEF Quiet, At
  <2> QED BY <1>1, <2>3, <2>4, QuietKept
<1>4. CASE DashCrash
  <2>1. \A q \in Dash : proc'[q] = Idle
    BY <1>1, <1>4 DEF DashCrash
  <2>2. Started' \subseteq Started /\ Bare' \subseteq Bare
    BY <2>1 DEF Started, Bare, At, Idle
  <2> QED BY <1>1, <2>2, BoundShrinks
<1>5. CASE Age
  <2>1. PICK r \in rows : rows' = (rows \ {r}) \cup {[r EXCEPT !.old = TRUE]}
    BY <1>5 DEF Age
  <2>2. r \in Row
    BY DEF TypeInv, WorldOK
  <2>3. [r EXCEPT !.old = TRUE].by = r.by
    BY <2>2 DEF Row
  <2>4. \A q \in Dash : RowsOf(q)' = {} => RowsOf(q) = {}
    BY <2>1, <2>3 DEF RowsOf
  <2>5. Quiet
    BY <1>5 DEF Age, Quiet, At
  <2> QED BY <1>1, <2>4, <2>5, QuietKept
<1> QED BY <1>2, <1>3, <1>4, <1>5 DEF LockWorld

(* The dashboard runs one engine at a time, and one more for every trigger *)
(* that met a run without a row yet, and for every live run that lost its  *)
(* row to age or force.                                                    *)
THEOREM RunsAreBounded == Spec => []RunsBound
<1>1. Init => BoundInv
  <2> SUFFICES ASSUME Init PROVE BoundInv
    OBVIOUS
  <2>1. Started = {} /\ Bare = {} /\ slipped = 0
    BY DEF Init, LockInit, Started, Bare, At, Idle, Procs
  <2> QED BY <2>1, FS_EmptySet DEF BoundInv
<1>2. TypeInv /\ BoundInv /\ [Next]_vars => BoundInv'
  <2> SUFFICES ASSUME TypeInv, BoundInv, [Next]_vars PROVE BoundInv'
    OBVIOUS
  <2>1. ASSUME NEW p \in Procs, BillingStep(p) PROVE BoundInv'
    BY <2>1, RequestsBound, BillingBound DEF BillingStep
  <2>2. ASSUME NEW p \in Procs, LockStep(p) PROVE BoundInv'
    BY <2>2, RequestsBound, SweepBound, LookBound, RowsBound DEF LockStep
  <2>3. CASE BillingWorld
    BY <2>3, BillingWorldBound
  <2>4. CASE LockWorld
    BY <2>4, LockWorldBound
  <2>5. CASE UNCHANGED vars
    BY <2>5 DEF vars, lock, BoundInv, Started, Bare, RowsOf, At
  <2> QED BY <2>1, <2>2, <2>3, <2>4, <2>5 DEF Next
<1>3. BoundInv /\ slipped \in Nat => RunsBound
  BY StartedInDash, DashSize DEF BoundInv, RunsBound
<1>4. TypeInv => slipped \in Nat
  BY DEF TypeInv, WorldOK
<1> QED BY <1>1, <1>2, <1>3, <1>4, PlatformTypeInvariant, PTL DEF Spec

-----------------------------------------------------------------------------
(* Events *)

(* A delivery in the middle of the writes of its event: they are recorded, *)
(* not yet all carried out, and no other delivery carries them out too.    *)
Applying(r) == r.op = "hook" /\ r.todo # <<>> /\ Head(r.todo) \notin {"find", "record"}
Wanted(events, k) == Len(Effects(events[k].type))
OnceInv ==
  /\ \A q \in Procs : Applying(proc[q]) =>
       /\ proc[q].ev \in seen
       /\ done[proc[q].ev] + Len(proc[q].todo) <= Wanted(emitted, proc[q].ev)
  /\ \A q, r \in Procs : q # r /\ Applying(proc[q]) /\ Applying(proc[r]) => proc[q].ev # proc[r].ev
  /\ \A k \in 1..MaxEvents : k \notin seen => done[k] = 0
  /\ AppliedOnce

(* The steps that are not a delivery's.                                    *)
Untouched == \A q \in Procs : proc'[q] = proc[q] \/ ~Applying(proc'[q])

LEMMA WantedOK ==
  ASSUME TypeInv, NEW k \in 1..Len(emitted)
  PROVE  Wanted(emitted, k) \in Nat /\ k \in 1..MaxEvents /\ done[k] \in Nat
<1>1. /\ emitted \in Seq([type : EventTypes, rzp : 1..MaxSubs]) /\ Len(emitted) <= MaxEvents
      /\ done \in [1..MaxEvents -> Nat] /\ MaxEvents \in Nat
  BY BillingAssumption DEF TypeInv, WorldOK
<1>2. emitted[k] \in [type : EventTypes, rzp : 1..MaxSubs]
  BY <1>1, ElementOfSeq
<1>3. emitted[k].type \in EventTypes
  BY <1>2
<1>4. Wanted(emitted, k) \in 0..2
  BY <1>3, EffectsProgram DEF Wanted
<1>5. k \in 1..MaxEvents
  BY <1>1
<1> QED BY <1>1, <1>4, <1>5

LEMMA OnceUntouched ==
  ASSUME OnceInv, Untouched, UNCHANGED <<emitted, seen, done>>
  PROVE  OnceInv'
<1>1. emitted' = emitted
  OBVIOUS
<1>2. AppliedOnce'
  BY DEF OnceInv, AppliedOnce
<1>3. \A q \in Procs : Applying(proc'[q]) => Applying(proc[q]) /\ proc'[q] = proc[q]
  BY DEF Untouched
<1>4. \A q \in Procs : Applying(proc'[q]) =>
        /\ proc'[q].ev \in seen'
        /\ done'[proc'[q].ev] + Len(proc'[q].todo) <= Wanted(emitted', proc'[q].ev)
  BY <1>1, <1>3 DEF OnceInv
<1>5. \A q, r \in Procs : q # r /\ Applying(proc'[q]) /\ Applying(proc'[r]) => proc'[q].ev # proc'[r].ev
  BY <1>3 DEF OnceInv
<1>6. \A k \in 1..MaxEvents : k \notin seen' => done'[k] = 0
  BY DEF OnceInv
<1> QED BY <1>2, <1>4, <1>5, <1>6 DEF OnceInv

LEMMA UntouchedEnds ==
  ASSUME NEW n \in Nat, ProcOK(proc, n)
  PROVE  /\ proc' = proc \/ proc' = ApiDead => Untouched
         /\ \A p \in Procs : proc' = Ended(p) \/ proc' = Thrown(p) => Untouched
         /\ \A p \in Procs : \A r : proc' = [proc EXCEPT ![p] = r] /\ ~Applying(r) => Untouched
         /\ \A p \in Procs : (proc' = Advance(p) /\ proc[p].op # "hook") => Untouched
<1>1. proc \in [Procs -> Handlers] /\ ~Applying(Idle)
  BY DEF ProcOK, Applying, Idle
<1>2. proc' = proc \/ proc' = ApiDead => Untouched
  BY <1>1 DEF Untouched, ApiDead
<1>3. ASSUME NEW p \in Procs, NEW r, proc' = [proc EXCEPT ![p] = r], ~Applying(r) PROVE Untouched
  BY <1>1, <1>3 DEF Untouched
<1>4. \A p \in Procs : proc' = Ended(p) => Untouched
  BY <1>1, <1>3 DEF Ended
<1>5. ASSUME NEW p \in Procs, proc' = Advance(p), proc[p].op # "hook" PROVE Untouched
  <2>1. CASE proc' = Ended(p)
    BY <1>4, <2>1
  <2>2. CASE proc' = [proc EXCEPT ![p].todo = Tail(@)]
    <3>1. proc' = [proc EXCEPT ![p] = [proc[p] EXCEPT !.todo = Tail(@)]]
      BY <1>1, <2>2
    <3>2. ~Applying([proc[p] EXCEPT !.todo = Tail(@)])
      BY <1>1, <1>5 DEF Applying, Handlers
    <3> QED BY <1>3, <3>1, <3>2
  <2> QED BY <1>5, <2>1, <2>2 DEF Advance
<1> QED BY <1>2, <1>3, <1>4, <1>5 DEF Thrown

LEMMA RequestsApart ==
  ASSUME TypeInv, NEW p \in Procs,
         \/ Deliver(p) \/ Admin(p) \/ Query(p) \/ Touch(p) \/ Subscribe(p)
         \/ Trigger(p) \/ Unlock(p) \/ LegacyTrigger(p)
  PROVE  Untouched /\ UNCHANGED <<emitted, seen, done>>
<1>1. Len(emitted) \in Nat /\ ProcOK(proc, Len(emitted))
  BY DEF TypeInv, WorldOK
<1>2. UNCHANGED <<emitted, seen, done>>
  BY DEF Deliver, Admin, Query, Touch, Subscribe, Trigger, Unlock, LegacyTrigger, Ask, billing, ghosts
<1>3. \E kind, op, ev, t : Begin(p, kind, op, ev, t) /\ (op # "hook" \/ t = <<"find">>)
  <2>1. CASE Deliver(p)
    BY <2>1 DEF Deliver
  <2>2. CASE ~Deliver(p)
    <3>1. "admin" # "hook" /\ "check" # "hook" /\ "touch" # "hook" /\ "subscribe" # "hook" /\ "legacy" # "hook"
      OBVIOUS
    <3> QED BY <2>2, <3>1 DEF Admin, Query, Touch, Subscribe, Trigger, Unlock, LegacyTrigger, Ask
  <2> QED BY <2>1, <2>2
<1>4. PICK kind, op, ev, t : Begin(p, kind, op, ev, t) /\ (op # "hook" \/ t = <<"find">>)
  BY <1>3
<1> DEFINE r == [op |-> op, ev |-> ev, todo |-> t, saw |-> "nothing"]
<1>5. ~Applying(r) /\ proc' = [proc EXCEPT ![p] = r]
  BY <1>4 DEF Applying, Begin
<1> HIDE DEF r
<1> QED BY <1>1, <1>2, <1>5, UntouchedEnds

LEMMA FindApart ==
  ASSUME TypeInv, NEW p \in Procs, FindEvent(p)
  PROVE  Untouched /\ UNCHANGED <<emitted, seen, done>>
<1>1. Len(emitted) \in Nat /\ ProcOK(proc, Len(emitted)) /\ proc \in [Procs -> Handlers]
  BY DEF TypeInv, WorldOK, ProcOK
<1>2. UNCHANGED <<emitted, seen, done>>
  BY DEF FindEvent
<1>3. proc' = Ended(p) \/ proc' = [proc EXCEPT ![p].todo = <<"record">>]
  BY DEF FindEvent
<1> DEFINE r == [proc[p] EXCEPT !.todo = <<"record">>]
<1>4. ~Applying(r)
  BY <1>1 DEF Applying, Handlers
<1>5. [proc EXCEPT ![p].todo = <<"record">>] = [proc EXCEPT ![p] = r]
  BY <1>1
<1> HIDE DEF r
<1> QED BY <1>1, <1>2, <1>3, <1>4, <1>5, UntouchedEnds

LEMMA OtherApart ==
  ASSUME TypeInv, NEW p \in Procs, ReadSub(p) \/ ReadOrg(p) \/ OpenSub(p) \/ OpenFails(p) \/ StoreSub(p)
  PROVE  Untouched /\ UNCHANGED <<emitted, seen, done>>
<1>1. Len(emitted) \in Nat /\ ProcOK(proc, Len(emitted)) /\ proc \in [Procs -> Handlers]
  BY DEF TypeInv, WorldOK, ProcOK
<1>2. UNCHANGED <<emitted, seen, done>>
  BY DEF ReadSub, ReadOrg, OpenSub, OpenFails, StoreSub, billing, ghosts
<1>3. proc[p].op # "hook"
  <2>1. proc[p].todo # <<>> /\ Head(proc[p].todo) \in {"read sub", "read org", "open", "store"}
    BY DEF ReadSub, ReadOrg, OpenSub, OpenFails, StoreSub, At
  <2>2. May(proc[p].op, Head(proc[p].todo))
    BY <1>1, <2>1, TailOK
  <2> QED BY <2>1, <2>2 DEF May
<1>4. \A q \in Procs \ {p} : proc'[q] = proc[q]
  BY <1>1 DEF ReadSub, ReadOrg, OpenSub, OpenFails, StoreSub, Ended, Advance
<1>5. proc'[p].op # "hook"
  <2>1. CASE ReadSub(p)
    BY <1>1, <1>3, <2>1 DEF ReadSub, Ended, Idle, Handlers
  <2>2. CASE ReadOrg(p)
    BY <1>1, <1>3, <2>2 DEF ReadOrg, Ended, Advance, Idle, Handlers
  <2>3. CASE OpenSub(p)
    BY <1>1, <1>3, <2>3 DEF OpenSub, Handlers
  <2>4. CASE OpenFails(p) \/ StoreSub(p)
    BY <1>1, <1>3, <2>4 DEF OpenFails, StoreSub, Ended, Idle
  <2> QED BY <2>1, <2>2, <2>3, <2>4
<1>6. Untouched
  BY <1>4, <1>5 DEF Untouched, Applying
<1> QED BY <1>2, <1>6

(* A recorded event has none of its writes behind it.                      *)
LEMMA RecordOnce ==
  ASSUME TypeInv, OnceInv, NEW p \in Procs, RecordEvent(p)
  PROVE  OnceInv'
<1> DEFINE k == proc[p].ev
<1> DEFINE effects == Effects(emitted[k].type)
<1>1. Len(emitted) \in Nat /\ ProcOK(proc, Len(emitted)) /\ proc \in [Procs -> Handlers]
  BY DEF TypeInv, WorldOK, ProcOK
<1>2. UNCHANGED <<emitted, done>> /\ At(p, "record")
  BY DEF RecordEvent
<1>3. proc[p].op = "hook" /\ k \in 1..Len(emitted)
  BY <1>1, <1>2, HookOK
<1>4. Wanted(emitted, k) \in Nat /\ k \in 1..MaxEvents /\ done[k] \in Nat /\ Len(effects) = Wanted(emitted, k)
  BY <1>3, WantedOK DEF Wanted
<1>5. CASE proc' = ApiDead /\ UNCHANGED seen
  <2>1. Untouched
    BY <1>1, <1>5, UntouchedEnds
  <2> QED BY <1>2, <1>5, <2>1, OnceUntouched
<1>6. CASE k \notin seen /\ seen' = seen \cup {k} /\ (proc' = Ended(p) \/ proc' = [proc EXCEPT ![p].todo = effects])
  <2>1. done[k] = 0
    BY <1>4, <1>6 DEF OnceInv
  <2>2. \A q \in Procs \ {p} : proc'[q] = proc[q] /\ (Applying(proc[q]) => proc[q].ev # k)
    BY <1>1, <1>6 DEF OnceInv, Ended
  <2>3. Applying(proc'[p]) => proc'[p].ev = k /\ proc'[p].todo = effects
    <3>1. ~Applying(Ended(p)[p])
      BY <1>1 DEF Ended, Idle, Applying
    <3> HIDE DEF effects
    <3>2. [proc EXCEPT ![p].todo = effects][p].ev = k /\ [proc EXCEPT ![p].todo = effects][p].todo = effects
      BY <1>1 DEF Handlers
    <3> QED BY <1>6, <3>1, <3>2
  <2> HIDE DEF effects, k
  <2>4. \A q \in Procs : Applying(proc'[q]) =>
          /\ proc'[q].ev \in seen'
          /\ done'[proc'[q].ev] + Len(proc'[q].todo) <= Wanted(emitted', proc'[q].ev)
    <3> SUFFICES ASSUME NEW q \in Procs, Applying(proc'[q])
                 PROVE  /\ proc'[q].ev \in seen'
                        /\ done'[proc'[q].ev] + Len(proc'[q].todo) <= Wanted(emitted', proc'[q].ev)
      OBVIOUS
    <3>1. CASE q = p
      BY <1>2, <1>4, <1>6, <2>1, <2>3, <3>1
    <3>2. CASE q # p
      BY <1>2, <1>6, <2>2, <3>2 DEF OnceInv
    <3> QED BY <3>1, <3>2
  <2>5. \A q, r \in Procs : q # r /\ Applying(proc'[q]) /\ Applying(proc'[r]) => proc'[q].ev # proc'[r].ev
    BY <2>2, <2>3 DEF OnceInv
  <2>6. \A j \in 1..MaxEvents : j \notin seen' => done'[j] = 0
    BY <1>2, <1>6 DEF OnceInv
  <2>7. AppliedOnce'
    BY <1>2 DEF OnceInv, AppliedOnce
  <2> QED BY <2>4, <2>5, <2>6, <2>7 DEF OnceInv
<1> QED BY <1>5, <1>6 DEF RecordEvent

(* A write is one less to do.                                              *)
LEMMA WriteOnce ==
  ASSUME TypeInv, OnceInv, NEW p \in Procs, NEW w \in SubWrites \cup OrgWrites, Write(p, w)
  PROVE  OnceInv'
<1> DEFINE k == proc[p].ev
<1>1. Len(emitted) \in Nat /\ ProcOK(proc, Len(emitted)) /\ proc \in [Procs -> Handlers]
  BY DEF TypeInv, WorldOK, ProcOK
<1>2. UNCHANGED <<emitted, seen>> /\ proc[p].todo # <<>> /\ Head(proc[p].todo) = w
  BY DEF Write, At
<1>3. CASE proc' = Thrown(p) /\ UNCHANGED done
  <2>1. Untouched
    BY <1>1, <1>3, UntouchedEnds
  <2> QED BY <1>2, <1>3, <2>1, OnceUntouched
<1>4. CASE proc' = Advance(p) /\ proc[p].op # "hook" /\ UNCHANGED done
  <2>1. Untouched
    BY <1>1, <1>4, UntouchedEnds
  <2> QED BY <1>2, <1>4, <2>1, OnceUntouched
<1>5. CASE proc' = Advance(p) /\ proc[p].op = "hook" /\ done' = [done EXCEPT ![k] = @ + 1]
  <2>1. Applying(proc[p])
    <3>1. w \notin {"find", "record"}
      BY DEF SubWrites, OrgWrites, Updates
    <3> QED BY <1>2, <1>5, <3>1 DEF Applying
  <2>2. k \in 1..Len(emitted) /\ proc[p].todo \in Seq(Steps)
    BY <1>1, <1>5 DEF ProcOK, Fits, Handlers
  <2>3. Wanted(emitted, k) \in Nat /\ k \in 1..MaxEvents /\ done[k] \in Nat /\ done \in [1..MaxEvents -> Nat]
    BY <2>2, WantedOK DEF TypeInv, WorldOK
  <2>4. k \in seen /\ done[k] + Len(proc[p].todo) <= Wanted(emitted, k)
    BY <2>1 DEF OnceInv
  <2>5. Len(proc[p].todo) \in Nat \ {0} /\ Len(Tail(proc[p].todo)) = Len(proc[p].todo) - 1
    BY <1>2, <2>2, HeadTailProperties, EmptySeq
  <2>6. \A q \in Procs \ {p} : proc'[q] = proc[q] /\ (Applying(proc[q]) => proc[q].ev # k)
    BY <1>1, <1>5, <2>1 DEF OnceInv, Advance, Ended
  <2>7. Applying(proc'[p]) => proc'[p].ev = k /\ proc'[p].todo = Tail(proc[p].todo)
    <3>1. ~Applying(Ended(p)[p])
      BY <1>1 DEF Ended, Idle, Applying
    <3>2. [proc EXCEPT ![p].todo = Tail(@)][p].ev = k /\ [proc EXCEPT ![p].todo = Tail(@)][p].todo = Tail(proc[p].todo)
      BY <1>1 DEF Handlers
    <3> QED BY <1>5, <3>1, <3>2 DEF Advance
  <2>8. done'[k] = done[k] + 1 /\ \A j \in 1..MaxEvents \ {k} : done'[j] = done[j]
    BY <1>5, <2>3
  <2> HIDE DEF k
  <2>9. \A q \in Procs : Applying(proc'[q]) =>
          /\ proc'[q].ev \in seen'
          /\ done'[proc'[q].ev] + Len(proc'[q].todo) <= Wanted(emitted', proc'[q].ev)
    <3> SUFFICES ASSUME NEW q \in Procs, Applying(proc'[q])
                 PROVE  /\ proc'[q].ev \in seen'
                        /\ done'[proc'[q].ev] + Len(proc'[q].todo) <= Wanted(emitted', proc'[q].ev)
      OBVIOUS
    <3>1. CASE q = p
      <4>1. proc'[p].ev = k /\ Len(proc'[p].todo) = Len(proc[p].todo) - 1
        BY <2>5, <2>7, <3>1
      <4>2. done[k] + 1 + (Len(proc[p].todo) - 1) <= Wanted(emitted, k)
        BY <2>3, <2>4, <2>5
      <4> QED BY <1>2, <2>4, <2>8, <3>1, <4>1, <4>2
    <3>2. CASE q # p
      <4>1. proc'[q] = proc[q] /\ Applying(proc[q]) /\ proc[q].ev # k
        BY <2>6, <3>2
      <4>2. proc[q].ev \in seen /\ done[proc[q].ev] + Len(proc[q].todo) <= Wanted(emitted, proc[q].ev)
        BY <4>1 DEF OnceInv
      <4>3. seen \subseteq 1..MaxEvents
        BY BillingAssumption DEF TypeInv, WorldOK
      <4> QED BY <1>2, <2>8, <4>1, <4>2, <4>3
    <3> QED BY <3>1, <3>2
  <2>10. \A q, r \in Procs : q # r /\ Applying(proc'[q]) /\ Applying(proc'[r]) => proc'[q].ev # proc'[r].ev
    BY <2>6, <2>7 DEF OnceInv
  <2>11. \A j \in 1..MaxEvents : j \notin seen' => done'[j] = 0
    BY <1>2, <2>4, <2>8 DEF OnceInv
  <2>12. AppliedOnce'
    <3> SUFFICES ASSUME NEW j \in 1..Len(emitted) PROVE done'[j] <= Wanted(emitted, j)
      BY <1>2 DEF AppliedOnce, Wanted
    <3>1. CASE j = k
      BY <2>3, <2>4, <2>5, <2>8, <3>1
    <3>2. CASE j # k
      <4>1. j \in 1..MaxEvents /\ done[j] <= Wanted(emitted, j)
        BY WantedOK DEF OnceInv, AppliedOnce, Wanted
      <4> QED BY <2>8, <3>2, <4>1
    <3> QED BY <3>1, <3>2
  <2> QED BY <2>9, <2>10, <2>11, <2>12 DEF OnceInv
<1> QED BY <1>3, <1>4, <1>5 DEF Write

(* A new event has not been recorded.                                      *)
LEMMA GatewayOnce ==
  ASSUME TypeInv, OnceInv, Gateway
  PROVE  OnceInv'
<1>1. /\ emitted \in Seq([type : EventTypes, rzp : 1..MaxSubs]) /\ seen \subseteq 1..Len(emitted) /\ Len(emitted) \in Nat
      /\ MaxEvents \in Nat
  BY BillingAssumption DEF TypeInv, WorldOK
<1>2. PICK r \in 1..MaxSubs, e \in Life :
        /\ Len(emitted) + Len(e.types) <= MaxEvents
        /\ emitted' = emitted \o [i \in 1..Len(e.types) |-> [type |-> e.types[i], rzp |-> r]]
        /\ UNCHANGED <<seen, proc, done>>
  BY DEF Gateway, ghosts
<1>3. e.types \in Seq(EventTypes) /\ Len(e.types) \in 1..2
  BY <1>2, LifeOK
<1> DEFINE new == [i \in 1..Len(e.types) |-> [type |-> e.types[i], rzp |-> r]]
<1>4. new \in Seq([type : EventTypes, rzp : 1..MaxSubs]) /\ Len(new) = Len(e.types)
  BY <1>3
<1>5. emitted' = emitted \o new
  BY <1>2
<1> HIDE DEF new
<1>6. /\ Len(emitted') = Len(emitted) + Len(new) /\ Len(emitted') <= MaxEvents
      /\ \A k \in 1..Len(emitted) : emitted'[k] = emitted[k]
  BY <1>1, <1>2, <1>3, <1>4, <1>5
<1>7. \A k \in 1..Len(emitted) : Wanted(emitted', k) = Wanted(emitted, k)
  BY <1>6 DEF Wanted
<1>8. \A q \in Procs : Applying(proc'[q]) =>
        /\ proc'[q].ev \in seen'
        /\ done'[proc'[q].ev] + Len(proc'[q].todo) <= Wanted(emitted', proc'[q].ev)
  BY <1>1, <1>2, <1>7 DEF OnceInv
<1>9. \A k \in 1..Len(emitted') : done'[k] <= Wanted(emitted', k)
  <2> SUFFICES ASSUME NEW k \in 1..Len(emitted') PROVE done[k] <= Wanted(emitted', k)
    BY <1>2
  <2>1. CASE k <= Len(emitted)
    <3>1. k \in 1..Len(emitted)
      BY <1>1, <2>1
    <3> QED BY <1>7, <3>1 DEF OnceInv, AppliedOnce, Wanted
  <2>2. CASE k > Len(emitted)
    <3>1. k \notin seen /\ k \in 1..MaxEvents
      BY <1>1, <1>3, <1>4, <1>6, <2>2
    <3>2. done[k] = 0
      BY <3>1 DEF OnceInv
    <3>3. Wanted(emitted', k) \in Nat
      <4>1. emitted' \in Seq([type : EventTypes, rzp : 1..MaxSubs])
        BY <1>1, <1>4, <1>5
      <4>2. emitted'[k] \in [type : EventTypes, rzp : 1..MaxSubs]
        BY <4>1, ElementOfSeq
      <4>3. emitted'[k].type \in EventTypes
        BY <4>2
      <4>4. Wanted(emitted', k) \in 0..2
        BY <4>3, EffectsProgram DEF Wanted
      <4> QED BY <4>4
    <3> QED BY <3>2, <3>3
  <2> QED BY <1>1, <1>3, <1>4, <1>6, <2>1, <2>2
<1>10. AppliedOnce'
  BY <1>9 DEF AppliedOnce, Wanted
<1>11. /\ \A q, r1 \in Procs : q # r1 /\ Applying(proc'[q]) /\ Applying(proc'[r1]) => proc'[q].ev # proc'[r1].ev
       /\ \A k \in 1..MaxEvents : k \notin seen' => done'[k] = 0
  BY <1>2 DEF OnceInv
<1> QED BY <1>8, <1>10, <1>11 DEF OnceInv

LEMMA BillingWorldApart ==
  ASSUME TypeInv, Nightfall \/ FindLocked \/ TimePasses \/ ApiCrash
  PROVE  Untouched /\ UNCHANGED <<emitted, seen, done>>
<1>1. Len(emitted) \in Nat /\ ProcOK(proc, Len(emitted)) /\ proc \in [Procs -> Handlers] /\ Night \in Procs
  BY DEF TypeInv, WorldOK, ProcOK, Procs
<1>2. UNCHANGED <<emitted, seen, done>>
  BY DEF Nightfall, FindLocked, TimePasses, ApiCrash, billing, ghosts
<1>3. CASE Nightfall
  <2> DEFINE t == <<"lock trials", "lock graces", "find locked", "sync orgs">>
  <2>1. proc' = [proc EXCEPT ![Night].op = "night", ![Night].todo = t]
    BY <1>3 DEF Nightfall
  <2> HIDE DEF t
  <2>2. Untouched
    BY <1>1, <2>1 DEF Untouched, Applying, Handlers
  <2> QED BY <1>2, <2>2
<1>4. CASE FindLocked
  <2>1. proc[Night].op # "hook"
    <3>1. proc[Night].todo # <<>> /\ Head(proc[Night].todo) = "find locked"
      BY <1>4 DEF FindLocked, At
    <3>2. May(proc[Night].op, Head(proc[Night].todo))
      BY <1>1, <3>1, TailOK
    <3> QED BY <3>1, <3>2 DEF May
  <2>2. (\A q \in Procs \ {Night} : proc'[q] = proc[q]) /\ proc'[Night].op = proc[Night].op
    BY <1>1, <1>4 DEF FindLocked, Handlers
  <2>3. Untouched
    BY <2>1, <2>2 DEF Untouched, Applying
  <2> QED BY <1>2, <2>3
<1>5. CASE TimePasses \/ ApiCrash
  <2>1. proc' = proc \/ proc' = ApiDead
    BY <1>5 DEF TimePasses, ApiCrash
  <2>2. Untouched
    BY <1>1, <2>1, UntouchedEnds
  <2> QED BY <1>2, <2>2
<1> QED BY <1>3, <1>4, <1>5

LEMMA LockStepApart ==
  ASSUME TypeInv, NEW p \in Procs,
         \/ SweepStaleLocks(p) \/ UnlockEngine(p) \/ Look(p) \/ Enqueue(p)
         \/ CreateRow(p, "row", "worker") \/ CreateRow(p, "cron", "engine")
         \/ FinishRow(p, "finish", "engine") \/ FinishRow(p, "close", "worker")
  PROVE  Untouched /\ UNCHANGED <<emitted, seen, done>>
<1>1. Len(emitted) \in Nat /\ ProcOK(proc, Len(emitted))
  BY DEF TypeInv, WorldOK
<1>2. /\ UNCHANGED <<emitted, seen, done>> /\ proc[p].todo # <<>>
      /\ Head(proc[p].todo) \in LateSteps
      /\ proc' = Advance(p) \/ proc' = Ended(p)
  BY DEF SweepStaleLocks, UnlockEngine, Look, Enqueue, CreateRow, FinishRow, At, LateSteps, billing
<1>3. proc[p].op # "hook"
  <2>1. May(proc[p].op, Head(proc[p].todo))
    BY <1>1, <1>2, TailOK
  <2> QED BY <1>2, <2>1 DEF May, LateSteps
<1>4. Untouched
  BY <1>1, <1>2, <1>3, UntouchedEnds
<1> QED BY <1>2, <1>4

LEMMA LockWorldApart ==
  ASSUME TypeInv, LockWorld
  PROVE  Untouched /\ UNCHANGED <<emitted, seen, done>>
<1>1. Len(emitted) \in Nat /\ ProcOK(proc, Len(emitted)) /\ proc \in [Procs -> Handlers] /\ Worker \in Procs
  BY DEF TypeInv, WorldOK, ProcOK, Procs
<1>2. UNCHANGED <<emitted, seen, done>>
  BY DEF LockWorld, Schedule, TakeJob, WorkerThrows, WorkersCrash, DashCrash, Age, billing, ghosts
<1>3. CASE TakeJob
  <2> DEFINE t == <<"read sub", "read org", "row", "cron", "finish", "close">>
  <2> DEFINE r == [op |-> "job", ev |-> Head(jobs), todo |-> t, saw |-> "nothing"]
  <2>1. proc' = [proc EXCEPT ![Worker] = r]
    BY <1>3 DEF TakeJob, Begin
  <2> HIDE DEF t
  <2>2. ~Applying(r)
    BY DEF Applying
  <2> HIDE DEF r
  <2>3. Untouched
    BY <1>1, <2>1, <2>2, UntouchedEnds
  <2> QED BY <1>2, <2>3
<1>4. CASE ~TakeJob
  <2>1. \A q \in Procs : proc'[q] = proc[q] \/ proc'[q] = Idle
    BY <1>1, <1>4 DEF LockWorld, Schedule, WorkerThrows, WorkersCrash, DashCrash, Age, Ended
  <2>2. Untouched
    BY <2>1 DEF Untouched, Applying, Idle
  <2> QED BY <1>2, <2>2
<1> QED BY <1>3, <1>4

LEMMA OnceInvariant == Spec => []OnceInv
<1>1. Init => OnceInv
  <2> SUFFICES ASSUME Init PROVE OnceInv
    OBVIOUS
  <2>1. TypeInv /\ \A q \in Procs : ~Applying(proc[q])
    BY InitOK DEF Init, Applying, Idle
  <2>2. \A k \in 1..MaxEvents : done[k] = 0
    BY DEF Init, BillingInit
  <2>3. AppliedOnce
    <3> SUFFICES ASSUME NEW k \in 1..Len(emitted) PROVE done[k] <= Wanted(emitted, k)
      BY DEF AppliedOnce, Wanted
    <3> QED BY <2>1, <2>2, WantedOK
  <2> QED BY <2>1, <2>2, <2>3 DEF OnceInv
<1>2. TypeInv /\ OnceInv /\ [Next]_vars => OnceInv'
  <2> SUFFICES ASSUME TypeInv, OnceInv, [Next]_vars PROVE OnceInv'
    OBVIOUS
  <2>1. ASSUME NEW p \in Procs, BillingStep(p) PROVE OnceInv'
    BY <2>1, RequestsApart, FindApart, OtherApart, OnceUntouched, RecordOnce, WriteOnce DEF BillingStep
  <2>2. ASSUME NEW p \in Procs, LockStep(p) PROVE OnceInv'
    BY <2>2, RequestsApart, LockStepApart, OnceUntouched DEF LockStep
  <2>3. CASE BillingWorld
    BY <2>3, GatewayOnce, BillingWorldApart, OnceUntouched DEF BillingWorld
  <2>4. CASE LockWorld
    BY <2>4, LockWorldApart, OnceUntouched
  <2>5. CASE UNCHANGED vars
    <3>1. Untouched /\ UNCHANGED <<emitted, seen, done>>
      BY <2>5 DEF vars, billing, ghosts, Untouched
    <3> QED BY <3>1, OnceUntouched
  <2> QED BY <2>1, <2>2, <2>3, <2>4, <2>5 DEF Next
<1> QED BY <1>1, <1>2, PlatformTypeInvariant, PTL DEF Spec

(* An event's writes are carried out at most once, however often it is     *)
(* delivered, and whichever handlers are cut short.                        *)
THEOREM EventsAppliedOnce == Spec => []AppliedOnce
<1>1. OnceInv => AppliedOnce
  BY DEF OnceInv
<1> QED BY <1>1, OnceInvariant, PTL

-----------------------------------------------------------------------------
(* The gateway's view *)

(* What an event makes of the rows, and how far its writes have come.      *)
Status(type) == CASE type = "completed" -> "locked" [] type = "failed" -> "grace" [] OTHER -> "active"
Agrees(type, status, o) ==
  /\ status = Status(type)
  /\ type # "failed" => o = IF type = "completed" THEN "locked" ELSE "active"
Behind(todo, type, status) ==
  \/ todo = Effects(type)
  \/ Len(Effects(type)) = 2 /\ todo = Tail(Effects(type)) /\ status = Status(type)
Lasts(k, known) == k \in known /\ \A j \in known : j <= k

(* While the events come in their order: the last of them with any writes  *)
(* is being carried out, or the rows are as it leaves them.                *)
MirrorInv == ~muddled =>
  /\ \A k \in seen : 1..k \subseteq seen
  /\ \A q \in Procs : Applying(proc[q]) =>
       Lasts(proc[q].ev, Known) /\ Behind(proc[q].todo, emitted[proc[q].ev].type, sub.status)
  /\ Known # {} => \/ \E q \in Procs : Applying(proc[q])
                   \/ \E k \in Known : Lasts(k, Known) /\ Agrees(emitted[k].type, sub.status, org)

(* The handlers that carry out an event go on with it.                     *)
Kept == \A q \in Procs : Applying(proc[q]) => proc'[q] = proc[q]

LEMMA MirrorStays ==
  ASSUME MirrorInv, Untouched, Kept, UNCHANGED <<emitted, seen, org, muddled>>, sub'.status = sub.status
  PROVE  MirrorInv'
<1> SUFFICES ASSUME ~muddled PROVE MirrorInv'
  BY DEF MirrorInv
<1>1. Known' = Known
  BY DEF Known
<1>2. \A q \in Procs : (Applying(proc'[q]) <=> Applying(proc[q])) /\ (Applying(proc[q]) => proc'[q] = proc[q])
  BY DEF Untouched, Kept
<1>3. \A k \in seen' : 1..k \subseteq seen'
  BY DEF MirrorInv
<1>4. \A q \in Procs : Applying(proc'[q]) =>
        Lasts(proc'[q].ev, Known') /\ Behind(proc'[q].todo, emitted'[proc'[q].ev].type, sub'.status)
  BY <1>1, <1>2 DEF MirrorInv
<1>5. Known' # {} => \/ \E q \in Procs : Applying(proc'[q])
                    \/ \E k \in Known' : Lasts(k, Known') /\ Agrees(emitted'[k].type, sub'.status, org')
  BY <1>1, <1>2 DEF MirrorInv
<1> QED BY <1>3, <1>4, <1>5 DEF MirrorInv

LEMMA KeptElsewhere ==
  ASSUME NEW p \in Procs, \A q \in Procs \ {p} : proc'[q] = proc[q], ~Applying(proc[p])
  PROVE  Kept
  BY DEF Kept

LEMMA MuddledMirror == ASSUME muddled' PROVE MirrorInv'
  BY DEF MirrorInv

LEMMA RequestsMirror ==
  ASSUME TypeInv, MirrorInv, NEW p \in Procs,
         \/ Deliver(p) \/ Admin(p) \/ Query(p) \/ Touch(p) \/ Subscribe(p)
         \/ Trigger(p) \/ Unlock(p) \/ LegacyTrigger(p)
  PROVE  MirrorInv'
<1>1. proc \in [Procs -> Handlers]
  BY DEF TypeInv, WorldOK, ProcOK
<1>2. UNCHANGED <<emitted, seen, org, muddled, sub>> /\ proc[p].todo = <<>> /\ \A q \in Procs \ {p} : proc'[q] = proc[q]
  BY <1>1 DEF Deliver, Admin, Query, Touch, Subscribe, Trigger, Unlock, LegacyTrigger, Ask, Begin, billing, ghosts
<1>3. Kept
  BY <1>2, KeptElsewhere DEF Applying
<1> QED BY <1>2, <1>3, RequestsApart, MirrorStays

LEMMA FindMirror ==
  ASSUME TypeInv, MirrorInv, NEW p \in Procs, FindEvent(p)
  PROVE  MirrorInv'
<1>1. proc \in [Procs -> Handlers]
  BY DEF TypeInv, WorldOK, ProcOK
<1>2. UNCHANGED <<emitted, seen, org, muddled, sub>> /\ Head(proc[p].todo) = "find" /\ \A q \in Procs \ {p} : proc'[q] = proc[q]
  BY <1>1 DEF FindEvent, At, Ended
<1>3. Kept
  BY <1>2, KeptElsewhere DEF Applying
<1> QED BY <1>2, <1>3, FindApart, MirrorStays

LEMMA OtherMirror ==
  ASSUME TypeInv, MirrorInv, NEW p \in Procs, ReadSub(p) \/ ReadOrg(p) \/ OpenSub(p) \/ OpenFails(p) \/ StoreSub(p)
  PROVE  MirrorInv'
<1>1. Len(emitted) \in Nat /\ ProcOK(proc, Len(emitted)) /\ proc \in [Procs -> Handlers] /\ sub \in Subs \cup {NoSub}
  BY DEF TypeInv, WorldOK, ProcOK
<1>2. proc[p].op # "hook" /\ \A q \in Procs \ {p} : proc'[q] = proc[q]
  <2>1. proc[p].todo # <<>> /\ Head(proc[p].todo) \in {"read sub", "read org", "open", "store"}
    BY DEF ReadSub, ReadOrg, OpenSub, OpenFails, StoreSub, At
  <2>2. May(proc[p].op, Head(proc[p].todo))
    BY <1>1, <2>1, TailOK
  <2>3. proc[p].op # "hook"
    BY <2>1, <2>2 DEF May
  <2> QED BY <1>1, <2>3 DEF ReadSub, ReadOrg, OpenSub, OpenFails, StoreSub, Ended, Advance
<1>3. Kept
  BY <1>2, KeptElsewhere DEF Applying
<1>4. CASE ReadSub(p) \/ ReadOrg(p) \/ OpenSub(p) \/ OpenFails(p)
  <2>1. UNCHANGED <<org, muddled, sub>>
    BY <1>4 DEF ReadSub, ReadOrg, OpenSub, OpenFails, billing, ghosts
  <2> QED BY <1>3, <2>1, OtherApart, MirrorStays
<1>5. CASE StoreSub(p)
  <2>1. org' = org /\ (muddled' \/ muddled' = muddled)
    <3>1. muddled \in BOOLEAN
      BY DEF TypeInv, WorldOK
    <3>2. org' = org /\ muddled' = (muddled \/ seen # {})
      BY <1>5 DEF StoreSub
    <3> QED BY <3>1, <3>2
  <2>2. sub'.status = sub.status
    <3>1. sub # NoSub => [sub EXCEPT !.rzp = proc[p].ev].status = sub.status
      BY <1>1 DEF Subs
    <3> QED BY <1>5, <3>1 DEF StoreSub
  <2> QED BY <1>3, <2>1, <2>2, OtherApart, MirrorStays, MuddledMirror
<1> QED BY <1>4, <1>5

LEMMA LockStepMirror ==
  ASSUME TypeInv, MirrorInv, NEW p \in Procs,
         \/ SweepStaleLocks(p) \/ UnlockEngine(p) \/ Look(p) \/ Enqueue(p)
         \/ CreateRow(p, "row", "worker") \/ CreateRow(p, "cron", "engine")
         \/ FinishRow(p, "finish", "engine") \/ FinishRow(p, "close", "worker")
  PROVE  MirrorInv'
<1>1. Len(emitted) \in Nat /\ ProcOK(proc, Len(emitted))
  BY DEF TypeInv, WorldOK
<1>2. /\ UNCHANGED <<org, muddled, sub>> /\ proc[p].todo # <<>> /\ Head(proc[p].todo) \in LateSteps
      /\ proc' = Advance(p) \/ proc' = Ended(p)
  BY DEF SweepStaleLocks, UnlockEngine, Look, Enqueue, CreateRow, FinishRow, At, LateSteps, billing
<1>3. proc[p].op # "hook"
  <2>1. May(proc[p].op, Head(proc[p].todo))
    BY <1>1, <1>2, TailOK
  <2> QED BY <1>2, <2>1 DEF May, LateSteps
<1>4. \A q \in Procs \ {p} : proc'[q] = proc[q]
  BY <1>1, <1>2, StepSpot
<1>5. Kept
  BY <1>3, <1>4, KeptElsewhere DEF Applying
<1> QED BY <1>2, <1>5, LockStepApart, MirrorStays

LEMMA LockWorldMirror ==
  ASSUME TypeInv, MirrorInv, LockWorld
  PROVE  MirrorInv'
<1>1. proc \in [Procs -> Handlers] /\ \A q \in Procs : Applying(proc[q]) => q \notin Dash /\ q # Worker /\ q # Night
  BY Apart DEF TypeInv, WorldOK, ProcOK, Fits, Applying
<1>2. UNCHANGED <<org, muddled, sub>>
  BY DEF LockWorld, Schedule, TakeJob, WorkerThrows, WorkersCrash, DashCrash, Age, billing, ghosts
<1>3. \A q \in Procs : q \in Dash \/ q = Worker \/ q = Night \/ proc'[q] = proc[q]
  BY <1>1 DEF LockWorld, Schedule, TakeJob, WorkerThrows, WorkersCrash, DashCrash, Age, Ended, Begin
<1>4. Kept
  BY <1>1, <1>3 DEF Kept
<1> QED BY <1>2, <1>4, LockWorldApart, MirrorStays

LEMMA BillingWorldMirror ==
  ASSUME TypeInv, MirrorInv, Nightfall \/ FindLocked \/ TimePasses \/ ApiCrash
  PROVE  MirrorInv'
<1>1. /\ proc \in [Procs -> Handlers] /\ \A q \in Procs : Applying(proc[q]) => q # Night
      /\ sub \in Subs \cup {NoSub}
  BY Apart DEF TypeInv, WorldOK, ProcOK, Fits, Applying
<1>2. CASE Nightfall \/ FindLocked \/ TimePasses
  <2>1. UNCHANGED <<org, muddled>> /\ \A q \in Procs : q = Night \/ proc'[q] = proc[q]
    BY <1>1, <1>2 DEF Nightfall, FindLocked, TimePasses, billing, ghosts
  <2>2. Kept
    BY <1>1, <2>1 DEF Kept
  <2>3. sub'.status = sub.status
    <3>1. [sub EXCEPT !.trial = "passed"].status = sub.status /\ [sub EXCEPT !.grace = "passed"].status = sub.status
      BY <1>1 DEF Subs, NoSub
    <3> QED BY <1>2, <3>1 DEF Nightfall, FindLocked, TimePasses, billing
  <2> QED BY <1>2, <2>1, <2>2, <2>3, BillingWorldApart, MirrorStays
<1>3. CASE ApiCrash
  BY <1>3, MuddledMirror DEF ApiCrash
<1> QED BY <1>2, <1>3

LEMMA KnownOK ==
  ASSUME TypeInv
  PROVE  Known \subseteq seen /\ seen \subseteq 1..Len(emitted) /\ Len(emitted) \in Nat
         /\ \A k \in Known : emitted[k].type \in EventTypes /\ Effects(emitted[k].type) # <<>>
<1>1. /\ emitted \in Seq([type : EventTypes, rzp : 1..MaxSubs]) /\ seen \subseteq 1..Len(emitted) /\ Len(emitted) \in Nat
  BY DEF TypeInv, WorldOK
<1>2. \A k \in 1..Len(emitted) : emitted[k].type \in EventTypes
  <2> SUFFICES ASSUME NEW k \in 1..Len(emitted) PROVE emitted[k].type \in EventTypes
    OBVIOUS
  <2>1. emitted[k] \in [type : EventTypes, rzp : 1..MaxSubs]
    BY <1>1, ElementOfSeq
  <2> QED BY <2>1
<1> QED BY <1>1, <1>2 DEF Known

LEMMA GatewayMirror ==
  ASSUME TypeInv, OnceInv, MirrorInv, Gateway
  PROVE  MirrorInv'
<1>1. /\ emitted \in Seq([type : EventTypes, rzp : 1..MaxSubs]) /\ seen \subseteq 1..Len(emitted) /\ Len(emitted) \in Nat
      /\ Known \subseteq seen
  BY KnownOK DEF TypeInv, WorldOK
<1>2. PICK r \in 1..MaxSubs, e \in Life :
        /\ emitted' = emitted \o [i \in 1..Len(e.types) |-> [type |-> e.types[i], rzp |-> r]]
        /\ UNCHANGED <<seen, proc, sub, org, muddled>>
  BY DEF Gateway, ghosts
<1>3. e.types \in Seq(EventTypes) /\ Len(e.types) \in 1..2
  <2>1. e.types = <<"activated", "charged">> \/ \E x \in EventTypes : e.types = <<x>>
    BY <1>2 DEF Life, EventTypes
  <2>2. <<"activated", "charged">> \in Seq(EventTypes) /\ Len(<<"activated", "charged">>) \in 1..2
    BY DEF EventTypes
  <2>3. \A x \in EventTypes : <<x>> \in Seq(EventTypes) /\ Len(<<x>>) \in 1..2
    OBVIOUS
  <2> QED BY <2>1, <2>2, <2>3
<1>4. \A k \in seen : emitted'[k] = emitted[k]
  BY <1>1, <1>2, <1>3
<1>5. Known' = Known
  BY <1>2, <1>4 DEF Known
<1> SUFFICES ASSUME ~muddled PROVE MirrorInv'
  BY <1>2 DEF MirrorInv
<1>6. \A k \in seen' : 1..k \subseteq seen'
  BY <1>2 DEF MirrorInv
<1>7. \A q \in Procs : Applying(proc'[q]) =>
        Lasts(proc'[q].ev, Known') /\ Behind(proc'[q].todo, emitted'[proc'[q].ev].type, sub'.status)
  BY <1>1, <1>2, <1>4, <1>5 DEF MirrorInv, OnceInv
<1>8. Known' # {} => \/ \E q \in Procs : Applying(proc'[q])
                    \/ \E k \in Known' : Lasts(k, Known') /\ Agrees(emitted'[k].type, sub'.status, org')
  BY <1>1, <1>2, <1>4, <1>5 DEF MirrorInv
<1> QED BY <1>6, <1>7, <1>8 DEF MirrorInv

(* An event recorded in its turn is the last one.                          *)
LEMMA RecordMirror ==
  ASSUME TypeInv, OnceInv, MirrorInv, NEW p \in Procs, RecordEvent(p)
  PROVE  MirrorInv'
<1> DEFINE k == proc[p].ev
<1> DEFINE effects == Effects(emitted[k].type)
<1>1. /\ Len(emitted) \in Nat /\ ProcOK(proc, Len(emitted)) /\ proc \in [Procs -> Handlers]
      /\ seen \subseteq 1..Len(emitted) /\ Known \subseteq seen
  BY KnownOK DEF TypeInv, WorldOK, ProcOK
<1>2. UNCHANGED <<emitted, sub, org>> /\ At(p, "record")
  BY DEF RecordEvent
<1>3. k \in 1..Len(emitted) /\ ~Applying(proc[p])
  <2>1. proc[p].op = "hook" /\ proc[p].ev \in 1..Len(emitted)
    BY <1>1, <1>2, HookOK
  <2> QED BY <1>2, <2>1 DEF At, Applying
<1>4. CASE muddled'
  BY <1>4, MuddledMirror
<1>5. CASE ~muddled'
  <2>1. /\ k \notin seen /\ seen' = seen \cup {k} /\ ~muddled /\ ~OutOfTurn(p, k)
        /\ \/ effects = <<>> /\ proc' = Ended(p)
           \/ effects # <<>> /\ proc' = [proc EXCEPT ![p].todo = effects]
    BY <1>5 DEF RecordEvent
  <2>2. 1..k - 1 \subseteq seen
    BY <2>1 DEF OutOfTurn
  <2>3. \A q \in Procs \ {p} : proc'[q] = proc[q] /\ ~Applying(proc[q])
    BY <1>1, <2>1 DEF OutOfTurn, Applying, Ended
  <2>4. \A j \in seen : 1..j \subseteq seen
    BY <2>1 DEF MirrorInv
  <2>5. \A j \in seen : j < k
    BY <1>1, <1>3, <2>1, <2>4
  <2>6. \A j \in seen' : 1..j \subseteq seen'
    BY <1>1, <1>3, <2>1, <2>2, <2>4
  <2>7. CASE effects = <<>>
    <3>1. Known' = Known
      BY <1>2, <2>1, <2>7 DEF Known
    <3>2. \A q \in Procs : ~Applying(proc'[q]) /\ ~Applying(proc[q])
      BY <1>1, <1>3, <2>1, <2>3, <2>7 DEF Applying, Ended, Idle
    <3>3. Known # {} => \E j \in Known : Lasts(j, Known) /\ Agrees(emitted[j].type, sub.status, org)
      BY <2>1, <3>2 DEF MirrorInv
    <3> QED BY <1>2, <2>6, <3>1, <3>2, <3>3 DEF MirrorInv
  <2>8. CASE effects # <<>>
    <3>1. Known' = Known \cup {k}
      BY <1>2, <2>1, <2>8 DEF Known
    <3>2. Lasts(k, Known')
      BY <1>1, <1>3, <2>5, <3>1 DEF Lasts
    <3>3. proc'[p].op = "hook" /\ proc'[p].ev = k /\ proc'[p].todo = effects
      <4>1. proc[p].op = "hook"
        BY <1>1, <1>2, HookOK
      <4> HIDE DEF effects
      <4> QED BY <1>1, <2>1, <2>8, <4>1 DEF Handlers
    <3>4. Applying(proc'[p])
      <4>1. emitted[k].type \in EventTypes
        <5>1. emitted \in Seq([type : EventTypes, rzp : 1..MaxSubs])
          BY DEF TypeInv, WorldOK
        <5>2. emitted[k] \in [type : EventTypes, rzp : 1..MaxSubs]
          BY <1>3, <5>1, ElementOfSeq
        <5> QED BY <5>2
      <4>2. Head(effects) \notin {"find", "record"}
        BY <2>8, <4>1, EffectsProgram
      <4> HIDE DEF effects
      <4> QED BY <2>8, <3>3, <4>2 DEF Applying
    <3>5. Behind(proc'[p].todo, emitted'[proc'[p].ev].type, sub'.status)
      BY <1>2, <3>3 DEF Behind
    <3> HIDE DEF effects, k
    <3>6. \A q \in Procs : Applying(proc'[q]) =>
            Lasts(proc'[q].ev, Known') /\ Behind(proc'[q].todo, emitted'[proc'[q].ev].type, sub'.status)
      <4> SUFFICES ASSUME NEW q \in Procs, Applying(proc'[q])
                   PROVE  Lasts(proc'[q].ev, Known') /\ Behind(proc'[q].todo, emitted'[proc'[q].ev].type, sub'.status)
        OBVIOUS
      <4>1. q = p
        BY <2>3
      <4> QED BY <3>2, <3>3, <3>5, <4>1
    <3> QED BY <2>6, <3>4, <3>6 DEF MirrorInv
  <2> QED BY <2>7, <2>8
<1> QED BY <1>4, <1>5

(* What the writes of an event do.                                         *)
LEMMA SubWritten ==
  ASSUME sub \in Subs
  PROVE  /\ SubAfter("sub active").status = "active" /\ SubAfter("sub charged").status = "active"
         /\ SubAfter("sub locked").status = "locked" /\ SubAfter("sub grace").status = "grace"
         /\ SubAfter("org active") = sub /\ SubAfter("org locked") = sub
  BY DEF SubAfter, Subs

LEMMA OrgWritten == \A saw : OrgAfter("org active", saw) = "active" /\ OrgAfter("org locked", saw) = "locked"
  BY DEF OrgAfter

LEMMA PairFacts ==
  /\ \A E, a, b : E = <<a, b>> => Len(E) = 2 /\ Len(Tail(E)) = 1 /\ Head(E) = a /\ Head(Tail(E)) = b
  /\ \A E, a : E = <<a>> => Len(E) = 1 /\ Head(E) = a
  OBVIOUS

LEMMA EffectShape ==
  ASSUME NEW type \in EventTypes, Effects(type) # <<>>
  PROVE  \/ type = "failed" /\ Effects(type) = <<"sub grace">>
         \/ type = "activated" /\ Effects(type) = <<"sub active", "org active">>
         \/ type = "charged" /\ Effects(type) = <<"sub charged", "org active">>
         \/ type = "completed" /\ Effects(type) = <<"sub locked", "org locked">>
  BY DEF EventTypes, Effects

LEMMA EffectFacts ==
  ASSUME NEW type \in EventTypes, NEW E, E = Effects(type), E # <<>>
  PROVE  /\ Head(E) \in Updates /\ Status(type) # "none"
         /\ sub \in Subs => SubAfter(Head(E)).status = Status(type)
         /\ type = "failed" => Len(E) = 1
         /\ type # "failed" =>
              /\ Len(E) = 2 /\ Len(Tail(E)) = 1 /\ Head(Tail(E)) \in {"org active", "org locked"}
              /\ sub \in Subs => SubAfter(Head(Tail(E))) = sub
              /\ \A saw : OrgAfter(Head(Tail(E)), saw) = IF type = "completed" THEN "locked" ELSE "active"
<1>1. CASE type = "activated" /\ E = <<"sub active", "org active">>
  <2>1. Len(E) = 2 /\ Len(Tail(E)) = 1 /\ Head(E) = "sub active" /\ Head(Tail(E)) = "org active"
    BY <1>1, PairFacts
  <2> QED BY <1>1, <2>1, SubWritten, OrgWritten DEF Status, Updates
<1>2. CASE type = "charged" /\ E = <<"sub charged", "org active">>
  <2>1. Len(E) = 2 /\ Len(Tail(E)) = 1 /\ Head(E) = "sub charged" /\ Head(Tail(E)) = "org active"
    BY <1>2, PairFacts
  <2> QED BY <1>2, <2>1, SubWritten, OrgWritten DEF Status, Updates
<1>3. CASE type = "completed" /\ E = <<"sub locked", "org locked">>
  <2>1. Len(E) = 2 /\ Len(Tail(E)) = 1 /\ Head(E) = "sub locked" /\ Head(Tail(E)) = "org locked"
    BY <1>3, PairFacts
  <2> QED BY <1>3, <2>1, SubWritten, OrgWritten DEF Status, Updates
<1>4. CASE type = "failed" /\ E = <<"sub grace">>
  <2>1. Len(E) = 1 /\ Head(E) = "sub grace"
    BY <1>4, PairFacts
  <2> QED BY <1>4, <2>1, SubWritten DEF Status, Updates
<1> QED BY <1>1, <1>2, <1>3, <1>4, EffectShape

(* The delivery that carries out the last event is alone, and brings the   *)
(* rows to where the gateway is.                                           *)
LEMMA WriteMirror ==
  ASSUME TypeInv, OnceInv, MirrorInv, NEW p \in Procs, NEW w \in SubWrites \cup OrgWrites, Write(p, w)
  PROVE  MirrorInv'
<1> DEFINE k == proc[p].ev
<1> DEFINE type == emitted[k].type
<1> DEFINE E == Effects(type)
<1> DEFINE rest == proc[p].todo
<1>1. /\ Len(emitted) \in Nat /\ ProcOK(proc, Len(emitted)) /\ proc \in [Procs -> Handlers]
      /\ sub \in Subs \cup {NoSub} /\ muddled \in BOOLEAN
  BY DEF TypeInv, WorldOK, ProcOK
<1>2. UNCHANGED <<emitted, seen>> /\ rest # <<>> /\ Head(rest) = w
  BY DEF Write, At
<1>3. CASE muddled'
  BY <1>3, MuddledMirror
<1>4. CASE ~muddled' /\ proc[p].op # "hook"
  <2>1. ~Throws(w) /\ proc' = Advance(p) /\ muddled' = (muddled \/ (<<sub', org'>> # <<sub, org>>))
    BY <1>4 DEF Write
  <2>2. sub' = sub /\ org' = org /\ muddled' = muddled
    BY <1>1, <1>4, <2>1
  <2>3. Untouched
    BY <1>1, <1>4, <2>1, UntouchedEnds
  <2>4. \A q \in Procs \ {p} : proc'[q] = proc[q]
    BY <1>1, <1>2, <2>1, StepSpot
  <2>5. Kept
    BY <1>4, <2>4, KeptElsewhere DEF Applying
  <2> QED BY <1>2, <2>2, <2>3, <2>5, MirrorStays
<1>5. CASE ~muddled' /\ proc[p].op = "hook"
  <2>1. ~Throws(w) /\ sub' = SubAfter(w) /\ org' = OrgAfter(w, proc[p].saw) /\ proc' = Advance(p) /\ ~muddled
    BY <1>5 DEF Write
  <2>2. Applying(proc[p])
    <3>1. w \notin {"find", "record"}
      BY DEF SubWrites, OrgWrites, Updates
    <3> QED BY <1>2, <1>5, <3>1 DEF Applying
  <2>3. Lasts(k, Known) /\ Behind(rest, type, sub.status)
    BY <2>1, <2>2 DEF MirrorInv
  <2>4. type \in EventTypes /\ E # <<>>
    BY <2>3, KnownOK DEF Lasts
  <2>10. /\ Head(E) \in Updates /\ Status(type) # "none"
         /\ sub \in Subs => SubAfter(Head(E)).status = Status(type)
         /\ type = "failed" => Len(E) = 1
         /\ type # "failed" =>
              /\ Len(E) = 2 /\ Len(Tail(E)) = 1 /\ Head(Tail(E)) \in {"org active", "org locked"}
              /\ sub \in Subs => SubAfter(Head(Tail(E))) = sub
              /\ \A saw : OrgAfter(Head(Tail(E)), saw) = IF type = "completed" THEN "locked" ELSE "active"
    <3> HIDE DEF type
    <3> QED BY <2>4, EffectFacts
  <2> HIDE DEF type, E
  <2>11. 2 # 1 /\ Len(<<>>) # 1
    OBVIOUS
  <2>5. sub \in Subs
    <3>1. CASE rest = E
      <4>1. w \in Updates
        BY <1>2, <2>10, <3>1
      <4> QED BY <1>1, <2>1, <4>1 DEF Throws
    <3>2. CASE sub.status = Status(type)
      <4>1. sub.status # "none"
        BY <2>10, <3>2
      <4> QED BY <1>1, <4>1 DEF NoSub
    <3> QED BY <2>3, <3>1, <3>2 DEF Behind, E
  <2>6. \A q \in Procs \ {p} : proc'[q] = proc[q] /\ ~Applying(proc'[q])
    <3> SUFFICES ASSUME NEW q \in Procs \ {p} PROVE proc'[q] = proc[q] /\ ~Applying(proc'[q])
      OBVIOUS
    <3>1. proc'[q] = proc[q]
      BY <1>1, <1>2, <2>1, StepSpot
    <3>2. ASSUME Applying(proc[q]) PROVE FALSE
      <4>1. Lasts(proc[q].ev, Known) /\ proc[q].ev # k
        BY <2>1, <2>2, <3>2 DEF MirrorInv, OnceInv
      <4>2. Known \subseteq 1..Len(emitted)
        BY KnownOK
      <4> DEFINE j == proc[q].ev
      <4>3. j \in Known /\ k \in Known /\ k <= j /\ j <= k
        BY <2>3, <4>1 DEF Lasts
      <4> HIDE DEF k, j
      <4>4. k \in Nat /\ j \in Nat
        BY <4>2, <4>3
      <4>5. j = k
        BY <4>3, <4>4
      <4> QED BY <4>1, <4>5 DEF j
    <3> QED BY <3>1, <3>2
  <2>7. Known' = Known /\ \A j \in seen' : 1..j \subseteq seen'
    BY <1>2, <2>1 DEF Known, MirrorInv
  <2>8. CASE rest = E /\ type # "failed"
    <3>1. Len(E) = 2 /\ Len(Tail(E)) = 1 /\ Head(Tail(E)) \in {"org active", "org locked"} /\ sub'.status = Status(type)
      BY <1>2, <2>1, <2>5, <2>8, <2>10
    <3>2. proc' = [proc EXCEPT ![p].todo = Tail(E)]
      <4>1. Len(rest) # 1
        BY <2>8, <2>11, <3>1
      <4>2. proc' = [proc EXCEPT ![p].todo = Tail(rest)]
        BY <2>1, <4>1 DEF Advance, Last
      <4> QED BY <2>8, <4>2
    <3>3. proc'[p].op = "hook" /\ proc'[p].ev = k /\ proc'[p].todo = Tail(E)
      BY <1>1, <1>5, <3>2 DEF Handlers
    <3>4. Tail(E) # <<>>
      BY <3>1, <2>11
    <3>5. Applying(proc'[p])
      BY <3>1, <3>3, <3>4 DEF Applying
    <3>6. Behind(proc'[p].todo, emitted'[proc'[p].ev].type, sub'.status)
      BY <1>2, <3>1, <3>3 DEF Behind, E, type
    <3> HIDE DEF k
    <3>7. \A q \in Procs : Applying(proc'[q]) =>
            Lasts(proc'[q].ev, Known') /\ Behind(proc'[q].todo, emitted'[proc'[q].ev].type, sub'.status)
      <4> SUFFICES ASSUME NEW q \in Procs, Applying(proc'[q])
                   PROVE  Lasts(proc'[q].ev, Known') /\ Behind(proc'[q].todo, emitted'[proc'[q].ev].type, sub'.status)
        OBVIOUS
      <4>1. q = p
        BY <2>6
      <4> QED BY <2>3, <2>7, <3>3, <3>6, <4>1
    <3> QED BY <2>7, <3>5, <3>7 DEF MirrorInv
  <2>9. CASE ~(rest = E /\ type # "failed")
    <3>1. Len(rest) = 1 /\ Agrees(type, sub'.status, org')
      <4>1. CASE rest = E /\ type = "failed"
        BY <1>2, <2>1, <2>5, <2>10, <4>1 DEF Agrees
      <4>2. CASE Len(E) = 2 /\ rest = Tail(E) /\ sub.status = Status(type)
        <5>1. type # "failed"
          BY <2>10, <2>11, <4>2
        <5>2. Len(rest) = 1 /\ w = Head(Tail(E))
          BY <1>2, <2>10, <4>2, <5>1
        <5>3. sub' = sub
          BY <2>1, <2>5, <2>10, <5>1, <5>2
        <5>4. org' = IF type = "completed" THEN "locked" ELSE "active"
          BY <2>1, <2>10, <5>1, <5>2
        <5> QED BY <4>2, <5>2, <5>3, <5>4 DEF Agrees
      <4> QED BY <2>3, <2>9, <4>1, <4>2 DEF Behind, E
    <3>2. proc' = Ended(p)
      BY <2>1, <3>1 DEF Advance, Last
    <3>3. ~Applying(proc'[p])
      BY <1>1, <3>2 DEF Ended, Idle, Applying
    <3>4. \A q \in Procs : ~Applying(proc'[q])
      BY <2>6, <3>3
    <3>5. k \in Known' /\ Lasts(k, Known') /\ Agrees(emitted'[k].type, sub'.status, org')
      BY <1>2, <2>3, <2>7, <3>1 DEF Lasts, type
    <3> HIDE DEF k
    <3> QED BY <2>7, <3>4, <3>5 DEF MirrorInv
  <2> QED BY <2>8, <2>9
<1> QED BY <1>3, <1>4, <1>5

(* Events that arrive in their order, each as often as the gateway likes,  *)
(* leave the subscription as the gateway has it, once their handlers are   *)
(* through: no other handler of the API process writes it unnoticed.       *)
THEOREM GatewayIsMirrored == Spec => []MirrorsGateway
<1>1. Init => MirrorInv
  BY DEF Init, BillingInit, MirrorInv, Applying, Idle, Known
<1>2. TypeInv /\ OnceInv /\ MirrorInv /\ [Next]_vars => MirrorInv'
  <2> SUFFICES ASSUME TypeInv, OnceInv, MirrorInv, [Next]_vars PROVE MirrorInv'
    OBVIOUS
  <2>1. ASSUME NEW p \in Procs, BillingStep(p) PROVE MirrorInv'
    BY <2>1, RequestsMirror, FindMirror, RecordMirror, WriteMirror, OtherMirror DEF BillingStep
  <2>2. ASSUME NEW p \in Procs, LockStep(p) PROVE MirrorInv'
    BY <2>2, RequestsMirror, LockStepMirror DEF LockStep
  <2>3. CASE BillingWorld
    BY <2>3, GatewayMirror, BillingWorldMirror DEF BillingWorld
  <2>4. CASE LockWorld
    BY <2>4, LockWorldMirror
  <2>5. CASE UNCHANGED vars
    <3>1. Untouched /\ Kept /\ UNCHANGED <<emitted, seen, org, muddled, sub>>
      BY <2>5 DEF vars, billing, ghosts, Untouched, Kept
    <3> QED BY <3>1, MirrorStays
  <2> QED BY <2>1, <2>2, <2>3, <2>4, <2>5 DEF Next
<1>3. TypeInv /\ MirrorInv => MirrorsGateway
  <2> SUFFICES ASSUME TypeInv, MirrorInv, ~muddled, Known # {},
                      ~\E p \in Api : proc[p].op = "hook" /\ proc[p].todo # <<"find">>
               PROVE  LET last == emitted[CHOOSE k \in Known : \A j \in Known : j <= k].type IN
                      /\ sub.status = CASE last = "completed" -> "locked" [] last = "failed" -> "grace" [] OTHER -> "active"
                      /\ last # "failed" => org = IF last = "completed" THEN "locked" ELSE "active"
    BY DEF MirrorsGateway
  <2>1. \A q \in Procs : ~Applying(proc[q])
    <3> SUFFICES ASSUME NEW q \in Procs, Applying(proc[q]) PROVE FALSE
      OBVIOUS
    <3>1. q \in Api /\ proc[q].op = "hook" /\ Head(proc[q].todo) # "find"
      BY DEF TypeInv, ProcOK, Fits, Applying
    <3>2. Head(<<"find">>) = "find"
      BY PairFacts
    <3> QED BY <3>1, <3>2
  <2>2. PICK k \in Known : Lasts(k, Known) /\ Agrees(emitted[k].type, sub.status, org)
    BY <2>1 DEF MirrorInv
  <2>3. Known \subseteq 1..Len(emitted) /\ Len(emitted) \in Nat
    BY KnownOK
  <2> DEFINE top == CHOOSE i \in Known : \A j \in Known : j <= i
  <2>4. top \in Known /\ \A j \in Known : j <= top
    BY <2>2 DEF Lasts
  <2> HIDE DEF top
  <2>5. top = k
    BY <2>2, <2>3, <2>4 DEF Lasts
  <2>6. Agrees(emitted[top].type, sub.status, org)
    BY <2>2, <2>5
  <2> QED BY <2>6 DEF Agrees, Status, top
<1> QED BY <1>1, <1>2, <1>3, PlatformTypeInvariant, OnceInvariant, PTL DEF Spec
=============================================================================
