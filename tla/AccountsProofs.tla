--------------------------- MODULE AccountsProofs ----------------------------
(***************************************************************************)
(* The safety of sign-in, memberships and revocation, as theorems of the   *)
(* specification of Console.  ProcInv says which awaits a handler of this  *)
(* module may have left, and that any other has none of them: what the     *)
(* rest of the console does then takes no part (Aside).  RowInv types the  *)
(* rows, RefInv says which of them a handler holds on to.  Catalogued sums *)
(* up what a step of the console can do to the rows; the invariants of     *)
(* codes, tokens, homes and members go through its cases.                  *)
(***************************************************************************)
EXTENDS Console, FiniteSetTheorems, SequenceTheorems, WellFoundedInduction, TLAPS

Fields == {"op", "no", "by", "who", "org", "id", "saw", "todo", "marks", "locks"}
AccountOps == {"send", "verify", "google", "invite", "remove", "role", "logout", "suspend", "reset", "delete",
               "impersonate", "found"}
AccountSteps ==
  {"upsert user", "store code", "find code", "count", "spend", "sweep codes", "find user", "make user", "home",
   "make org", "subscribe", "join", "sign", "not a member", "seats", "add", "find member", "drop", "set role",
   "leave", "revoke token", "suspend", "cut", "reset", "drop sub", "drop members", "drop org", "impersonate"}
(* The steps of the rest of the console, and those that all share.         *)
NicheWords == {"token", "begin", "mark day", "lock day", "commit", "find niche", "write", "delete niche", "create view",
               "update view", "delete view"}
TableWords == {"find offer", "find icp", "create offer", "create icp", "update offer", "update icp", "seed offer",
               "seed icp", "validate", "put a", "put b", "ensure", "bump"}
ListWords == {"load", "next", "find mail", "call", "rewrite", "write lead", "signals", "tech", "count rows", "find rows",
              "answer list", "cards", "answer kpis"}
PageWords == {"serve latest", "latest", "sweep runs", "serve run", "refused", "started", "serve unlock", "unlocked"}
DeskWords == {"serve rows", "rows", "serve detail", "detail", "find lead", "patch", "note saved", "reject", "rejected",
              "dry run", "confirm"}
OtherWords == NicheWords \cup TableWords \cup ListWords \cup PageWords \cup DeskWords
OtherSteps == OtherWords \cup {"enter", "context"}
Steps == AccountSteps \cup {"enter", "context"}

(* The steps a handler of a kind may have left.                            *)
May(op, step) ==
  \/ op = "send" /\ step \in {"upsert user", "store code"}
  \/ op = "verify" /\ step \in {"find code", "count", "spend", "sweep codes", "home", "make org", "subscribe",
                                "join", "sign"}
  \/ op = "google" /\ step \in {"find user", "make user", "home", "make org", "subscribe", "join"}
  \/ op = "invite" /\ step \in {"enter", "context", "upsert user", "not a member", "seats", "add"}
  \/ op = "remove" /\ step \in {"enter", "context", "find member", "drop"}
  \/ op = "role" /\ step \in {"enter", "context", "set role"}
  \/ op = "logout" /\ step \in {"leave", "revoke token"}
  \/ op = "suspend" /\ step \in {"suspend", "cut"}
  \/ op = "reset" /\ step = "reset"
  \/ op = "delete" /\ step \in {"cut", "drop sub", "drop members", "drop org"}
  \/ op = "impersonate" /\ step = "impersonate"

(* The steps that come right after a step in some program.                 *)
Then(step, next) ==
  \/ step = "upsert user" /\ next \in {"store code", "not a member"}
  \/ step = "spend" /\ next = "sweep codes"
  \/ step \in {"sweep codes", "make user"} /\ next = "home"
  \/ step = "make org" /\ next = "subscribe"
  \/ step = "subscribe" /\ next = "join"
  \/ step = "join" /\ next = "sign"
  \/ step = "enter" /\ next = "context"
  \/ step = "context" /\ next \in {"upsert user", "find member", "set role"}
  \/ step = "not a member" /\ next = "seats"
  \/ step = "seats" /\ next = "add"
  \/ step = "find member" /\ next = "drop"
  \/ step = "leave" /\ next = "revoke token"
  \/ step = "suspend" /\ next = "cut"
  \/ step = "cut" /\ next = "drop sub"
  \/ step = "drop sub" /\ next = "drop members"
  \/ step = "drop members" /\ next = "drop org"

Program(op, t) ==
  /\ t \in Seq(Steps)
  /\ \A i \in 1..Len(t) : May(op, t[i])
  /\ \A i \in 1..Len(t) - 1 : Then(t[i], t[i + 1])

(* A handler of this module, and one of another.                           *)
Inside(r) == DOMAIN r = Fields /\ r.op \in AccountOps /\ Program(r.op, r.todo)
Away(r) == DOMAIN r = Fields /\ r.op \notin AccountOps /\ r.todo \in Seq(OtherSteps)
ProcInv == DOMAIN proc = Handlers /\ \A p \in Handlers : Inside(proc[p]) \/ Away(proc[p])

(* The rows.                                                               *)
OrgRow == [status : {"open", "suspended", "gone"}, sub : BOOLEAN, cutAt : Nat, cutUntil : Nat,
           doomed : BOOLEAN, demoted : BOOLEAN]
CodeRow == [user : Nat, state : {"live", "used", "gone"}, late : BOOLEAN, tries : Nat,
            reads : Nat, overlaps : Nat, settled : Nat]
MemberRow == [id : Nat, org : Nat, user : Nat, role : Roles, made : BOOLEAN]
TokenRow == [user : Nat, org : Nat, role : Roles, staff : BOOLEAN, at : Nat, exp : Nat, denied : Nat, out : BOOLEAN]
RowInv ==
  /\ orgs \in Seq(OrgRow) /\ codes \in Seq(CodeRow) /\ sessions \in Seq(TokenRow)
  /\ members \subseteq MemberRow /\ IsFiniteSet(members)
  /\ now \in Nat /\ calls \in Nat /\ slips \in [home : Nat, seat : Nat]
  /\ \A m \in members : m.org \in DOMAIN orgs
  /\ \A s \in DOMAIN sessions : sessions[s].org \in DOMAIN orgs

MemberOps == {"invite", "remove", "role"}
AdminOps == {"suspend", "reset", "delete", "impersonate"}
Founds(p) == At(p, "subscribe") \/ At(p, "join")
(* What a handler of this module refers to.                                *)
Refers(p) ==
  /\ proc[p].who \in Nat /\ proc[p].saw \in Nat /\ proc[p].no \in Nat
  /\ At(p, "count") \/ At(p, "spend") => proc[p].id \in DOMAIN codes
  /\ Founds(p) \/ At(p, "sign") \/ proc[p].op \in AdminOps => proc[p].org \in DOMAIN orgs
  /\ proc[p].op \in MemberOps => /\ proc[p].by \in DOMAIN sessions
                                 /\ proc[p].org = sessions[proc[p].by].org
RefInv == RowInv /\ \A p \in Handlers : proc[p].op \in AccountOps => Refers(p)

-----------------------------------------------------------------------------
(* Verifications between their read and their count are counted with the   *)
(* guesses settled, and bounded by what each of them has read as well: its *)
(* count may put tries back to that.                                       *)
CodeInv == \A k \in DOMAIN codes :
  /\ codes[k].settled + Cardinality(Comparing(k)) <= Attempts + codes[k].overlaps
  /\ codes[k].state = "live" =>
       /\ codes[k].tries < Attempts
       /\ codes[k].settled <= codes[k].tries + codes[k].overlaps
       /\ \A p \in Comparing(k) :
            codes[k].settled + Cardinality(Comparing(k)) <= proc[p].saw + codes[k].overlaps + 1

(* A key outlives what was signed before it.                               *)
TokenInv ==
  /\ \A o \in DOMAIN orgs : orgs[o].cutAt = 0 \/ orgs[o].cutUntil = orgs[o].cutAt + Week
  /\ \A s \in DOMAIN sessions : /\ sessions[s].exp % 2 = 0
                                /\ sessions[s].exp <= Second(sessions[s].at) + Week
                                /\ sessions[s].out => sessions[s].exp <= sessions[s].denied

(* The first sign-ins about to make a home count with the homes.           *)
MadeFor(u) == {m \in HomesOf(u) : m.made}
HomeInv == \A u \in Nat : Cardinality(MadeFor(u)) + Cardinality(FoundsFor(u)) <= 1 + slips.home

(* An organisation that people have come into, or are let into.            *)
SessionsOf(o) == {s \in DOMAIN sessions : sessions[s].org = o}
Settled(o) == MembersOf(o) # {} \/ SessionsOf(o) # {} \/ \E p \in Handlers : At(p, "sign") /\ proc[p].org = o
FreshInv == \A p \in Handlers : Founds(p) =>
  /\ ~Settled(proc[p].org)
  /\ \A q \in Handlers \ {p} : Founds(q) => proc[q].org # proc[p].org
CompleteInv ==
  /\ \A o \in DOMAIN orgs : Settled(o) => orgs[o].sub \/ orgs[o].doomed
  /\ \A p \in Handlers : /\ At(p, "join") => orgs[proc[p].org].sub \/ orgs[proc[p].org].doomed
                         /\ At(p, "drop sub") \/ At(p, "drop members") => orgs[proc[p].org].doomed
(* Invitations past the check of seats count with the members.             *)
SeatInv == \A o \in DOMAIN orgs :
  ~orgs[o].doomed => Cardinality(MembersOf(o)) + Cardinality(Adding(o)) <= Seats + slips.seat
UniqueInv == \A m, n \in members : m.org = n.org /\ m.user = n.user => m = n
Dropping(m) == \E p \in Handlers : At(p, "drop") /\ proc[p].org = m.org /\ proc[p].who = m.user /\ proc[p].id = m.id
(* There is an owner whom no removal under way takes away.                 *)
OwnerInv == \A o \in DOMAIN orgs : Settled(o) /\ ~orgs[o].demoted /\ ~orgs[o].doomed =>
  \E m \in Owners(o) : ~Dropping(m)

-----------------------------------------------------------------------------
(* Programs *)

(* What is left of a program is a program, and begins with a step that may *)
(* come next.                                                              *)
LEMMA TailProgram ==
  ASSUME NEW op, NEW t, Program(op, t), t # <<>>
  PROVE  /\ May(op, Head(t))
         /\ Program(op, Tail(t))
         /\ Tail(t) # <<>> => May(op, Head(Tail(t))) /\ Then(Head(t), Head(Tail(t)))
<1>1. /\ t \in Seq(Steps) /\ Len(t) \in Nat \ {0} /\ Tail(t) \in Seq(Steps)
      /\ Len(Tail(t)) = Len(t) - 1
      /\ \A i \in 1..Len(Tail(t)) : Tail(t)[i] = t[i + 1]
  BY HeadTailProperties, EmptySeq DEF Program
<1>2. Head(t) = t[1] /\ (Tail(t) # <<>> => Len(Tail(t)) # 0 /\ Head(Tail(t)) = Tail(t)[1])
  BY <1>1, EmptySeq
<1>3. \A i \in 1..Len(Tail(t)) : May(op, Tail(t)[i])
  BY <1>1 DEF Program
<1>4. \A i \in 1..Len(Tail(t)) - 1 : Then(Tail(t)[i], Tail(t)[i + 1])
  <2> SUFFICES ASSUME NEW i \in 1..Len(Tail(t)) - 1 PROVE Then(Tail(t)[i], Tail(t)[i + 1])
    OBVIOUS
  <2>1. i + 1 \in 1..Len(t) - 1 /\ Tail(t)[i] = t[i + 1] /\ Tail(t)[i + 1] = t[(i + 1) + 1]
    BY <1>1
  <2> QED BY <2>1 DEF Program
<1> QED BY <1>1, <1>2, <1>3, <1>4 DEF Program

LEMMA NoProgram == \A op : Program(op, <<>>)
  BY EmptySeq DEF Program

LEMMA OneStep ==
  ASSUME NEW op, NEW a \in Steps, May(op, a)
  PROVE  Program(op, <<a>>)
  BY DEF Program

(* A sequence of at most six steps, step by step.                          *)
LEMMA ListProgram ==
  ASSUME NEW op, NEW t \in Seq(Steps), NEW n \in 1..6, Len(t) = n,
         1 <= n => May(op, t[1]),
         2 <= n => May(op, t[2]) /\ Then(t[1], t[2]),
         3 <= n => May(op, t[3]) /\ Then(t[2], t[3]),
         4 <= n => May(op, t[4]) /\ Then(t[3], t[4]),
         5 <= n => May(op, t[5]) /\ Then(t[4], t[5]),
         6 <= n => May(op, t[6]) /\ Then(t[5], t[6])
  PROVE  Program(op, t)
<1>1. Len(t) \in 1..6
  OBVIOUS
<1>2. \A i \in 1..Len(t) : May(op, t[i])
  <2> SUFFICES ASSUME NEW i \in 1..Len(t) PROVE May(op, t[i])
    OBVIOUS
  <2>1. i \in {1, 2, 3, 4, 5, 6}
    BY <1>1
  <2> QED BY <1>1, <2>1
<1>3. \A i \in 1..Len(t) - 1 : Then(t[i], t[i + 1])
  <2> SUFFICES ASSUME NEW i \in 1..Len(t) - 1 PROVE Then(t[i], t[i + 1])
    OBVIOUS
  <2>1. i = 1 \/ i = 2 \/ i = 3 \/ i = 4 \/ i = 5
    BY <1>1
  <2>2. CASE i = 1
    BY <1>1, <2>2
  <2>3. CASE i = 2
    BY <1>1, <2>3
  <2>4. CASE i = 3
    BY <1>1, <2>4
  <2>5. CASE i = 4
    BY <1>1, <2>5
  <2>6. CASE i = 5
    BY <1>1, <2>6
  <2> QED BY <2>1, <2>2, <2>3, <2>4, <2>5, <2>6
<1> QED BY <1>2, <1>3 DEF Program

(* What lets an owner in, before what the owner asked for.                 *)
LEMMA StepsBefore ==
  ASSUME NEW op, NEW a \in Steps, NEW b \in Steps, NEW v, Program(op, v), v # <<>>,
         May(op, a), May(op, b), Then(a, b), Then(b, v[1])
  PROVE  Program(op, <<a, b>> \o v)
<1> DEFINE t == <<a, b>> \o v
<1>1. v \in Seq(Steps) /\ Len(v) \in Nat \ {0} /\ t \in Seq(Steps) /\ Len(t) = Len(v) + 2
  BY EmptySeq DEF Program
<1>2. t[1] = a /\ t[2] = b /\ \A i \in 1..Len(v) : t[i + 2] = v[i]
  BY <1>1
<1> HIDE DEF t
<1>3. ASSUME NEW i \in 1..Len(t) PROVE i \in {1, 2} \/ (i - 2 \in 1..Len(v) /\ t[i] = v[i - 2])
  <2>1. (i - 2) + 2 = i
    BY <1>1
  <2> QED BY <1>1, <1>2, <2>1
<1>4. \A i \in 1..Len(t) : May(op, t[i])
  BY <1>1, <1>2, <1>3 DEF Program
<1>5. \A i \in 1..Len(t) - 1 : Then(t[i], t[i + 1])
  <2> SUFFICES ASSUME NEW i \in 1..Len(t) - 1 PROVE Then(t[i], t[i + 1])
    OBVIOUS
  <2>1. CASE i = 1
    BY <1>2, <2>1
  <2>2. CASE i = 2
    <3>1. t[1 + 2] = v[1] /\ 1 + 2 = 3
      BY <1>1, <1>2
    <3> QED BY <1>2, <2>2, <3>1
  <2>3. CASE i \notin {1, 2}
    <3>1. i - 2 \in 1..Len(v) - 1 /\ t[i] = v[i - 2] /\ t[i + 1] = v[(i + 1) - 2] /\ (i + 1) - 2 = (i - 2) + 1
      BY <1>1, <1>3, <2>3
    <3> QED BY <3>1 DEF Program
  <2> QED BY <2>1, <2>2, <2>3
<1> QED BY <1>1, <1>4, <1>5 DEF Program, t

LEMMA AfterContext ==
  ASSUME NEW op \in {"invite", "remove", "role"}, NEW v, Program(op, v), v # <<>>,
         v[1] \in {"upsert user", "find member", "set role"}
  PROVE  Program(op, <<"enter", "context">> \o v)
<1>1. "enter" \in Steps /\ "context" \in Steps /\ May(op, "enter") /\ May(op, "context")
  BY DEF Steps, May
<1>2. Then("enter", "context") /\ Then("context", v[1])
  BY DEF Then
<1> QED BY <1>1, <1>2, StepsBefore

(* The programs that are begun, or gone on with.                           *)
LEMMA SendProgram == Program("send", <<"upsert user", "store code">>)
<1> DEFINE t == <<"upsert user", "store code">>
<1>1. t \in Seq(Steps) /\ Len(t) = 2
  BY DEF Steps, AccountSteps
<1>2. t[1] = "upsert user" /\ t[2] = "store code"
  OBVIOUS
<1> HIDE DEF t
<1>3. SUFFICES ASSUME NEW op, op = "send" PROVE Program(op, t)
  BY DEF t
<1>4. May(op, t[1]) /\ May(op, t[2])
  BY <1>2, <1>3 DEF May
<1>5. Then(t[1], t[2])
  BY <1>2 DEF Then
<1> QED BY <1>1, <1>4, <1>5, ListProgram

LEMMA VerifyProgram == Program("verify", <<"spend", "sweep codes", "home">>)
<1> DEFINE t == <<"spend", "sweep codes", "home">>
<1>1. t \in Seq(Steps) /\ Len(t) = 3
  BY DEF Steps, AccountSteps
<1>2. t[1] = "spend" /\ t[2] = "sweep codes" /\ t[3] = "home"
  OBVIOUS
<1> HIDE DEF t
<1>3. SUFFICES ASSUME NEW op, op = "verify" PROVE Program(op, t)
  BY DEF t
<1>4. May(op, t[1]) /\ May(op, t[2]) /\ May(op, t[3])
  BY <1>2, <1>3 DEF May
<1>5. Then(t[1], t[2]) /\ Then(t[2], t[3])
  BY <1>2 DEF Then
<1> QED BY <1>1, <1>4, <1>5, ListProgram

LEMMA GoogleProgram == Program("google", <<"make user", "home">>)
<1> DEFINE t == <<"make user", "home">>
<1>1. t \in Seq(Steps) /\ Len(t) = 2
  BY DEF Steps, AccountSteps
<1>2. t[1] = "make user" /\ t[2] = "home"
  OBVIOUS
<1> HIDE DEF t
<1>3. SUFFICES ASSUME NEW op, op = "google" PROVE Program(op, t)
  BY DEF t
<1>4. May(op, t[1]) /\ May(op, t[2])
  BY <1>2, <1>3 DEF May
<1>5. Then(t[1], t[2])
  BY <1>2 DEF Then
<1> QED BY <1>1, <1>4, <1>5, ListProgram

LEMMA FoundProgram == Program("google", Founding \o <<>>)
<1> DEFINE t == Founding \o <<>>
<1>1. t \in Seq(Steps) /\ Len(t) = 3
  BY DEF Steps, AccountSteps, Founding
<1>2. t[1] = "make org" /\ t[2] = "subscribe" /\ t[3] = "join"
  BY DEF Founding
<1> HIDE DEF t
<1>3. SUFFICES ASSUME NEW op, op = "google" PROVE Program(op, t)
  BY DEF t
<1>4. May(op, t[1]) /\ May(op, t[2]) /\ May(op, t[3])
  BY <1>2, <1>3 DEF May
<1>5. Then(t[1], t[2]) /\ Then(t[2], t[3])
  BY <1>2 DEF Then
<1> QED BY <1>1, <1>4, <1>5, ListProgram

LEMMA SignProgram == Program("verify", Founding \o <<"sign">>)
<1> DEFINE t == Founding \o <<"sign">>
<1>1. t \in Seq(Steps) /\ Len(t) = 4
  BY DEF Steps, AccountSteps, Founding
<1>2. t[1] = "make org" /\ t[2] = "subscribe" /\ t[3] = "join" /\ t[4] = "sign"
  BY DEF Founding
<1> HIDE DEF t
<1>3. SUFFICES ASSUME NEW op, op = "verify" PROVE Program(op, t)
  BY DEF t
<1>4. May(op, t[1]) /\ May(op, t[2]) /\ May(op, t[3]) /\ May(op, t[4])
  BY <1>2, <1>3 DEF May
<1>5. Then(t[1], t[2]) /\ Then(t[2], t[3]) /\ Then(t[3], t[4])
  BY <1>2 DEF Then
<1> QED BY <1>1, <1>4, <1>5, ListProgram

LEMMA InviteProgram == Program("invite", <<"enter", "context">> \o <<"upsert user", "not a member", "seats", "add">>)
<1> DEFINE t == <<"upsert user", "not a member", "seats", "add">>
<1>1. t \in Seq(Steps) /\ Len(t) = 4
  BY DEF Steps, AccountSteps
<1>2. t[1] = "upsert user" /\ t[2] = "not a member" /\ t[3] = "seats" /\ t[4] = "add"
  OBVIOUS
<1> HIDE DEF t
<1>3. SUFFICES ASSUME NEW op, op = "invite" PROVE Program(op, <<"enter", "context">> \o t)
  BY DEF t
<1>4. May(op, t[1]) /\ May(op, t[2]) /\ May(op, t[3]) /\ May(op, t[4])
  BY <1>2, <1>3 DEF May
<1>5. Then(t[1], t[2]) /\ Then(t[2], t[3]) /\ Then(t[3], t[4])
  BY <1>2 DEF Then
<1>6. Program(op, t) /\ t # <<>>
  BY <1>1, <1>4, <1>5, ListProgram
<1> QED BY <1>2, <1>3, <1>6, AfterContext

LEMMA RemoveProgram == Program("remove", <<"enter", "context">> \o <<"find member", "drop">>)
<1> DEFINE t == <<"find member", "drop">>
<1>1. t \in Seq(Steps) /\ Len(t) = 2
  BY DEF Steps, AccountSteps
<1>2. t[1] = "find member" /\ t[2] = "drop"
  OBVIOUS
<1> HIDE DEF t
<1>3. SUFFICES ASSUME NEW op, op = "remove" PROVE Program(op, <<"enter", "context">> \o t)
  BY DEF t
<1>4. May(op, t[1]) /\ May(op, t[2])
  BY <1>2, <1>3 DEF May
<1>5. Then(t[1], t[2])
  BY <1>2 DEF Then
<1>6. Program(op, t) /\ t # <<>>
  BY <1>1, <1>4, <1>5, ListProgram
<1> QED BY <1>2, <1>3, <1>6, AfterContext

LEMMA RoleProgram == Program("role", <<"enter", "context">> \o <<"set role">>)
<1> DEFINE t == <<"set role">>
<1>1. t \in Seq(Steps) /\ Len(t) = 1
  BY DEF Steps, AccountSteps
<1>2. t[1] = "set role"
  OBVIOUS
<1> HIDE DEF t
<1>3. SUFFICES ASSUME NEW op, op = "role" PROVE Program(op, <<"enter", "context">> \o t)
  BY DEF t
<1>4. May(op, t[1])
  BY <1>2, <1>3 DEF May
<1>5. Program(op, t) /\ t # <<>>
  BY <1>1, <1>4, ListProgram
<1> QED BY <1>2, <1>3, <1>5, AfterContext

LEMMA LogoutProgram == Program("logout", <<"leave", "revoke token">>)
<1> DEFINE t == <<"leave", "revoke token">>
<1>1. t \in Seq(Steps) /\ Len(t) = 2
  BY DEF Steps, AccountSteps
<1>2. t[1] = "leave" /\ t[2] = "revoke token"
  OBVIOUS
<1> HIDE DEF t
<1>3. SUFFICES ASSUME NEW op, op = "logout" PROVE Program(op, t)
  BY DEF t
<1>4. May(op, t[1]) /\ May(op, t[2])
  BY <1>2, <1>3 DEF May
<1>5. Then(t[1], t[2])
  BY <1>2 DEF Then
<1> QED BY <1>1, <1>4, <1>5, ListProgram

LEMMA SuspendProgram == Program("suspend", <<"suspend", "cut">>)
<1> DEFINE t == <<"suspend", "cut">>
<1>1. t \in Seq(Steps) /\ Len(t) = 2
  BY DEF Steps, AccountSteps
<1>2. t[1] = "suspend" /\ t[2] = "cut"
  OBVIOUS
<1> HIDE DEF t
<1>3. SUFFICES ASSUME NEW op, op = "suspend" PROVE Program(op, t)
  BY DEF t
<1>4. May(op, t[1]) /\ May(op, t[2])
  BY <1>2, <1>3 DEF May
<1>5. Then(t[1], t[2])
  BY <1>2 DEF Then
<1> QED BY <1>1, <1>4, <1>5, ListProgram

LEMMA DeleteProgram == Program("delete", <<"cut", "drop sub", "drop members", "drop org">>)
<1> DEFINE t == <<"cut", "drop sub", "drop members", "drop org">>
<1>1. t \in Seq(Steps) /\ Len(t) = 4
  BY DEF Steps, AccountSteps
<1>2. t[1] = "cut" /\ t[2] = "drop sub" /\ t[3] = "drop members" /\ t[4] = "drop org"
  OBVIOUS
<1> HIDE DEF t
<1>3. SUFFICES ASSUME NEW op, op = "delete" PROVE Program(op, t)
  BY DEF t
<1>4. May(op, t[1]) /\ May(op, t[2]) /\ May(op, t[3]) /\ May(op, t[4])
  BY <1>2, <1>3 DEF May
<1>5. Then(t[1], t[2]) /\ Then(t[2], t[3]) /\ Then(t[3], t[4])
  BY <1>2 DEF Then
<1> QED BY <1>1, <1>4, <1>5, ListProgram

(* Programs of one step.                                                   *)
LEMMA ShortPrograms ==
  /\ Program("verify", <<"find code">>) /\ Program("verify", <<"count">>) /\ Program("verify", <<"sign">>)
  /\ Program("google", <<"find user">>) /\ Program("google", <<"home">>)
  /\ Program("reset", <<"reset">>) /\ Program("impersonate", <<"impersonate">>)
  BY OneStep DEF May, Steps, AccountSteps
-----------------------------------------------------------------------------
(* Handlers *)

LEMMA IdleAway == Away(Idle) /\ Idle.op = "idle" /\ Idle.todo = <<>>
<1>1. "idle" \notin AccountOps
  BY DEF AccountOps
<1> QED BY <1>1, EmptySeq DEF Away, Idle, Fields

(* All but p stay as they are.                                             *)
Only(p) == DOMAIN proc' = Handlers /\ \A q \in Handlers \ {p} : proc'[q] = proc[q]
(* p goes on with what is left to do, or is done.                          *)
GoesOn(p) ==
  /\ Only(p)
  /\ \/ proc'[p] = Idle
     \/ /\ \A f \in Fields \ {"todo"} : proc'[p][f] = proc[p][f]
        /\ proc'[p].todo = Tail(proc[p].todo) /\ proc'[p].todo # <<>>
Moved(p) == GoesOn(p) \/ proc' = Died

LEMMA OnlyOK ==
  ASSUME ProcInv, NEW p \in Handlers, Only(p), Inside(proc'[p]) \/ Away(proc'[p])
  PROVE  ProcInv'
  BY DEF ProcInv, Only, Inside, Away, Program

LEMMA DiedOK ==
  ASSUME proc' = Died
  PROVE  ProcInv'
  BY IdleAway DEF ProcInv, Died, Inside, Away, Program

LEMMA SetOK ==
  ASSUME ProcInv, NEW p \in Handlers, NEW r, proc' = [proc EXCEPT ![p] = r]
  PROVE  Only(p) /\ proc'[p] = r
  BY DEF ProcInv, Only

(* The fields of a record with one of them changed.                        *)
LEMMA TodoChanged ==
  ASSUME NEW r, DOMAIN r = Fields, NEW t
  PROVE  /\ DOMAIN [r EXCEPT !.todo = t] = Fields /\ [r EXCEPT !.todo = t].todo = t
         /\ \A f \in Fields \ {"todo"} : [r EXCEPT !.todo = t][f] = r[f]
         /\ [r EXCEPT !.todo = t].op = r.op
<1>1. "todo" \in Fields /\ "op" \in Fields
  BY DEF Fields
<1> QED BY <1>1

LEMMA TailOK ==
  ASSUME NEW r, Inside(r) \/ Away(r), r.todo # <<>>
  PROVE  LET n == [r EXCEPT !.todo = Tail(@)] IN
         /\ Inside(r) => Inside(n) /\ May(r.op, Head(r.todo))
         /\ Away(r) => Away(n)
<1> DEFINE n == [r EXCEPT !.todo = Tail(@)]
<1>1. DOMAIN n = Fields /\ n.todo = Tail(r.todo) /\ n.op = r.op
  BY TodoChanged DEF Inside, Away
<1>2. Inside(r) => Inside(n) /\ May(r.op, Head(r.todo))
  BY <1>1, TailProgram DEF Inside
<1>3. Away(r) => Away(n)
  <2> SUFFICES ASSUME Away(r) PROVE Tail(r.todo) \in Seq(OtherSteps)
    BY <1>1 DEF Away
  <2> QED BY HeadTailProperties DEF Away
<1> QED BY <1>2, <1>3

LEMMA TailSet ==
  ASSUME ProcInv, NEW p \in Handlers, proc[p].todo # <<>>, proc' = [proc EXCEPT ![p].todo = Tail(@)]
  PROVE  /\ Only(p) /\ proc'[p] = [proc[p] EXCEPT !.todo = Tail(@)]
         /\ DOMAIN proc[p] = Fields
  BY DEF ProcInv, Only, Inside, Away

LEMMA EndedOK ==
  ASSUME ProcInv, NEW p \in Handlers, proc' = Ended(p)
  PROVE  GoesOn(p) /\ ProcInv'
  BY SetOK, OnlyOK, IdleAway DEF Ended, GoesOn

LEMMA AdvanceOK ==
  ASSUME ProcInv, NEW p \in Handlers, proc[p].todo # <<>>, proc' = Advance(p)
  PROVE  GoesOn(p) /\ ProcInv'
<1>1. Inside(proc[p]) \/ Away(proc[p])
  BY DEF ProcInv
<1>2. CASE proc' = Ended(p)
  BY <1>2, EndedOK
<1>3. CASE proc' = [proc EXCEPT ![p].todo = Tail(@)] /\ Len(proc[p].todo) # 1
  <2>1. Only(p) /\ proc'[p] = [proc[p] EXCEPT !.todo = Tail(@)] /\ DOMAIN proc[p] = Fields
    BY <1>3, TailSet
  <2>2. Inside(proc'[p]) \/ Away(proc'[p])
    BY <1>1, <2>1, TailOK
  <2>3. proc'[p].todo = Tail(proc[p].todo) /\ \A f \in Fields \ {"todo"} : proc'[p][f] = proc[p][f]
    BY <2>1, TodoChanged
  <2>4. Tail(proc[p].todo) # <<>>
    <3>1. PICK S : proc[p].todo \in Seq(S)
      BY <1>1 DEF Inside, Away, Program
    <3>2. Len(Tail(proc[p].todo)) = Len(proc[p].todo) - 1 /\ Len(proc[p].todo) \in Nat
      BY <3>1, HeadTailProperties
    <3>3. Len(Tail(proc[p].todo)) # 0
      BY <1>3, <3>2
    <3> QED BY <3>3, EmptySeq
  <2> QED BY <2>1, <2>2, <2>3, <2>4, OnlyOK DEF GoesOn
<1> QED BY <1>2, <1>3 DEF Advance

LEMMA ThrownOK ==
  ASSUME ProcInv, NEW p \in Handlers, proc' = Thrown(p)
  PROVE  Moved(p) /\ ProcInv'
  BY EndedOK, DiedOK DEF Thrown, Moved

(* The words of this module and of the others.                             *)
LEMMA OtherWordsApart == \A s \in OtherWords : s \in OtherSteps /\ s \notin Steps /\ s \notin AccountSteps
<1>1. \A s \in NicheWords : s \notin AccountSteps /\ s \notin {"enter", "context"}
  BY DEF NicheWords, AccountSteps
<1>2. \A s \in TableWords : s \notin AccountSteps /\ s \notin {"enter", "context"}
  BY ZenonT(40) DEF TableWords, AccountSteps
<1>3. \A s \in ListWords : s \notin AccountSteps /\ s \notin {"enter", "context"}
  BY ZenonT(40) DEF ListWords, AccountSteps
<1>4. \A s \in PageWords : s \notin AccountSteps /\ s \notin {"enter", "context"}
  BY DEF PageWords, AccountSteps
<1>5. \A s \in DeskWords : s \notin AccountSteps /\ s \notin {"enter", "context"}
  BY DEF DeskWords, AccountSteps
<1> QED BY <1>1, <1>2, <1>3, <1>4, <1>5 DEF OtherWords, OtherSteps, Steps

LEMMA WordsApart == \A s \in AccountSteps : s \notin OtherSteps
<1>1. "enter" \notin AccountSteps /\ "context" \notin AccountSteps
  BY DEF AccountSteps
<1> QED BY <1>1, OtherWordsApart DEF OtherSteps

(* A handler that is at a step of this module is one of this module, ...   *)
LEMMA AtInside ==
  ASSUME ProcInv, NEW p \in Handlers, NEW s \in AccountSteps, At(p, s)
  PROVE  Inside(proc[p]) /\ May(proc[p].op, s)
<1>1. proc[p].todo # <<>> /\ Head(proc[p].todo) = s
  BY DEF At
<1>2. ~Away(proc[p])
  <2> SUFFICES ASSUME Away(proc[p]) PROVE FALSE
    OBVIOUS
  <2>1. Head(proc[p].todo) \in OtherSteps
    BY <1>1, HeadTailProperties DEF Away
  <2> QED BY <2>1, <1>1, WordsApart
<1> QED BY <1>1, <1>2, TailOK DEF ProcInv

(* ... and one at a step of another module is not.                         *)
LEMMA AtAway ==
  ASSUME ProcInv, NEW p \in Handlers, NEW s, At(p, s), s \notin Steps
  PROVE  Away(proc[p])
<1>1. proc[p].todo # <<>> /\ Head(proc[p].todo) = s
  BY DEF At
<1>2. ~Inside(proc[p])
  <2> SUFFICES ASSUME Inside(proc[p]) PROVE FALSE
    OBVIOUS
  <2>1. Head(proc[p].todo) \in Steps
    BY <1>1, HeadTailProperties DEF Inside, Program
  <2> QED BY <1>1, <2>1
<1> QED BY <1>2 DEF ProcInv

(* A free handler is idle.                                                 *)
LEMMA BegunOK ==
  ASSUME ProcInv, NEW p \in Handlers, NEW kind, NEW request, Begin(p, kind, request),
         DOMAIN request = Fields,
         \/ request.op \in AccountOps /\ Program(request.op, request.todo)
         \/ request.op \notin AccountOps /\ request.todo \in Seq(OtherSteps)
  PROVE  /\ Only(p) /\ proc[p].todo = <<>> /\ ProcInv'
         /\ \A f \in Fields \ {"no"} : proc'[p][f] = request[f]
         /\ proc'[p].no = calls + 1
<1> DEFINE r == [request EXCEPT !.no = calls + 1]
<1>1. proc' = [proc EXCEPT ![p] = r] /\ p \notin Busy
  BY DEF Begin
<1>2. DOMAIN r = Fields /\ r.no = calls + 1 /\ \A f \in Fields \ {"no"} : r[f] = request[f]
  BY DEF Fields
<1>3. r.op = request.op /\ r.todo = request.todo
  BY <1>2 DEF Fields
<1>4. Only(p) /\ proc'[p] = r
  BY <1>1, SetOK
<1>5. Inside(r) \/ Away(r)
  BY <1>2, <1>3 DEF Inside, Away
<1>6. proc[p].todo = <<>>
  BY <1>1 DEF Busy
<1> QED BY <1>2, <1>4, <1>5, <1>6, OnlyOK
-----------------------------------------------------------------------------
(* The rest of the console takes no part: it changes no row of this module, *)
(* and leaves its handlers alone, or ends them with their process.         *)
AsideProc == DOMAIN proc' = Handlers /\ \A q \in Handlers : proc'[q] = proc[q] \/ Away(proc'[q])
Aside ==
  /\ UNCHANGED <<accounts, menu>> /\ (calls' = calls \/ calls' = calls + 1)
  /\ AsideProc

LEMMA OtherOps ==
  \A op \in {"niche", "legacy", "view", "single", "boot", "config", "metric", "retry", "list", "kpis", "latest",
             "run", "unlock", "rows", "detail", "note", "bulk", "dry"} : op \notin AccountOps
  BY DEF AccountOps

LEMMA Enters == "enter" \in OtherSteps /\ "context" \in OtherSteps
  BY DEF OtherSteps

LEMMA NobodyMoves == ProcInv /\ proc' = proc => AsideProc
  BY DEF ProcInv, AsideProc

LEMMA OneAside ==
  ASSUME ProcInv, NEW p \in Handlers, Only(p), Away(proc'[p])
  PROVE  AsideProc
  BY DEF Only, AsideProc

LEMMA AsideEnded ==
  ASSUME ProcInv, NEW p \in Handlers, proc' = Ended(p)
  PROVE  AsideProc
  BY SetOK, IdleAway, OneAside DEF Ended

LEMMA AsideThrown ==
  ASSUME ProcInv, NEW p \in Handlers, proc' = Thrown(p)
  PROVE  AsideProc
<1>1. CASE proc' = Died
  BY <1>1, IdleAway DEF AsideProc, Died
<1> QED BY <1>1, AsideEnded DEF Thrown

LEMMA AsideSet ==
  ASSUME ProcInv, NEW p \in Handlers, Away(proc[p]), NEW t \in Seq(OtherSteps), proc' = [proc EXCEPT ![p].todo = t]
  PROVE  AsideProc
<1>1. Only(p) /\ proc'[p] = [proc[p] EXCEPT !.todo = t]
  BY DEF ProcInv, Only
<1>2. Away(proc'[p])
  BY <1>1, TodoChanged DEF Away
<1> QED BY <1>1, <1>2, OneAside

LEMMA AsideAdvance ==
  ASSUME ProcInv, NEW p \in Handlers, Away(proc[p]), proc[p].todo # <<>>, proc' = Advance(p)
  PROVE  AsideProc
<1>1. Tail(proc[p].todo) \in Seq(OtherSteps)
  BY HeadTailProperties DEF Away
<1>2. CASE proc' = [proc EXCEPT ![p].todo = Tail(@)]
  <2>1. proc' = [proc EXCEPT ![p].todo = Tail(proc[p].todo)]
    BY <1>2 DEF ProcInv
  <2> QED BY <1>1, <2>1, AsideSet
<1> QED BY <1>2, AsideEnded DEF Advance

(* A step that changes other fields too.                                   *)
LEMMA AsideChange ==
  ASSUME ProcInv, NEW p \in Handlers, Away(proc[p]), DOMAIN proc' = Handlers,
         \A q \in Handlers \ {p} : proc'[q] = proc[q],
         DOMAIN proc'[p] = DOMAIN proc[p], proc'[p].op \notin AccountOps, proc'[p].todo \in Seq(OtherSteps)
  PROVE  AsideProc
  BY OneAside DEF Only, Away

LEMMA AsideBegun ==
  ASSUME ProcInv, NEW p \in Handlers, NEW kind, NEW request, Begin(p, kind, request),
         DOMAIN request = Fields, request.op \notin AccountOps, request.todo \in Seq(OtherSteps)
  PROVE  AsideProc /\ menu' = menu /\ calls' = calls + 1
<1> DEFINE r == [request EXCEPT !.no = calls + 1]
<1>1. proc' = [proc EXCEPT ![p] = r] /\ menu' = menu /\ calls' = calls + 1
  BY DEF Begin
<1>2. DOMAIN r = Fields /\ r.op = request.op /\ r.todo = request.todo
  BY DEF Fields
<1>3. Only(p) /\ proc'[p] = r
  BY <1>1, SetOK
<1> QED BY <1>1, <1>2, <1>3, OneAside DEF Away

-----------------------------------------------------------------------------
(* The actions of the other modules *)

(* What a step of another module does to its handler.                      *)
OtherMove(p) ==
  \/ proc' = proc
  \/ proc' = Ended(p) \/ proc' = Thrown(p) \/ proc' = Advance(p)
  \/ \E t \in Seq(OtherSteps) : proc' = [proc EXCEPT ![p].todo = t]
  \/ /\ Only(p) /\ DOMAIN proc'[p] = DOMAIN proc[p]
     /\ proc'[p].op \notin AccountOps /\ proc'[p].todo \in Seq(OtherSteps)
LEMMA AsideStep ==
  ASSUME ProcInv, NEW p \in Handlers, NEW s \in OtherWords, At(p, s), OtherMove(p),
         UNCHANGED <<accounts, menu, calls>>
  PROVE  Aside
<1>1. Away(proc[p]) /\ proc[p].todo # <<>>
  BY AtAway, OtherWordsApart DEF At
<1>2. AsideProc
  BY <1>1, NobodyMoves, AsideEnded, AsideThrown, AsideAdvance, AsideSet, OneAside DEF OtherMove, Away
<1> QED BY <1>2 DEF Aside

LEMMA AsideRequest ==
  ASSUME ProcInv, NEW p \in Handlers, NEW kind, NEW request, Begin(p, kind, request), UNCHANGED accounts,
         DOMAIN request = Fields, request.op \notin AccountOps, request.todo \in Seq(OtherSteps)
  PROVE  Aside
  BY AsideBegun DEF Aside

LEMMA TailAway ==
  ASSUME ProcInv, NEW p \in Handlers, NEW s \in OtherWords, At(p, s)
  PROVE  /\ Away(proc[p]) /\ DOMAIN proc[p] = Fields /\ proc[p].op \notin AccountOps
         /\ Tail(proc[p].todo) \in Seq(OtherSteps)
<1>1. Away(proc[p]) /\ proc[p].todo # <<>>
  BY AtAway, OtherWordsApart DEF At
<1> QED BY <1>1, HeadTailProperties DEF Away

(* A request to the tables of an organisation.                             *)
LEMMA EditAside ==
  ASSUME ProcInv, NEW p \in Handlers, NEW kind, kind \notin AccountOps, NEW id, NEW day,
         NEW program \in Seq(OtherSteps), Edit(p, kind, id, day, program)
  PROVE  Aside
<1> DEFINE request(s, op, first) == [Idle EXCEPT !.op = op, !.by = s, !.org = OrgOf(s),
                                                 !.id = id, !.who = day, !.todo = first \o program]
<1>1. PICK s \in Tokens : \/ Begin(p, kind, request(s, kind, <<"enter", "context">>))
                          \/ Begin(p, kind, request(s, "legacy", <<"token">>))
  BY DEF Edit
<1>2. UNCHANGED accounts
  BY DEF Edit
<1>3. "legacy" \notin AccountOps
  BY DEF AccountOps
<1>4. <<"enter", "context">> \in Seq(OtherSteps) /\ <<"token">> \in Seq(OtherSteps)
  <2>1. "token" \in OtherSteps
    BY OtherWordsApart DEF OtherWords, NicheWords
  <2> QED BY <2>1, Enters
<1>5. ASSUME NEW op, NEW first \in Seq(OtherSteps)
      PROVE  /\ DOMAIN request(s, op, first) = Fields /\ request(s, op, first).op = op
             /\ request(s, op, first).todo \in Seq(OtherSteps)
  <2>1. first \o program \in Seq(OtherSteps)
    OBVIOUS
  <2> QED BY <2>1 DEF Idle, Fields
<1> HIDE DEF request
<1>6. ASSUME NEW op, op \notin AccountOps, NEW first \in Seq(OtherSteps), Begin(p, kind, request(s, op, first))
      PROVE  Aside
  <2>1. /\ DOMAIN request(s, op, first) = Fields /\ request(s, op, first).op \notin AccountOps
        /\ request(s, op, first).todo \in Seq(OtherSteps)
    BY <1>5, <1>6
  <2> QED BY <1>2, <1>6, <2>1, AsideRequest
<1>7. CASE Begin(p, kind, request(s, kind, <<"enter", "context">>))
  BY <1>4, <1>6, <1>7
<1>8. CASE Begin(p, kind, request(s, "legacy", <<"token">>))
  BY <1>3, <1>4, <1>6, <1>8
<1> QED BY <1>1, <1>7, <1>8
(* Facts about words, one by one.                                          *)
LEMMA NicheFacts ==
  /\ "token" \in OtherWords /\ "begin" \in OtherWords /\ "mark day" \in OtherWords /\ "lock day" \in OtherWords
  /\ "commit" \in OtherWords /\ "find niche" \in OtherWords /\ "write" \in OtherWords
  /\ "delete niche" \in OtherWords /\ "create view" \in OtherWords /\ "update view" \in OtherWords
  /\ "delete view" \in OtherWords
  BY DEF OtherWords, NicheWords
LEMMA TableFacts ==
  /\ "find offer" \in OtherWords /\ "find icp" \in OtherWords /\ "create offer" \in OtherWords
  /\ "create icp" \in OtherWords /\ "update offer" \in OtherWords /\ "update icp" \in OtherWords
  /\ "seed offer" \in OtherWords /\ "seed icp" \in OtherWords /\ "validate" \in OtherWords
  /\ "put a" \in OtherWords /\ "put b" \in OtherWords /\ "ensure" \in OtherWords /\ "bump" \in OtherWords
  BY DEF OtherWords, TableWords
LEMMA ListFacts ==
  /\ "load" \in OtherWords /\ "next" \in OtherWords /\ "find mail" \in OtherWords /\ "call" \in OtherWords
  /\ "rewrite" \in OtherWords /\ "write lead" \in OtherWords /\ "signals" \in OtherWords
  /\ "tech" \in OtherWords /\ "count rows" \in OtherWords /\ "find rows" \in OtherWords
  /\ "answer list" \in OtherWords /\ "cards" \in OtherWords /\ "answer kpis" \in OtherWords
  BY DEF OtherWords, ListWords
LEMMA PageFacts ==
  /\ "serve latest" \in OtherWords /\ "latest" \in OtherWords /\ "serve run" \in OtherWords
  /\ "refused" \in OtherWords /\ "started" \in OtherWords /\ "serve unlock" \in OtherWords
  /\ "unlocked" \in OtherWords /\ "sweep runs" \in OtherWords
  BY DEF OtherWords, PageWords
LEMMA DeskFacts ==
  /\ "serve rows" \in OtherWords /\ "rows" \in OtherWords /\ "serve detail" \in OtherWords
  /\ "detail" \in OtherWords /\ "find lead" \in OtherWords /\ "patch" \in OtherWords
  /\ "note saved" \in OtherWords /\ "reject" \in OtherWords /\ "rejected" \in OtherWords
  /\ "dry run" \in OtherWords /\ "confirm" \in OtherWords
  BY DEF OtherWords, DeskWords
LEMMA WordsIn == \A w \in OtherWords : w \in OtherSteps
  BY DEF OtherSteps
LEMMA NicheWordsIn ==
  /\ "token" \in OtherSteps /\ "begin" \in OtherSteps /\ "mark day" \in OtherSteps /\ "lock day" \in OtherSteps
  /\ "commit" \in OtherSteps /\ "find niche" \in OtherSteps /\ "write" \in OtherSteps
  /\ "delete niche" \in OtherSteps /\ "create view" \in OtherSteps /\ "update view" \in OtherSteps
  /\ "delete view" \in OtherSteps
  BY NicheFacts, WordsIn
LEMMA TableWordsIn ==
  /\ "find offer" \in OtherSteps /\ "find icp" \in OtherSteps /\ "create offer" \in OtherSteps
  /\ "create icp" \in OtherSteps /\ "update offer" \in OtherSteps /\ "update icp" \in OtherSteps
  /\ "seed offer" \in OtherSteps /\ "seed icp" \in OtherSteps /\ "validate" \in OtherSteps
  /\ "put a" \in OtherSteps /\ "put b" \in OtherSteps /\ "ensure" \in OtherSteps /\ "bump" \in OtherSteps
  BY TableFacts, WordsIn
LEMMA ListWordsIn ==
  /\ "load" \in OtherSteps /\ "next" \in OtherSteps /\ "find mail" \in OtherSteps /\ "call" \in OtherSteps
  /\ "rewrite" \in OtherSteps /\ "write lead" \in OtherSteps /\ "signals" \in OtherSteps
  /\ "tech" \in OtherSteps /\ "count rows" \in OtherSteps /\ "find rows" \in OtherSteps
  /\ "answer list" \in OtherSteps /\ "cards" \in OtherSteps /\ "answer kpis" \in OtherSteps
  BY ListFacts, WordsIn
LEMMA PageWordsIn ==
  /\ "serve latest" \in OtherSteps /\ "latest" \in OtherSteps /\ "serve run" \in OtherSteps
  /\ "refused" \in OtherSteps /\ "started" \in OtherSteps /\ "serve unlock" \in OtherSteps
  /\ "unlocked" \in OtherSteps /\ "sweep runs" \in OtherSteps
  BY PageFacts, WordsIn
LEMMA DeskWordsIn ==
  /\ "serve rows" \in OtherSteps /\ "rows" \in OtherSteps /\ "serve detail" \in OtherSteps
  /\ "detail" \in OtherSteps /\ "find lead" \in OtherSteps /\ "patch" \in OtherSteps
  /\ "note saved" \in OtherSteps /\ "reject" \in OtherSteps /\ "rejected" \in OtherSteps
  /\ "dry run" \in OtherSteps /\ "confirm" \in OtherSteps
  BY DeskFacts, WordsIn

(* Lists of words.                                                         *)
LEMMA WordLists ==
  \A a, b, c, d \in OtherSteps :
    /\ <<a>> \in Seq(OtherSteps) /\ <<a, b>> \in Seq(OtherSteps) /\ <<a, b, c>> \in Seq(OtherSteps)
    /\ <<a, b, c, d>> \in Seq(OtherSteps) /\ <<>> \in Seq(OtherSteps)
  OBVIOUS
LEMMA NoWords == <<>> \in Seq(OtherSteps)
  OBVIOUS
LEMMA Joined == \A s, t \in Seq(OtherSteps) : s \o t \in Seq(OtherSteps)
  OBVIOUS

(* The tables of an organisation.                                          *)
LEMMA NicheAside ==
  ASSUME ProcInv, NEW p \in Handlers,
         \/ CreateNiche(p) \/ UpdateNiche(p) \/ DeleteNiche(p) \/ FindNiche(p) \/ BeginTransaction(p)
         \/ MarkDay(p) \/ LockDay(p) \/ WriteNiche(p) \/ Commit(p) \/ RemoveNiche(p) \/ AbortOne(p)
  PROVE  Aside
<1>1. "niche" \notin AccountOps
  BY DEF AccountOps
<1>2. \A d : Clearing(d) \in Seq(OtherSteps)
  <2>1. <<"mark day", "lock day">> \in Seq(OtherSteps)
    BY NicheWordsIn, WordLists, Zenon
  <2> QED BY <2>1, NoWords, Zenon DEF Clearing
<1>3. <<"begin">> \in Seq(OtherSteps) /\ <<"commit">> \in Seq(OtherSteps)
  BY NicheWordsIn, WordLists, Zenon
<1>4. CASE CreateNiche(p)
  <2>1. PICK d \in NicheDays : Edit(p, "niche", 0, d, <<"begin">> \o Clearing(d) \o <<"commit">>)
    BY <1>4 DEF CreateNiche
  <2>2. <<"begin">> \o Clearing(d) \o <<"commit">> \in Seq(OtherSteps)
    BY <1>2, <1>3, Joined, Zenon
  <2> QED BY <1>1, <2>1, <2>2, EditAside
<1>5. CASE UpdateNiche(p)
  <2>1. PICK i \in DOMAIN niches, d \in NicheDays :
          Edit(p, "niche", i, d, <<"find niche", "begin">> \o Clearing(d) \o <<"write", "commit">>)
    BY <1>5 DEF UpdateNiche
  <2>2. <<"find niche", "begin">> \in Seq(OtherSteps) /\ <<"write", "commit">> \in Seq(OtherSteps)
    BY NicheWordsIn, WordLists, Zenon
  <2>3. <<"find niche", "begin">> \o Clearing(d) \o <<"write", "commit">> \in Seq(OtherSteps)
    <3>1. <<"find niche", "begin">> \o Clearing(d) \in Seq(OtherSteps)
      BY <1>2, <2>2, Joined, Zenon
    <3> QED BY <2>2, <3>1, Joined, Zenon
  <2> QED BY <1>1, <2>1, <2>3, EditAside
<1>6. CASE DeleteNiche(p)
  <2>1. PICK i \in DOMAIN niches : Edit(p, "niche", i, 0, <<"find niche", "delete niche">>)
    BY <1>6 DEF DeleteNiche
  <2>2. <<"find niche", "delete niche">> \in Seq(OtherSteps)
    BY NicheWordsIn, WordLists, Zenon
  <2> QED BY <1>1, <2>1, <2>2, EditAside
<1>7. CASE FindNiche(p)
  BY <1>7, NicheFacts, AsideStep DEF FindNiche, OtherMove, Going
<1>8. CASE BeginTransaction(p)
  BY <1>8, NicheFacts, AsideStep DEF BeginTransaction, OtherMove, Going
<1>9. CASE MarkDay(p)
  <2>1. /\ At(p, "mark day") /\ UNCHANGED <<accounts, menu, calls>>
        /\ \E rows : proc' = [proc EXCEPT ![p].todo = Tail(@), ![p].marks = rows]
    BY <1>9 DEF MarkDay, MarkedDay, Going
  <2>2. /\ Only(p) /\ DOMAIN proc'[p] = DOMAIN proc[p]
        /\ proc'[p].op = proc[p].op /\ proc'[p].todo = Tail(proc[p].todo)
    BY <2>1, TailAway, NicheFacts DEF Only, ProcInv, Fields
  <2> QED BY <2>1, <2>2, NicheFacts, TailAway, AsideStep DEF OtherMove
<1>10. CASE LockDay(p)
  <2>1. /\ At(p, "lock day") /\ UNCHANGED <<accounts, menu, calls>>
        /\ \E rows : proc' = [proc EXCEPT ![p].todo = Tail(@), ![p].marks = {}, ![p].locks = rows]
    BY <1>10 DEF LockDay, Going
  <2>2. /\ Only(p) /\ DOMAIN proc'[p] = DOMAIN proc[p]
        /\ proc'[p].op = proc[p].op /\ proc'[p].todo = Tail(proc[p].todo)
    BY <2>1, TailAway, NicheFacts, ZenonT(40) DEF Only, ProcInv, Fields
  <2> QED BY <2>1, <2>2, NicheFacts, TailAway, AsideStep DEF OtherMove
<1>11. CASE WriteNiche(p)
  <2>1. /\ At(p, "write") /\ UNCHANGED <<accounts, menu, calls>>
        /\ \/ proc' = Thrown(p)
           \/ \E rows : proc' = [proc EXCEPT ![p].todo = Tail(@), ![p].locks = rows]
    BY <1>11 DEF WriteNiche, Going
  <2>2. CASE proc' = Thrown(p)
    BY <2>1, <2>2, NicheFacts, AsideStep DEF OtherMove
  <2>3. CASE \E rows : proc' = [proc EXCEPT ![p].todo = Tail(@), ![p].locks = rows]
    <3>1. /\ Only(p) /\ DOMAIN proc'[p] = DOMAIN proc[p]
          /\ proc'[p].op = proc[p].op /\ proc'[p].todo = Tail(proc[p].todo)
      BY <2>1, <2>3, TailAway, NicheFacts DEF Only, ProcInv, Fields
    <3> QED BY <2>1, <3>1, NicheFacts, TailAway, AsideStep DEF OtherMove
  <2> QED BY <2>1, <2>2, <2>3
<1>12. CASE Commit(p)
  BY <1>12, NicheFacts, AsideStep DEF Commit, OtherMove, Going
<1>13. CASE RemoveNiche(p)
  BY <1>13, NicheFacts, AsideStep DEF RemoveNiche, OtherMove, Going
<1>14. CASE AbortOne(p)
  BY <1>14, AsideThrown DEF AbortOne, Going, Aside
<1> QED BY <1>4, <1>5, <1>6, <1>7, <1>8, <1>9, <1>10, <1>11, <1>12, <1>13, <1>14

LEMMA ViewAside ==
  ASSUME ProcInv, NEW p \in Handlers, CreateView(p) \/ ChangeView(p) \/ WriteView(p)
  PROVE  Aside
<1>1. "view" \notin AccountOps
  BY DEF AccountOps
<1>2. <<"create view">> \in Seq(OtherSteps) /\ <<"update view">> \in Seq(OtherSteps) /\ <<"delete view">> \in Seq(OtherSteps)
  BY NicheWordsIn, WordLists, Zenon
<1>3. CASE CreateView(p)
  BY <1>1, <1>2, <1>3, EditAside DEF CreateView
<1>4. CASE ChangeView(p)
  <2>1. PICK i \in DOMAIN views, step \in {"update view", "delete view"} : Edit(p, "view", i, 0, <<step>>)
    BY <1>4 DEF ChangeView
  <2>2. step \in OtherSteps
    BY <2>1, NicheWordsIn
  <2>3. <<step>> \in Seq(OtherSteps)
    BY <2>2, WordLists, Zenon
  <2> QED BY <1>1, <2>1, <2>3, EditAside
<1>5. CASE WriteView(p)
  <2>1. /\ At(p, "create view") \/ At(p, "update view") \/ At(p, "delete view")
        /\ proc' = Ended(p) \/ proc' = Thrown(p)
        /\ UNCHANGED <<accounts, menu, calls>>
    BY <1>5 DEF WriteView, Going
  <2>2. OtherMove(p)
    BY <2>1 DEF OtherMove
  <2> QED BY <2>1, <2>2, NicheFacts, AsideStep
<1> QED BY <1>3, <1>4, <1>5

LEMMA SingleAside ==
  ASSUME ProcInv, NEW p \in Handlers,
         \/ SaveSingle(p) \/ FindSingle(p) \/ UpdateSingle(p) \/ CreateSingle(p) \/ Boot(p) \/ Seed(p)
  PROVE  Aside
<1>1. "single" \notin AccountOps /\ "boot" \notin AccountOps
  BY DEF AccountOps
<1>2. \A t : /\ Finds(t) \in OtherWords /\ Creates(t) \in OtherWords /\ Updates(t) \in OtherWords
             /\ Seeds(t) \in OtherWords
  BY TableFacts DEF Finds, Creates, Updates, Seeds
<1>3. CASE SaveSingle(p)
  <2>1. PICK step \in {"find offer", "find icp"} : Edit(p, "single", 0, 0, <<step>>)
    BY <1>3 DEF SaveSingle
  <2>2. step \in OtherSteps
    BY <2>1, TableWordsIn
  <2>3. <<step>> \in Seq(OtherSteps)
    BY <2>2, WordLists, Zenon
  <2> QED BY <1>1, <2>1, <2>3, EditAside
<1>4. CASE FindSingle(p)
  <2>1. PICK t \in Tables : /\ At(p, Finds(t)) /\ UNCHANGED <<accounts, menu, calls>>
                            /\ \/ proc' = [proc EXCEPT ![p].todo = <<Creates(t)>>]
                               \/ proc' = [proc EXCEPT ![p].todo = <<Updates(t)>>]
    BY <1>4 DEF FindSingle, Goes, Going
  <2>2. <<Creates(t)>> \in Seq(OtherSteps) /\ <<Updates(t)>> \in Seq(OtherSteps)
    BY <1>2, WordsIn
  <2>3. OtherMove(p)
    BY <2>1, <2>2 DEF OtherMove
  <2> QED BY <1>2, <2>1, <2>3, AsideStep
<1>5. CASE UpdateSingle(p)
  BY <1>2, <1>5, AsideStep DEF UpdateSingle, OtherMove, Going
<1>6. CASE CreateSingle(p)
  BY <1>2, <1>6, AsideStep DEF CreateSingle, OtherMove, Going
<1>7. CASE Boot(p)
  <2> DEFINE r == [Idle EXCEPT !.op = "boot", !.todo = <<"seed offer", "seed icp">>]
  <2>1. <<"seed offer", "seed icp">> \in Seq(OtherSteps)
    BY TableWordsIn, WordLists, Zenon
  <2>2. DOMAIN r = Fields /\ r.op = "boot" /\ r.todo = <<"seed offer", "seed icp">>
    BY DEF Idle, Fields
  <2>3. Begin(p, "boot", r) /\ UNCHANGED accounts
    BY <1>7 DEF Boot
  <2> HIDE DEF r
  <2> QED BY <1>1, <2>1, <2>2, <2>3, AsideRequest
<1>8. CASE Seed(p)
  BY <1>2, <1>8, AsideStep DEF Seed, OtherMove, Going
<1> QED BY <1>3, <1>4, <1>5, <1>6, <1>7, <1>8

LEMMA ConfigAside ==
  ASSUME ProcInv, NEW p \in Handlers,
         SaveConfig(p) \/ Validate(p) \/ Put(p) \/ CountMetric(p) \/ Ensure(p) \/ Bump(p)
  PROVE  Aside
<1>1. "config" \notin AccountOps /\ "metric" \notin AccountOps
  BY DEF AccountOps
<1>2. \A k : Puts(k) \in OtherWords
  BY TableFacts DEF Puts
<1>3. CASE SaveConfig(p)
  <2>1. PICK bad \in {0, 1} : Edit(p, "config", bad, 0, <<"validate", "put a", "put b">>)
    BY <1>3 DEF SaveConfig
  <2>2. <<"validate", "put a", "put b">> \in Seq(OtherSteps)
    BY TableWordsIn, WordLists, Zenon
  <2> QED BY <1>1, <2>1, <2>2, EditAside
<1>4. CASE Validate(p)
  BY <1>4, TableFacts, AsideStep DEF Validate, OtherMove, Going
<1>5. CASE Put(p)
  BY <1>2, <1>5, AsideStep DEF Put, OtherMove, Going
<1>6. CASE CountMetric(p)
  <2>1. PICK o \in 0..2 : Begin(p, "metric", [Idle EXCEPT !.op = "metric", !.org = o, !.todo = <<"ensure", "bump">>])
    BY <1>6 DEF CountMetric
  <2> DEFINE r == [Idle EXCEPT !.op = "metric", !.org = o, !.todo = <<"ensure", "bump">>]
  <2>2. <<"ensure", "bump">> \in Seq(OtherSteps)
    BY TableWordsIn, WordLists, Zenon
  <2>3. DOMAIN r = Fields /\ r.op = "metric" /\ r.todo = <<"ensure", "bump">>
    BY DEF Idle, Fields
  <2>4. Begin(p, "metric", r) /\ UNCHANGED accounts
    BY <1>6, <2>1 DEF CountMetric
  <2> HIDE DEF r
  <2> QED BY <1>1, <2>2, <2>3, <2>4, AsideRequest
<1>7. CASE Ensure(p)
  BY <1>7, TableFacts, AsideStep DEF Ensure, OtherMove, Going
<1>8. CASE Bump(p)
  BY <1>8, TableFacts, AsideStep DEF Bump, Bumped, OtherMove, Going
<1> QED BY <1>3, <1>4, <1>5, <1>6, <1>7, <1>8

LEMMA TenancyAside ==
  ASSUME ProcInv, NEW p \in Handlers, TenancyStep(p)
  PROVE  Aside
  BY NicheAside, ViewAside, SingleAside, ConfigAside, Zenon DEF TenancyStep

(* Bulk retries, and the engine that sends.                                *)
LEMMA BookAside ==
  ASSUME ProcInv, BookStep
  PROVE  Aside
<1>1. "retry" \notin AccountOps /\ "legacy" \notin AccountOps
  BY DEF AccountOps
<1>2. /\ <<"context", "load">> \in Seq(OtherSteps) /\ <<"token", "load">> \in Seq(OtherSteps)
      /\ <<"next">> \in Seq(OtherSteps) /\ <<"find mail", "call", "rewrite">> \in Seq(OtherSteps)
      /\ <<"call", "write lead">> \in Seq(OtherSteps)
  <2>1. <<"context", "load">> \in Seq(OtherSteps) /\ <<"token", "load">> \in Seq(OtherSteps)
    BY Enters, NicheWordsIn, ListWordsIn, WordLists, Zenon
  <2>2. <<"next">> \in Seq(OtherSteps) /\ <<"call", "write lead">> \in Seq(OtherSteps)
    BY ListWordsIn, WordLists, Zenon
  <2>3. <<"find mail", "call", "rewrite">> \in Seq(OtherSteps)
    BY ListWordsIn, WordLists, Zenon
  <2> QED BY <2>1, <2>2, <2>3, Zenon
<1>3. ASSUME NEW p \in Handlers, Retry(p) PROVE Aside
  <2>1. PICK s \in Tokens, i \in DOMAIN Stages, ids \in Batches :
          LET request == [Idle EXCEPT !.by = s, !.org = OrgOf(s), !.id = i, !.marks = ids] IN
          \/ Begin(p, Stages[i], [request EXCEPT !.op = "retry", !.todo = <<"context", "load">>])
          \/ Begin(p, Stages[i], [request EXCEPT !.op = "legacy", !.todo = <<"token", "load">>])
    BY <1>3 DEF Retry
  <2>2. UNCHANGED accounts
    BY <1>3 DEF Retry
  <2>3. ASSUME NEW op, NEW t
        PROVE  LET r == [Idle EXCEPT !.by = s, !.org = OrgOf(s), !.id = i, !.marks = ids]
                   n == [r EXCEPT !.op = op, !.todo = t] IN
               DOMAIN n = Fields /\ n.op = op /\ n.todo = t
    BY DEF Idle, Fields
  <2> DEFINE r == [Idle EXCEPT !.by = s, !.org = OrgOf(s), !.id = i, !.marks = ids]
  <2> DEFINE a == [r EXCEPT !.op = "retry", !.todo = <<"context", "load">>]
  <2> DEFINE b == [r EXCEPT !.op = "legacy", !.todo = <<"token", "load">>]
  <2>4. /\ DOMAIN a = Fields /\ a.op \notin AccountOps /\ a.todo \in Seq(OtherSteps)
        /\ DOMAIN b = Fields /\ b.op \notin AccountOps /\ b.todo \in Seq(OtherSteps)
    <3>1. DOMAIN a = Fields /\ a.op = "retry" /\ a.todo = <<"context", "load">>
      BY <2>3
    <3>2. DOMAIN b = Fields /\ b.op = "legacy" /\ b.todo = <<"token", "load">>
      BY <2>3
    <3> HIDE DEF a, b
    <3> QED BY <1>1, <1>2, <3>1, <3>2, Zenon
  <2>5. Begin(p, Stages[i], a) \/ Begin(p, Stages[i], b)
    BY <2>1
  <2> HIDE DEF a, b
  <2> QED BY <2>2, <2>4, <2>5, AsideRequest
<1>4. ASSUME NEW p \in Handlers, Load(p) PROVE Aside
  <2>1. /\ At(p, "load") /\ UNCHANGED <<accounts, menu, calls>>
        /\ \E found, n : proc' = [proc EXCEPT ![p].todo = <<"next">>, ![p].marks = found, ![p].saw = n]
    BY <1>4 DEF Load, Going
  <2>2. /\ Only(p) /\ DOMAIN proc'[p] = DOMAIN proc[p]
        /\ proc'[p].op = proc[p].op /\ proc'[p].todo = <<"next">>
    BY <2>1, TailAway, ListFacts, ZenonT(40) DEF Only, ProcInv, Fields
  <2> QED BY <1>2, <2>1, <2>2, ListFacts, TailAway, AsideStep DEF OtherMove
<1>5. ASSUME NEW p \in Handlers, NextLead(p) PROVE Aside
  <2>1. /\ At(p, "next") /\ UNCHANGED <<accounts, menu, calls>>
        /\ \/ proc' = Ended(p)
           \/ \E l, rest : \E t \in Seq(OtherSteps) :
                proc' = [proc EXCEPT ![p].who = l, ![p].marks = rest, ![p].todo = t]
    BY <1>2, <1>5 DEF NextLead, NextOf, Finished, Going
  <2>2. CASE proc' = Ended(p)
    BY <2>1, <2>2, ListFacts, AsideStep DEF OtherMove
  <2>3. CASE \E l, rest : \E t \in Seq(OtherSteps) :
               proc' = [proc EXCEPT ![p].who = l, ![p].marks = rest, ![p].todo = t]
    <3>1. /\ Only(p) /\ DOMAIN proc'[p] = DOMAIN proc[p]
          /\ proc'[p].op = proc[p].op /\ proc'[p].todo \in Seq(OtherSteps)
      BY <2>1, <2>3, TailAway, ListFacts, ZenonT(40) DEF Only, ProcInv, Fields
    <3> QED BY <2>1, <3>1, ListFacts, TailAway, AsideStep DEF OtherMove
  <2> QED BY <2>1, <2>2, <2>3
<1>6. ASSUME NEW p \in Handlers, FindMail(p) PROVE Aside
  <2>1. /\ At(p, "find mail") /\ UNCHANGED <<accounts, menu, calls>>
        /\ proc' = Advance(p) \/ proc' = [proc EXCEPT ![p].todo = <<"next">>]
    BY <1>6 DEF FindMail, MailFor, Fail, Goes, Going
  <2> QED BY <1>2, <2>1, ListFacts, AsideStep DEF OtherMove
<1>7. ASSUME NEW p \in Handlers, CallModel(p) PROVE Aside
  <2>1. /\ At(p, "call") /\ UNCHANGED <<accounts, menu, calls>>
        /\ proc' = Advance(p) \/ proc' = [proc EXCEPT ![p].todo = <<"next">>]
    BY <1>7 DEF CallModel, Fail, Goes, Going
  <2> QED BY <1>2, <2>1, ListFacts, AsideStep DEF OtherMove
<1>8. ASSUME NEW p \in Handlers, WriteLead(p) \/ Rewrite(p) PROVE Aside
  <2>1. /\ At(p, "write lead") \/ At(p, "rewrite")
        /\ UNCHANGED <<accounts, menu, calls>>
        /\ proc' = [proc EXCEPT ![p].todo = <<"next">>]
    BY <1>8 DEF WriteLead, Rewrite, Goes, Going
  <2>2. OtherMove(p)
    BY <1>2, <2>1 DEF OtherMove
  <2> QED BY <2>1, <2>2, ListFacts, AsideStep
<1>9. ASSUME UNCHANGED <<requests, accounts>> PROVE Aside
  BY <1>9, NobodyMoves DEF requests, Aside
<1>10. ASSUME NEW p \in Handlers, Close(p) PROVE Aside
  BY <1>9, <1>10 DEF Close
<1>11. ASSUME LoadQueue \/ SendMail \/ MarkSent PROVE Aside
  BY <1>9, <1>11 DEF LoadQueue, SendMail, MarkSent
<1> QED BY <1>3, <1>4, <1>5, <1>6, <1>7, <1>8, <1>10, <1>11, Zenon DEF BookStep

(* The list of leads.                                                      *)
LEMMA AskForAside ==
  ASSUME ProcInv, NEW p \in Handlers, NEW kind, kind \notin AccountOps, NEW i, NEW ids,
         NEW program \in Seq(OtherSteps), AskFor(p, kind, i, ids, program)
  PROVE  Aside
<1> DEFINE request(s, op, first) == [Idle EXCEPT !.op = op, !.by = s, !.org = OrgOf(s), !.id = i,
                                                 !.saw = edits, !.marks = ids, !.todo = first \o program]
<1>1. PICK s \in Tokens : \/ Begin(p, kind, request(s, kind, <<"enter", "context">>))
                          \/ Begin(p, kind, request(s, "legacy", <<"token">>))
  BY DEF AskFor
<1>2. UNCHANGED accounts
  BY DEF AskFor
<1>3. "legacy" \notin AccountOps
  BY DEF AccountOps
<1>4. <<"enter", "context">> \in Seq(OtherSteps) /\ <<"token">> \in Seq(OtherSteps)
  BY Enters, NicheWordsIn, WordLists, Zenon
<1>5. ASSUME NEW op, NEW first \in Seq(OtherSteps)
      PROVE  /\ DOMAIN request(s, op, first) = Fields /\ request(s, op, first).op = op
             /\ request(s, op, first).todo \in Seq(OtherSteps)
  <2>1. first \o program \in Seq(OtherSteps)
    OBVIOUS
  <2> QED BY <2>1 DEF Idle, Fields
<1> HIDE DEF request
<1>6. ASSUME NEW op, op \notin AccountOps, NEW first \in Seq(OtherSteps), Begin(p, kind, request(s, op, first))
      PROVE  Aside
  <2>1. /\ DOMAIN request(s, op, first) = Fields /\ request(s, op, first).op \notin AccountOps
        /\ request(s, op, first).todo \in Seq(OtherSteps)
    BY <1>5, <1>6
  <2> QED BY <1>2, <1>6, <2>1, AsideRequest
<1>7. CASE Begin(p, kind, request(s, kind, <<"enter", "context">>))
  BY <1>4, <1>6, <1>7
<1>8. CASE Begin(p, kind, request(s, "legacy", <<"token">>))
  BY <1>3, <1>4, <1>6, <1>8
<1> QED BY <1>1, <1>7, <1>8

LEMMA ListAside ==
  ASSUME ProcInv, NEW p \in Handlers, ListStep(p)
  PROVE  Aside
<1>1. "list" \notin AccountOps /\ "kpis" \notin AccountOps
  BY DEF AccountOps
<1>2. CASE ListLeads(p)
  <2>1. PICK i \in menu.filters, both \in {<<"count rows", "find rows">>, <<"find rows", "count rows">>} :
          AskFor(p, "list", i, DOMAIN leads,
                 (IF Queries[i].signals > 0 THEN <<"signals">> ELSE <<>>)
                   \o (IF Queries[i].tech THEN <<"tech">> ELSE <<>>) \o both \o <<"answer list">>)
    BY <1>2 DEF ListLeads
  <2>2. <<"signals">> \in Seq(OtherSteps) /\ <<"tech">> \in Seq(OtherSteps)
    BY ListWordsIn, WordLists, Zenon
  <2>3. <<"answer list">> \in Seq(OtherSteps)
    BY ListWordsIn, WordLists, Zenon
  <2>4. <<"count rows", "find rows">> \in Seq(OtherSteps) /\ <<"find rows", "count rows">> \in Seq(OtherSteps)
    BY ListWordsIn, WordLists, Zenon
  <2> DEFINE a == IF Queries[i].signals > 0 THEN <<"signals">> ELSE <<>>
  <2> DEFINE b == IF Queries[i].tech THEN <<"tech">> ELSE <<>>
  <2>5. a \in Seq(OtherSteps) /\ b \in Seq(OtherSteps) /\ both \in Seq(OtherSteps)
    BY <2>1, <2>2, <2>4, NoWords, Zenon
  <2>6. AskFor(p, "list", i, DOMAIN leads, a \o b \o both \o <<"answer list">>)
    BY <2>1
  <2> HIDE DEF a, b
  <2>7. a \o b \in Seq(OtherSteps)
    BY <2>5, Joined, Zenon
  <2>8. a \o b \o both \in Seq(OtherSteps)
    BY <2>5, <2>7, Joined, Zenon
  <2>9. a \o b \o both \o <<"answer list">> \in Seq(OtherSteps)
    BY <2>3, <2>8, Joined, Zenon
  <2> QED BY <1>1, <2>6, <2>9, AskForAside
<1>3. CASE Narrow(p)
  <2>1. /\ At(p, "signals") \/ At(p, "tech")
        /\ UNCHANGED <<accounts, menu, calls>>
        /\ \E left : proc' = [proc EXCEPT ![p].todo = Tail(@), ![p].marks = left]
    BY <1>3 DEF Narrow, Going
  <2>2. PICK s \in OtherWords : At(p, s)
    BY <2>1, ListFacts
  <2>3. /\ Only(p) /\ DOMAIN proc'[p] = DOMAIN proc[p]
        /\ proc'[p].op = proc[p].op /\ proc'[p].todo = Tail(proc[p].todo)
    BY <2>1, <2>2, TailAway DEF Only, ProcInv, Fields
  <2> QED BY <2>1, <2>2, <2>3, TailAway, AsideStep DEF OtherMove
<1>4. CASE CountLeads(p)
  BY <1>4, ListFacts, AsideStep DEF CountLeads, OtherMove, Going
<1>5. CASE FindRows(p)
  BY <1>5, ListFacts, AsideStep DEF FindRows, OtherMove, Going
<1>6. CASE LeadKpis(p)
  <2>1. PICK i \in menu.filters : AskFor(p, "kpis", i, DOMAIN Cards, <<"cards", "answer kpis">>)
    BY <1>6 DEF LeadKpis
  <2>2. <<"cards", "answer kpis">> \in Seq(OtherSteps)
    BY ListWordsIn, WordLists, Zenon
  <2> QED BY <1>1, <2>1, <2>2, AskForAside
<1>7. CASE Summarize(p)
  <2>1. /\ At(p, "cards") /\ UNCHANGED <<accounts, menu, calls>>
        /\ \E left, last : proc' = [proc EXCEPT ![p].marks = left, ![p].todo = IF last THEN Tail(@) ELSE @]
    BY <1>7 DEF Summarize, Going
  <2>2. /\ Only(p) /\ DOMAIN proc'[p] = DOMAIN proc[p] /\ proc'[p].op = proc[p].op
        /\ proc'[p].todo = Tail(proc[p].todo) \/ proc'[p].todo = proc[p].todo
    BY <2>1, TailAway, ListFacts DEF Only, ProcInv, Fields
  <2>3. proc'[p].todo \in Seq(OtherSteps)
    BY <2>1, <2>2, TailAway, ListFacts DEF Away
  <2> QED BY <2>1, <2>2, <2>3, ListFacts, TailAway, AsideStep DEF OtherMove
<1>8. CASE Answer(p)
  <2>1. \A kind : Answers(kind) \in OtherWords
    BY ListFacts DEF Answers
  <2> QED BY <1>8, <2>1, AsideStep DEF Answer, OtherMove, Going
<1> QED BY <1>2, <1>3, <1>4, <1>5, <1>6, <1>7, <1>8 DEF ListStep

(* The page of engines.                                                    *)
LEMMA FetchAside ==
  ASSUME ProcInv, NEW p \in Handlers, NEW what, what \notin AccountOps, NEW e, NEW who,
         NEW program \in Seq(OtherSteps), Fetch(p, what, e, who, program), UNCHANGED accounts
  PROVE  Aside
<1> DEFINE r == [Idle EXCEPT !.op = what, !.id = e, !.who = who, !.todo = program]
<1>1. DOMAIN r = Fields /\ r.op = what /\ r.todo = program
  BY DEF Idle, Fields
<1>2. Begin(p, "page", r)
  BY DEF Fetch
<1> HIDE DEF r
<1> QED BY <1>1, <1>2, AsideRequest

LEMMA PageAside ==
  ASSUME ProcInv, PageStep
  PROVE  Aside
<1>1. "latest" \notin AccountOps /\ "run" \notin AccountOps /\ "unlock" \notin AccountOps
  BY DEF AccountOps
<1>2. <<"serve latest", "latest">> \in Seq(OtherSteps) /\ <<"sweep runs", "serve run">> \in Seq(OtherSteps)
  BY PageWordsIn, WordLists, Zenon
<1>3. <<"serve unlock", "unlocked">> \in Seq(OtherSteps)
  BY PageWordsIn, WordLists, Zenon
<1>4. <<"refused">> \in Seq(OtherSteps) /\ <<"started">> \in Seq(OtherSteps)
  BY PageWordsIn, WordLists, Zenon
<1>5. ASSUME NEW p \in Handlers, Select(p) \/ RunNow(p) \/ Unlock(p) PROVE Aside
  <2>1. UNCHANGED accounts
    BY <1>5 DEF Select, RunNow, Unlock, beside
  <2>2. CASE Select(p)
    BY <1>1, <1>2, <2>1, <2>2, FetchAside DEF Select
  <2>3. CASE RunNow(p)
    BY <1>1, <1>2, <2>1, <2>3, FetchAside DEF RunNow
  <2>4. CASE Unlock(p)
    BY <1>1, <1>3, <2>1, <2>4, FetchAside DEF Unlock
  <2> QED BY <1>5, <2>2, <2>3, <2>4
<1>6. ASSUME NEW p \in Handlers, ServeLatest(p) PROVE Aside
  <2>1. /\ At(p, "serve latest") /\ UNCHANGED <<accounts, menu, calls>>
        /\ \E saw : proc' = [proc EXCEPT ![p].todo = Tail(@), ![p].saw = saw]
    BY <1>6 DEF ServeLatest, Going, beside
  <2>2. /\ Only(p) /\ DOMAIN proc'[p] = DOMAIN proc[p]
        /\ proc'[p].op = proc[p].op /\ proc'[p].todo = Tail(proc[p].todo)
    BY <2>1, TailAway, PageFacts DEF Only, ProcInv, Fields
  <2> QED BY <2>1, <2>2, PageFacts, TailAway, AsideStep DEF OtherMove
<1>7. ASSUME NEW p \in Handlers, \/ Latest(p) \/ SweepRuns(p) \/ Started(p) \/ Refused(p)
                                 \/ UnlockRows(p) \/ UnlockShown(p)
      PROVE  Aside
  <2>1. /\ \/ At(p, "latest") \/ At(p, "sweep runs") \/ At(p, "started") \/ At(p, "refused")
           \/ At(p, "serve unlock") \/ At(p, "unlocked")
        /\ UNCHANGED <<accounts, menu, calls>>
        /\ proc' = Ended(p) \/ proc' = Advance(p)
    BY <1>7 DEF Latest, SweepRuns, Started, Refused, UnlockRows, Unlocked, UnlockShown, Going, beside
  <2>2. OtherMove(p)
    BY <2>1 DEF OtherMove
  <2> QED BY <2>1, <2>2, PageFacts, AsideStep
<1>8. ASSUME NEW p \in Handlers, ServeRun(p) PROVE Aside
  <2>1. /\ At(p, "serve run") /\ UNCHANGED <<accounts, menu, calls>>
        /\ \/ \E run : proc' = [proc EXCEPT ![p].todo = <<"refused">>, ![p].saw = run]
           \/ \E run : proc' = [proc EXCEPT ![p].todo = <<"started">>, ![p].saw = run]
    BY <1>8, Zenon DEF ServeRun, Going, beside
  <2>2. ASSUME NEW t \in Seq(OtherSteps), NEW run, proc' = [proc EXCEPT ![p].todo = t, ![p].saw = run]
        PROVE  Aside
    <3>1. /\ Only(p) /\ DOMAIN proc'[p] = DOMAIN proc[p]
          /\ proc'[p].op = proc[p].op /\ proc'[p].todo = t
      BY <2>1, <2>2, TailAway, PageFacts DEF Only, ProcInv, Fields
    <3> QED BY <2>1, <3>1, PageFacts, TailAway, AsideStep DEF OtherMove
  <2> QED BY <1>4, <2>1, <2>2, Zenon
<1>9. ASSUME UNCHANGED <<menu, proc, calls, accounts>> PROVE Aside
  BY <1>9, NobodyMoves DEF Aside
<1>10. ASSUME AskStatus \/ ServeStatus \/ PollFails \/ ShowStatus \/ Dismiss PROVE Aside
  BY <1>9, <1>10 DEF AskStatus, ServeStatus, PollFails, StatusFails, ShowStatus, Dismiss, requests, beside
<1>11. ASSUME RowArrives \/ StartElsewhere \/ EndRun \/ RunDies \/ CloseElsewhere PROVE Aside
  BY <1>9, <1>11 DEF RowArrives, StartElsewhere, EndRun, RunDies, CloseElsewhere, requests, beside
<1> QED BY <1>5, <1>6, <1>7, <1>8, <1>10, <1>11, Zenon DEF PageStep

(* The page of leads.                                                      *)
LEMMA BrowserAside ==
  ASSUME ProcInv, NEW p \in Handlers, NEW kind, NEW op, op \notin AccountOps, NEW i,
         NEW program \in Seq(OtherSteps), NEW request, Begin(p, kind, request), UNCHANGED accounts,
         DOMAIN request = DOMAIN Browser(op, i, program), request.op = op, request.todo = program
  PROVE  Aside
<1>1. DOMAIN request = Fields
  BY DEF Browser, Idle, Fields
<1> QED BY <1>1, AsideRequest

LEMMA RowsRequest ==
  ASSUME NEW asked
  PROVE  /\ DOMAIN RowsOf(asked) = Fields /\ RowsOf(asked).op = "rows"
         /\ RowsOf(asked).todo = <<"serve rows", "rows">>
  BY DEF RowsOf, Browser, Idle, Fields

LEMMA RowsAside ==
  ASSUME ProcInv, NEW p \in Handlers, NEW asked, FetchLeads(p, asked), UNCHANGED accounts
  PROVE  Aside
<1>1. "rows" \notin AccountOps
  BY DEF AccountOps
<1>2. <<"serve rows", "rows">> \in Seq(OtherSteps)
  BY DeskWordsIn, WordLists, Zenon
<1>3. Begin(p, "leads page", RowsOf(asked))
  BY DEF FetchLeads
<1>4. RowsOf(asked).todo \in Seq(OtherSteps) /\ RowsOf(asked).op \notin AccountOps /\ DOMAIN RowsOf(asked) = Fields
  BY <1>1, <1>2, RowsRequest, Zenon
<1> QED BY <1>3, <1>4, AsideRequest

(* What its buttons ask for.                                               *)
LEMMA DeskAsks ==
  ASSUME ProcInv, NEW p \in Handlers,
         \/ ChooseFilter(p) \/ TurnPage(p) \/ ApplyView(p) \/ OpenDetail(p) \/ HandleBlur(p)
         \/ BulkReject(p) \/ RetryPicked(p) \/ StreamEnds(p)
  PROVE  Aside
<1>1. "detail" \notin AccountOps /\ "note" \notin AccountOps /\ "bulk" \notin AccountOps /\ "dry" \notin AccountOps
  BY DEF AccountOps
<1>2. <<"serve detail", "detail">> \in Seq(OtherSteps)
  BY DeskWordsIn, WordLists, Zenon
<1>3. <<"find lead", "patch", "note saved">> \in Seq(OtherSteps)
  BY DeskWordsIn, WordLists, Zenon
<1>4. <<"reject", "rejected", "serve rows", "rows">> \in Seq(OtherSteps)
  BY DeskWordsIn, WordLists, Zenon
<1>5. <<"dry run", "confirm">> \in Seq(OtherSteps)
  BY DeskWordsIn, WordLists, Zenon
<1>6. UNCHANGED accounts
  BY DEF ChooseFilter, TurnPage, TurnsTo, ApplyView, OpenDetail, Opening, HandleBlur, BulkReject, RetryPicked,
         StreamEnds, lookOn
<1>7. CASE ChooseFilter(p)
  BY <1>6, <1>7, RowsAside DEF ChooseFilter
<1>8. CASE TurnPage(p)
  BY <1>6, <1>8, RowsAside DEF TurnPage
<1>9. CASE ApplyView(p)
  BY <1>6, <1>9, RowsAside DEF ApplyView
<1>10. CASE OpenDetail(p)
  <2>1. PICK l \in desk.shown : Begin(p, "leads page", Browser("detail", l, <<"serve detail", "detail">>))
    BY <1>10 DEF OpenDetail, Opening
  <2>2. /\ Browser("detail", l, <<"serve detail", "detail">>).op = "detail"
        /\ Browser("detail", l, <<"serve detail", "detail">>).todo = <<"serve detail", "detail">>
    BY DEF Browser, Idle
  <2> QED BY <1>1, <1>2, <1>6, <2>1, <2>2, BrowserAside
<1>11. CASE HandleBlur(p)
  <2> DEFINE t == <<"find lead", "patch", "note saved">>
  <2>1. Begin(p, "leads page", Browser("note", desk.lead, t))
    BY <1>11 DEF HandleBlur
  <2>2. t \in Seq(OtherSteps)
    BY <1>3
  <2> HIDE DEF t
  <2>3. Browser("note", desk.lead, t).op = "note" /\ Browser("note", desk.lead, t).todo = t
    BY DEF Browser, Idle
  <2> QED BY <1>1, <1>6, <2>1, <2>2, <2>3, BrowserAside
<1>12. CASE BulkReject(p)
  <2> DEFINE t == <<"reject", "rejected", "serve rows", "rows">>
  <2> DEFINE r == [Browser("bulk", desk.filter, t) EXCEPT !.who = desk.page, !.marks = desk.picked]
  <2>1. Begin(p, "bulk", r)
    BY <1>12 DEF BulkReject
  <2>2. t \in Seq(OtherSteps)
    BY <1>4
  <2> HIDE DEF t
  <2>3. DOMAIN r = DOMAIN Browser("bulk", desk.filter, t) /\ r.op = "bulk" /\ r.todo = t
    BY DEF Browser, Idle
  <2> HIDE DEF r
  <2> QED BY <1>1, <1>6, <2>1, <2>2, <2>3, BrowserAside
<1>13. CASE RetryPicked(p)
  <2> DEFINE t == <<"dry run", "confirm">>
  <2>1. PICK i \in PageStages : Begin(p, "again", [Browser("dry", i, t) EXCEPT !.marks = desk.picked])
    BY <1>13 DEF RetryPicked
  <2> DEFINE r == [Browser("dry", i, t) EXCEPT !.marks = desk.picked]
  <2>2. t \in Seq(OtherSteps)
    BY <1>5
  <2> HIDE DEF t
  <2>3. DOMAIN r = DOMAIN Browser("dry", i, t) /\ r.op = "dry" /\ r.todo = t
    BY DEF Browser, Idle
  <2>4. Begin(p, "again", r)
    BY <2>1
  <2> HIDE DEF r
  <2> QED BY <1>1, <1>6, <2>2, <2>3, <2>4, BrowserAside
<1>14. CASE StreamEnds(p)
  <2>1. PICK s \in streams : proc' = [proc EXCEPT ![p] = RowsOf(s.asked)]
    BY <1>14 DEF StreamEnds
  <2>2. menu' = menu /\ calls' = calls
    BY <1>14 DEF StreamEnds, Going
  <2>3. <<"serve rows", "rows">> \in Seq(OtherSteps) /\ "rows" \notin AccountOps
    BY DeskWordsIn, WordLists, OtherOps, Zenon
  <2>4. Away(RowsOf(s.asked))
    BY <2>3, RowsRequest, Zenon DEF Away
  <2> QED BY <1>6, <2>1, <2>2, <2>4, SetOK, OneAside DEF Aside
<1> QED BY <1>7, <1>8, <1>9, <1>10, <1>11, <1>12, <1>13, <1>14

LEMMA DeskStepAside ==
  ASSUME ProcInv, NEW p \in Handlers,
         \/ ServeRows(p) \/ Rows(p) \/ AnswerLost(p) \/ ServeDetail(p) \/ Detail(p) \/ PatchLead(p)
         \/ OnSavedNote(p) \/ BulkStatus(p) \/ Bulked(p) \/ EstimateCost(p) \/ Declined(p) \/ Confirmed(p)
  PROVE  Aside
<1>1. CASE ServeRows(p)
  <2>1. /\ At(p, "serve rows") /\ UNCHANGED <<accounts, menu, calls>>
        /\ \E rows, locks, n :
             proc' = [proc EXCEPT ![p].todo = Tail(@), ![p].marks = rows, ![p].locks = locks, ![p].saw = n]
    BY <1>1 DEF ServeRows, Going, lookOn
  <2>2. PICK rows, locks, n :
          proc' = [proc EXCEPT ![p].todo = Tail(@), ![p].marks = rows, ![p].locks = locks, ![p].saw = n]
    BY <2>1
  <2>3. "todo" \in Fields /\ "marks" \in Fields /\ "locks" \in Fields /\ "saw" \in Fields /\ "op" \in Fields
    BY DEF Fields
  <2>4. DOMAIN proc[p] = Fields /\ DOMAIN proc = Handlers
    BY <2>1, TailAway, DeskFacts DEF ProcInv
  <2>5. DOMAIN proc' = Handlers /\ \A q \in Handlers \ {p} : proc'[q] = proc[q]
    BY <2>2, <2>4
  <2>6. proc'[p] = [[[[proc[p] EXCEPT !.todo = Tail(@)] EXCEPT !.marks = rows] EXCEPT !.locks = locks] EXCEPT !.saw = n]
    BY <2>2, <2>4, <2>3
  <2>7. DOMAIN proc'[p] = DOMAIN proc[p]
    BY <2>6
  <2>8. proc'[p].op = proc[p].op /\ proc'[p].todo = Tail(proc[p].todo)
    BY <2>3, <2>4, <2>6
  <2>9. proc'[p].op \notin AccountOps /\ proc'[p].todo \in Seq(OtherSteps)
    BY <2>1, <2>8, DeskFacts, TailAway
  <2>10. Only(p)
    BY <2>5 DEF Only
  <2>11. OtherMove(p)
    BY <2>7, <2>9, <2>10 DEF OtherMove
  <2> QED BY <2>1, <2>11, DeskFacts, AsideStep
<1>2. CASE Rows(p) \/ AnswerLost(p) \/ ServeDetail(p) \/ Detail(p)
  <2>1. /\ At(p, "rows") \/ At(p, "serve detail") \/ At(p, "detail") \/ At(p, "note saved")
           \/ At(p, "rejected") \/ At(p, "confirm")
        /\ UNCHANGED <<accounts, menu, calls>>
        /\ proc' = Ended(p) \/ proc' = Advance(p)
    BY <1>2 DEF Rows, AnswerLost, ServeDetail, Detail, Going, lookOn
  <2>2. OtherMove(p)
    BY <2>1 DEF OtherMove
  <2> QED BY <2>1, <2>2, DeskFacts, AsideStep
<1>3. CASE PatchLead(p) \/ OnSavedNote(p) \/ EstimateCost(p) \/ Declined(p)
  <2>1. /\ At(p, "find lead") \/ At(p, "patch") \/ At(p, "note saved") \/ At(p, "dry run") \/ At(p, "confirm")
        /\ UNCHANGED <<accounts, menu, calls>>
        /\ proc' = Ended(p) \/ proc' = Advance(p)
    BY <1>3 DEF PatchLead, OnSavedNote, EstimateCost, Declined, Going, lookOn
  <2>2. OtherMove(p)
    BY <2>1 DEF OtherMove
  <2> QED BY <2>1, <2>2, DeskFacts, AsideStep
<1>4. CASE BulkStatus(p)
  <2>1. /\ At(p, "reject") /\ UNCHANGED <<accounts, menu, calls>>
        /\ \E l \in proc[p].marks :
             proc' = [proc EXCEPT ![p].marks = @ \ {l}, ![p].todo = IF proc[p].marks = {l} THEN Tail(@) ELSE @]
    BY <1>4 DEF BulkStatus, Going, lookOn
  <2>2. /\ Only(p) /\ DOMAIN proc'[p] = DOMAIN proc[p] /\ proc'[p].op = proc[p].op
        /\ proc'[p].todo = Tail(proc[p].todo) \/ proc'[p].todo = proc[p].todo
    BY <2>1, TailAway, DeskFacts DEF Only, ProcInv, Fields
  <2>3. proc'[p].todo \in Seq(OtherSteps)
    BY <2>1, <2>2, TailAway, DeskFacts DEF Away
  <2> QED BY <2>1, <2>2, <2>3, DeskFacts, TailAway, AsideStep DEF OtherMove
<1>5. CASE Bulked(p)
  <2>1. /\ At(p, "rejected") /\ UNCHANGED <<accounts, menu, calls>>
        /\ proc' = [proc EXCEPT ![p].op = "rows", ![p].todo = Tail(@)]
    BY <1>5 DEF Bulked, Going, lookOn
  <2>2. /\ Only(p) /\ DOMAIN proc'[p] = DOMAIN proc[p]
        /\ proc'[p].op = "rows" /\ proc'[p].todo = Tail(proc[p].todo)
    BY <2>1, TailAway, DeskFacts DEF Only, ProcInv, Fields
  <2>3. proc'[p].op \notin AccountOps
    BY <2>2, OtherOps
  <2> QED BY <2>1, <2>2, <2>3, DeskFacts, TailAway, AsideStep DEF OtherMove
<1>6. CASE Confirmed(p)
  <2> DEFINE t == <<"token", "load">>
  <2>1. /\ At(p, "confirm") /\ UNCHANGED <<accounts, menu, calls>>
        /\ proc' = [proc EXCEPT ![p].op = "legacy", ![p].todo = t]
    BY <1>6 DEF Confirmed, Confirms, Going, lookOn
  <2>2. t \in Seq(OtherSteps)
    BY NicheWordsIn, ListWordsIn, WordLists, Zenon
  <2> HIDE DEF t
  <2>3. /\ Only(p) /\ DOMAIN proc'[p] = DOMAIN proc[p]
        /\ proc'[p].op = "legacy" /\ proc'[p].todo = t
    BY <2>1, TailAway, DeskFacts DEF Only, ProcInv, Fields
  <2>4. proc'[p].op \notin AccountOps
    BY <2>3, OtherOps
  <2> QED BY <2>1, <2>2, <2>3, <2>4, DeskFacts, AsideStep DEF OtherMove
<1> QED BY <1>1, <1>2, <1>3, <1>4, <1>5, <1>6, Zenon

LEMMA LeadsPageAside ==
  ASSUME ProcInv, LeadsPageStep
  PROVE  Aside
<1>1. ASSUME CloseDetail \/ Toggle \/ ToggleAll \/ OnEvent PROVE Aside
  <2>1. UNCHANGED <<menu, proc, calls, accounts>>
    BY <1>1 DEF CloseDetail, Toggle, ToggleAll, OnEvent, requests, lookOn
  <2> QED BY <2>1, NobodyMoves DEF Aside
<1> QED BY <1>1, DeskAsks, DeskStepAside, Zenon DEF LeadsPageStep
-----------------------------------------------------------------------------
(* What a step does to the handlers of this module *)

(* The steps at which a handler is reckoned with.                          *)
Claims == {"count", "spend", "subscribe", "join", "sign", "add", "drop", "drop sub", "drop members"}
Joining(q) == proc[q].op \in {"verify", "google"} /\ Awaits(q, "join")
(* Nobody comes to one of them, and nobody new is to join.                 *)
Calm ==
  /\ \A q \in Handlers, s \in Claims : At(q, s)' => proc'[q] = proc[q]
  /\ \A q \in Handlers : Joining(q)' => Joining(q) /\ proc'[q].who = proc[q].who
(* p, which was at a step, goes on to one that comes next, or is done.     *)
Follows(p, step) ==
  /\ \A q \in Handlers \ {p} : proc'[q] = proc[q] \/ proc'[q] = Idle
  /\ \/ proc'[p] = Idle
     \/ /\ \A f \in Fields \ {"todo"} : proc'[p][f] = proc[p][f]
        /\ proc'[p].todo = Tail(proc[p].todo) /\ \A s \in Steps : At(p, s)' => Then(step, s)

LEMMA HeldSteps == \A s \in Claims : s \in AccountSteps /\ s \in Steps
  BY ZenonT(40) DEF Claims, AccountSteps, Steps

LEMMA IdleNowhere ==
  ASSUME NEW q, proc'[q] = Idle
  PROVE  (\A s : ~At(q, s)') /\ ~Joining(q)'
<1>1. Idle.todo = <<>> /\ Idle.op = "idle"
  BY IdleAway
<1>2. DOMAIN Idle.todo = {}
  BY <1>1
<1> QED BY <1>1, <1>2 DEF At, Joining, Awaits

LEMMA AwayNowhere ==
  ASSUME NEW q, Away(proc'[q])
  PROVE  (\A s \in AccountSteps : ~At(q, s)') /\ ~Joining(q)'
<1>1. \A s \in AccountSteps : ~At(q, s)'
  <2> SUFFICES ASSUME NEW s \in AccountSteps, proc'[q].todo # <<>>, Head(proc'[q].todo) = s PROVE FALSE
    BY DEF At
  <2>1. Head(proc'[q].todo) \in OtherSteps
    BY HeadTailProperties DEF Away
  <2> QED BY <2>1, WordsApart
<1>2. "verify" \in AccountOps /\ "google" \in AccountOps
  BY DEF AccountOps
<1> QED BY <1>1, <1>2 DEF Away, Joining

LEMMA AsideOK ==
  ASSUME ProcInv, AsideProc
  PROVE  ProcInv' /\ Calm
<1>1. ProcInv'
  BY DEF ProcInv, AsideProc, Inside, Away, Program
<1>2. \A q \in Handlers : proc'[q] = proc[q] \/ Away(proc'[q])
  BY DEF AsideProc
<1>3. \A q \in Handlers, s \in Claims : At(q, s)' => proc'[q] = proc[q]
  BY <1>2, AwayNowhere, HeldSteps
<1>4. ASSUME NEW q \in Handlers, Joining(q)' PROVE Joining(q) /\ proc'[q].who = proc[q].who
  <2>1. proc'[q] = proc[q]
    BY <1>2, <1>4, AwayNowhere
  <2> QED BY <1>4, <2>1 DEF Joining, Awaits
<1> QED BY <1>1, <1>3, <1>4 DEF Calm

LEMMA CalmDied == ProcInv /\ proc' = Died => ProcInv' /\ Calm
  BY DiedOK, IdleNowhere DEF Calm, Died

LEMMA FollowsOK ==
  ASSUME ProcInv, NEW p \in Handlers, NEW step, At(p, step), Inside(proc[p]), Moved(p)
  PROVE  Follows(p, step)
<1>1. CASE proc' = Died
  BY <1>1 DEF Follows, Died
<1>2. CASE GoesOn(p) /\ proc'[p] = Idle
  BY <1>2 DEF Follows, GoesOn, Only
<1>3. CASE GoesOn(p) /\ proc'[p] # Idle
  <2>1. /\ \A q \in Handlers \ {p} : proc'[q] = proc[q]
        /\ \A f \in Fields \ {"todo"} : proc'[p][f] = proc[p][f]
        /\ proc'[p].todo = Tail(proc[p].todo) /\ proc'[p].todo # <<>>
    BY <1>3 DEF GoesOn, Only
  <2>2. Head(proc[p].todo) = step /\ proc[p].todo # <<>>
    BY DEF At
  <2>3. Then(step, Head(proc'[p].todo))
    BY <2>1, <2>2, TailProgram DEF Inside
  <2> QED BY <2>1, <2>3 DEF Follows, At
<1> QED BY <1>1, <1>2, <1>3 DEF Moved

(* Who is to join after a step was to join before.                         *)
LEMMA StillJoining ==
  ASSUME ProcInv, NEW p \in Handlers, NEW step, At(p, step), Follows(p, step), NEW q \in Handlers, Joining(q)'
  PROVE  Joining(q) /\ proc'[q].who = proc[q].who
<1>1. proc'[q] # Idle
  BY IdleNowhere
<1>2. CASE q # p
  <2>1. proc'[q] = proc[q]
    BY <1>1, <1>2 DEF Follows
  <2> QED BY <2>1 DEF Joining, Awaits
<1>3. CASE q = p
  <2>1. proc'[p].op = proc[p].op /\ proc'[p].who = proc[p].who /\ proc'[p].todo = Tail(proc[p].todo)
    BY <1>1, <1>3 DEF Follows, Fields
  <2>2. PICK i \in DOMAIN Tail(proc[p].todo) : Tail(proc[p].todo)[i] = "join"
    BY <1>3, <2>1 DEF Joining, Awaits
  <2>3. PICK S : proc[p].todo \in Seq(S)
    BY DEF ProcInv, Inside, Away, Program
  <2>4. proc[p].todo # <<>>
    BY DEF At
  <2>5. i + 1 \in DOMAIN proc[p].todo /\ proc[p].todo[i + 1] = "join"
    BY <2>2, <2>3, <2>4, HeadTailProperties
  <2> QED BY <1>3, <2>1, <2>5 DEF Joining, Awaits
<1> QED BY <1>2, <1>3

LEMMA CalmFollows ==
  ASSUME ProcInv, NEW p \in Handlers, NEW step, At(p, step), Follows(p, step), \A s \in Claims : ~Then(step, s)
  PROVE  Calm
<1>1. ASSUME NEW q \in Handlers, NEW s \in Claims, At(q, s)' PROVE proc'[q] = proc[q]
  BY <1>1, IdleNowhere, HeldSteps DEF Follows
<1>2. \A q \in Handlers : Joining(q)' => Joining(q) /\ proc'[q].who = proc[q].who
  BY StillJoining
<1> QED BY <1>1, <1>2 DEF Calm

(* The request a handler begins with.                                      *)
Entry(r) ==
  /\ DOMAIN r = Fields /\ r.op \in AccountOps /\ Program(r.op, r.todo)
  /\ r.todo # <<>> => Head(r.todo) \notin Claims
  /\ r.op \in {"verify", "google"} => \A i \in DOMAIN r.todo : r.todo[i] # "join"
  /\ r.who \in Nat /\ r.saw \in Nat
  /\ r.op \in AdminOps => r.org \in DOMAIN orgs
  /\ r.op \in MemberOps => r.by \in DOMAIN sessions /\ r.org = sessions[r.by].org

LEMMA EntryOK ==
  ASSUME ProcInv, NEW p \in Handlers, NEW kind, NEW r, Begin(p, kind, r), Entry(r)
  PROVE  /\ ProcInv' /\ Calm /\ Only(p) /\ proc[p].todo = <<>>
         /\ \A f \in Fields \ {"no"} : proc'[p][f] = r[f]
         /\ proc'[p].no = calls + 1
<1>1. /\ ProcInv' /\ Only(p) /\ proc[p].todo = <<>>
      /\ \A f \in Fields \ {"no"} : proc'[p][f] = r[f]
      /\ proc'[p].no = calls + 1
  BY BegunOK DEF Entry
<1>2. proc'[p].todo = r.todo /\ proc'[p].op = r.op
  BY <1>1 DEF Fields
<1>3. \A s \in Claims : ~At(p, s)'
  BY <1>2 DEF Entry, At
<1>4. ~Joining(p)'
  BY <1>2 DEF Entry, Joining, Awaits
<1>5. ASSUME NEW q \in Handlers \ {p} PROVE proc'[q] = proc[q] /\ (Joining(q)' => Joining(q))
  <2>1. proc'[q] = proc[q]
    BY <1>1 DEF Only
  <2> QED BY <2>1 DEF Joining, Awaits
<1> QED BY <1>1, <1>3, <1>4, <1>5 DEF Calm

LEMMA PeopleNat == menu \in Menus => menu.people \subseteq Nat /\ menu.calls \in Nat
  BY AccountsAssumption

(* A sign-in, a logout or an order of the super-admin: a list of steps.    *)
LEMMA PlainEntry ==
  ASSUME NEW r, DOMAIN r = Fields, NEW op \in AccountOps \ MemberOps, r.op = op, NEW t, r.todo = t, Program(op, t),
         t # <<>>, Head(t) \notin Claims, op \in {"verify", "google"} => \A i \in DOMAIN t : t[i] # "join",
         r.who \in Nat, r.saw \in Nat, op \in AdminOps => r.org \in DOMAIN orgs
  PROVE  Entry(r)
  BY DEF Entry

LEMMA HandlersFinite == \A S : S \subseteq Handlers => IsFiniteSet(S) /\ Cardinality(S) \in Nat
  BY RequestsAssumption, FS_Subset, FS_CardinalityType

LEMMA FirstSteps ==
  /\ "upsert user" \notin Claims /\ "find code" \notin Claims /\ "find user" \notin Claims /\ "enter" \notin Claims
  /\ "leave" \notin Claims /\ "suspend" \notin Claims /\ "reset" \notin Claims /\ "cut" \notin Claims
  /\ "impersonate" \notin Claims
  BY DEF Claims
LEMMA Heads ==
  /\ \A a : <<a>> # <<>> /\ Head(<<a>>) = a /\ \A i \in DOMAIN <<a>> : <<a>>[i] = a
  /\ \A a, b : <<a, b>> # <<>> /\ Head(<<a, b>>) = a
  OBVIOUS
LEMMA HeadOfFour == \A a, b, c, d : <<a, b, c, d>> # <<>> /\ Head(<<a, b, c, d>>) = a
  OBVIOUS

LEMMA SendEntry ==
  ASSUME menu \in Menus, NEW p \in Handlers, Send(p)
  PROVE  \E kind, r : Begin(p, kind, r) /\ Entry(r) /\ UNCHANGED accounts
<1>1. PICK u \in menu.people : Ask(p, "send", [Idle EXCEPT !.op = "send", !.who = u, !.todo = <<"upsert user", "store code">>])
  BY DEF Send
<1> DEFINE t == <<"upsert user", "store code">>
           r == [Idle EXCEPT !.op = "send", !.who = u, !.todo = t]
<1>2. Program("send", t) /\ t # <<>> /\ Head(t) \notin Claims
  BY SendProgram, FirstSteps, Heads, Zenon
<1>3. Begin(p, "send", r) /\ UNCHANGED accounts
  BY <1>1 DEF Ask
<1> HIDE DEF t
<1>4. DOMAIN r = Fields /\ r.op = "send" /\ r.todo = t /\ r.who = u /\ r.saw = 0
  BY DEF Idle, Fields
<1> HIDE DEF r
<1>5. "send" \in AccountOps \ MemberOps /\ "send" \notin AdminOps /\ "send" \notin {"verify", "google"}
  BY DEF AccountOps, MemberOps, AdminOps
<1>6. u \in Nat
  BY PeopleNat
<1>7. Entry(r)
  BY <1>2, <1>4, <1>5, <1>6, PlainEntry
<1> QED BY <1>3, <1>7

LEMMA VerifyEntry ==
  ASSUME menu \in Menus, NEW p \in Handlers, Verify(p)
  PROVE  \E kind, r : Begin(p, kind, r) /\ Entry(r) /\ UNCHANGED accounts
<1>1. PICK u \in menu.people : Ask(p, "verify", [Idle EXCEPT !.op = "verify", !.who = u, !.todo = <<"find code">>])
  BY DEF Verify
<1> DEFINE t == <<"find code">>
           r == [Idle EXCEPT !.op = "verify", !.who = u, !.todo = t]
<1>2. Program("verify", t) /\ t # <<>> /\ Head(t) \notin Claims
  BY ShortPrograms, FirstSteps, Heads, Zenon
<1>8. \A i \in DOMAIN t : t[i] # "join"
  <2>1. "find code" # "join"
    OBVIOUS
  <2> QED BY <2>1, Heads, Zenon
<1>3. Begin(p, "verify", r) /\ UNCHANGED accounts
  BY <1>1 DEF Ask
<1> HIDE DEF t
<1>4. DOMAIN r = Fields /\ r.op = "verify" /\ r.todo = t /\ r.who = u /\ r.saw = 0
  BY DEF Idle, Fields
<1> HIDE DEF r
<1>5. "verify" \in AccountOps \ MemberOps /\ "verify" \notin AdminOps
  BY DEF AccountOps, MemberOps, AdminOps
<1>6. u \in Nat
  BY PeopleNat
<1>7. Entry(r)
  BY <1>2, <1>4, <1>5, <1>6, <1>8, PlainEntry
<1> QED BY <1>3, <1>7

LEMMA GoogleEntry ==
  ASSUME menu \in Menus, NEW p \in Handlers, Google(p)
  PROVE  \E kind, r : Begin(p, kind, r) /\ Entry(r) /\ UNCHANGED accounts
<1>1. PICK u \in menu.people : Ask(p, "google", [Idle EXCEPT !.op = "google", !.who = u, !.todo = <<"find user">>])
  BY DEF Google
<1> DEFINE t == <<"find user">>
           r == [Idle EXCEPT !.op = "google", !.who = u, !.todo = t]
<1>2. Program("google", t) /\ t # <<>> /\ Head(t) \notin Claims
  BY ShortPrograms, FirstSteps, Heads, Zenon
<1>8. \A i \in DOMAIN t : t[i] # "join"
  <2>1. "find user" # "join"
    OBVIOUS
  <2> QED BY <2>1, Heads, Zenon
<1>3. Begin(p, "google", r) /\ UNCHANGED accounts
  BY <1>1 DEF Ask
<1> HIDE DEF t
<1>4. DOMAIN r = Fields /\ r.op = "google" /\ r.todo = t /\ r.who = u /\ r.saw = 0
  BY DEF Idle, Fields
<1> HIDE DEF r
<1>5. "google" \in AccountOps \ MemberOps /\ "google" \notin AdminOps
  BY DEF AccountOps, MemberOps, AdminOps
<1>6. u \in Nat
  BY PeopleNat
<1>7. Entry(r)
  BY <1>2, <1>4, <1>5, <1>6, <1>8, PlainEntry
<1> QED BY <1>3, <1>7

LEMMA LogoutEntry ==
  ASSUME NEW p \in Handlers, Logout(p)
  PROVE  \E kind, r : Begin(p, kind, r) /\ Entry(r) /\ UNCHANGED accounts
<1>1. PICK s \in DOMAIN sessions :
        Ask(p, "logout", [Idle EXCEPT !.op = "logout", !.by = s, !.todo = <<"leave", "revoke token">>])
  BY DEF Logout
<1> DEFINE t == <<"leave", "revoke token">>
           r == [Idle EXCEPT !.op = "logout", !.by = s, !.todo = t]
<1>2. Program("logout", t) /\ t # <<>> /\ Head(t) \notin Claims
  BY LogoutProgram, FirstSteps, Heads, Zenon
<1>3. Begin(p, "logout", r) /\ UNCHANGED accounts
  BY <1>1 DEF Ask
<1> HIDE DEF t
<1>4. DOMAIN r = Fields /\ r.op = "logout" /\ r.todo = t /\ r.who = 0 /\ r.saw = 0
  BY DEF Idle, Fields
<1> HIDE DEF r
<1>5. "logout" \in AccountOps \ MemberOps /\ "logout" \notin AdminOps /\ "logout" \notin {"verify", "google"}
  BY DEF AccountOps, MemberOps, AdminOps
<1>6. Entry(r)
  BY <1>2, <1>4, <1>5, PlainEntry
<1> QED BY <1>3, <1>6

(* The super-admin's orders.                                               *)
LEMMA AdminEntry ==
  ASSUME NEW p \in Handlers, NEW op \in AdminOps, NEW t, AdminAsks(p, op, t),
         Program(op, t), t # <<>>, Head(t) \notin Claims
  PROVE  \E kind, r : Begin(p, kind, r) /\ Entry(r) /\ UNCHANGED accounts
<1>1. PICK o \in DOMAIN orgs : Ask(p, op, [Idle EXCEPT !.op = op, !.org = o, !.todo = t])
  BY DEF AdminAsks
<1> DEFINE r == [Idle EXCEPT !.op = op, !.org = o, !.todo = t]
<1>2. Begin(p, op, r) /\ UNCHANGED accounts
  BY <1>1 DEF Ask
<1>3. DOMAIN r = Fields /\ r.op = op /\ r.todo = t /\ r.who = 0 /\ r.saw = 0 /\ r.org = o
  BY DEF Idle, Fields
<1> HIDE DEF r
<1>4. op \in AccountOps \ MemberOps /\ op \notin {"verify", "google"}
  BY DEF AccountOps, MemberOps, AdminOps
<1>5. Entry(r)
  BY <1>3, <1>4, PlainEntry
<1> QED BY <1>2, <1>5

LEMMA AdminEntries ==
  ASSUME NEW p \in Handlers, Suspend(p) \/ Reset(p) \/ Delete(p) \/ Impersonate(p)
  PROVE  \E kind, r : Begin(p, kind, r) /\ Entry(r) /\ UNCHANGED accounts
<1>1. \A op \in {"suspend", "reset", "delete", "impersonate"} : op \in AdminOps
  BY DEF AdminOps
<1>2. CASE Suspend(p)
  <2> DEFINE t == <<"suspend", "cut">>
  <2>1. Program("suspend", t) /\ t # <<>> /\ Head(t) \notin Claims
    BY SuspendProgram, FirstSteps, Heads, Zenon
  <2>2. AdminAsks(p, "suspend", t)
    BY <1>2 DEF Suspend
  <2> HIDE DEF t
  <2> QED BY <1>1, <2>1, <2>2, AdminEntry
<1>3. CASE Reset(p)
  <2> DEFINE t == <<"reset">>
  <2>1. Program("reset", t) /\ t # <<>> /\ Head(t) \notin Claims
    <3>1. Program("reset", t)
      BY ShortPrograms, Zenon
    <3>2. t # <<>> /\ Head(t) \notin Claims
      <4>1. "reset" \notin Claims
        BY FirstSteps
      <4>2. t # <<>> /\ Head(t) = "reset"
        BY Heads, Zenon
      <4> QED BY <4>1, <4>2, Zenon
    <3> QED BY <3>1, <3>2, Zenon
  <2>2. AdminAsks(p, "reset", t)
    BY <1>3 DEF Reset
  <2> HIDE DEF t
  <2> QED BY <1>1, <2>1, <2>2, AdminEntry
<1>4. CASE Delete(p)
  <2> DEFINE t == <<"cut", "drop sub", "drop members", "drop org">>
  <2>1. Program("delete", t) /\ t # <<>> /\ Head(t) \notin Claims
    <3>1. Program("delete", t)
      BY DeleteProgram, Zenon
    <3>2. t # <<>> /\ Head(t) \notin Claims
      <4>1. "cut" \notin Claims
        BY FirstSteps
      <4>2. t # <<>> /\ Head(t) = "cut"
        BY HeadOfFour, Zenon
      <4> QED BY <4>1, <4>2, Zenon
    <3> QED BY <3>1, <3>2, Zenon
  <2>2. AdminAsks(p, "delete", t)
    BY <1>4 DEF Delete
  <2> HIDE DEF t
  <2> QED BY <1>1, <2>1, <2>2, AdminEntry
<1>5. CASE Impersonate(p)
  <2> DEFINE t == <<"impersonate">>
  <2>1. Program("impersonate", t) /\ t # <<>> /\ Head(t) \notin Claims
    <3>1. Program("impersonate", t)
      BY ShortPrograms, Zenon
    <3>2. t # <<>> /\ Head(t) \notin Claims
      <4>1. "impersonate" \notin Claims
        BY FirstSteps
      <4>2. t # <<>> /\ Head(t) = "impersonate"
        BY Heads, Zenon
      <4> QED BY <4>1, <4>2, Zenon
    <3> QED BY <3>1, <3>2, Zenon
  <2>2. AdminAsks(p, "impersonate", t)
    BY <1>5 DEF Impersonate
  <2> HIDE DEF t
  <2> QED BY <1>1, <2>1, <2>2, AdminEntry
<1> QED BY <1>2, <1>3, <1>4, <1>5

(* The owner's requests.                                                   *)
LEMMA OwnersEntry ==
  ASSUME menu \in Menus, NEW p \in Handlers, NEW op \in MemberOps, NEW u \in menu.people, NEW saw \in Nat, NEW v,
         OwnersAsk(p, op, u, saw, v), Program(op, <<"enter", "context">> \o v), v \in Seq(Steps)
  PROVE  \E kind, r : Begin(p, kind, r) /\ Entry(r) /\ UNCHANGED accounts
<1> DEFINE t == <<"enter", "context">> \o v
<1>1. PICK s \in DOMAIN sessions :
        Ask(p, op, [Idle EXCEPT !.op = op, !.by = s, !.who = u, !.org = sessions[s].org, !.saw = saw, !.todo = t])
  BY DEF OwnersAsk
<1>2. Program(op, t) /\ t # <<>> /\ Head(t) = "enter"
  <2>1. Len(v) \in Nat /\ <<"enter", "context">> \in Seq(Steps)
    BY DEF Steps
  <2>2. t \in Seq(Steps) /\ Len(t) = 2 + Len(v) /\ t[1] = "enter"
    BY <2>1
  <2> HIDE DEF t
  <2>3. Len(t) # 0
    BY <2>1, <2>2
  <2> QED BY <2>2, <2>3, EmptySeq DEF t
<1> HIDE DEF t
<1> DEFINE r == [Idle EXCEPT !.op = op, !.by = s, !.who = u, !.org = sessions[s].org, !.saw = saw, !.todo = t]
<1>3. Begin(p, op, r) /\ UNCHANGED accounts
  BY <1>1 DEF Ask
<1>4. /\ DOMAIN r = Fields /\ r.op = op /\ r.todo = t /\ r.who = u /\ r.saw = saw
      /\ r.by = s /\ r.org = sessions[s].org
  BY DEF Idle, Fields
<1> HIDE DEF r
<1>5. op \in AccountOps \ AdminOps /\ op \notin {"verify", "google"}
  BY DEF AccountOps, MemberOps, AdminOps
<1>6. u \in Nat
  BY PeopleNat
<1>7. Entry(r)
  BY <1>2, <1>4, <1>5, <1>6, FirstSteps DEF Entry
<1> QED BY <1>3, <1>7

LEMMA OwnersEntries ==
  ASSUME menu \in Menus, NEW p \in Handlers, Invite(p) \/ Remove(p) \/ ChangeRole(p)
  PROVE  \E kind, r : Begin(p, kind, r) /\ Entry(r) /\ UNCHANGED accounts
<1>1. "invite" \in MemberOps /\ "remove" \in MemberOps /\ "role" \in MemberOps
  BY DEF MemberOps
<1>2. CASE Invite(p)
  <2> DEFINE v == <<"upsert user", "not a member", "seats", "add">>
  <2>1. PICK u \in menu.people : OwnersAsk(p, "invite", u, 0, v)
    BY <1>2 DEF Invite
  <2>2. v \in Seq(Steps)
    BY DEF Steps, AccountSteps
  <2>3. Program("invite", <<"enter", "context">> \o v)
    BY InviteProgram
  <2> HIDE DEF v
  <2> QED BY <1>1, <2>1, <2>2, <2>3, OwnersEntry
<1>3. CASE Remove(p)
  <2> DEFINE v == <<"find member", "drop">>
  <2>1. PICK u \in menu.people : OwnersAsk(p, "remove", u, 0, v)
    BY <1>3 DEF Remove
  <2>2. v \in Seq(Steps)
    BY DEF Steps, AccountSteps
  <2>3. Program("remove", <<"enter", "context">> \o v)
    BY RemoveProgram
  <2> HIDE DEF v
  <2> QED BY <1>1, <2>1, <2>2, <2>3, OwnersEntry
<1>4. CASE ChangeRole(p)
  <2> DEFINE v == <<"set role">>
  <2>1. PICK u \in menu.people, n \in 0..2 : OwnersAsk(p, "role", u, n, v)
    BY <1>4 DEF ChangeRole
  <2>2. v \in Seq(Steps)
    BY DEF Steps, AccountSteps
  <2>3. Program("role", <<"enter", "context">> \o v)
    BY RoleProgram
  <2> HIDE DEF v
  <2>4. n \in Nat
    OBVIOUS
  <2> QED BY <1>1, <2>1, <2>2, <2>3, <2>4, OwnersEntry
<1> QED BY <1>2, <1>3, <1>4

(* A request that only begins.                                             *)
Asks(p) ==
  \/ Send(p) \/ Verify(p) \/ Google(p) \/ Invite(p) \/ Remove(p) \/ ChangeRole(p) \/ Logout(p)
  \/ Suspend(p) \/ Reset(p) \/ Delete(p) \/ Impersonate(p)

LEMMA Entries ==
  ASSUME menu \in Menus, NEW p \in Handlers, Asks(p)
  PROVE  \E kind, r : Begin(p, kind, r) /\ Entry(r) /\ UNCHANGED accounts
  BY SendEntry, VerifyEntry, GoogleEntry, LogoutEntry, AdminEntries, OwnersEntries DEF Asks

(* What every handler of this module refers to, wherever it is.            *)
Rooted(q) == proc'[q].op \in AccountOps =>
  /\ proc'[q].who \in Nat /\ proc'[q].saw \in Nat /\ proc'[q].no \in Nat
  /\ proc'[q].op \in AdminOps => proc'[q].org \in DOMAIN orgs
  /\ proc'[q].op \in MemberOps => proc'[q].by \in DOMAIN sessions /\ proc'[q].org = sessions[proc'[q].by].org
Loyal == \A q \in Handlers : Rooted(q)

LEMMA RootedIdle == \A q : proc'[q] = Idle => Rooted(q)
  BY IdleAway DEF Rooted, Away

LEMMA RootedSame ==
  ASSUME RefInv, NEW q \in Handlers, \A f \in Fields \ {"todo", "id"} : proc'[q][f] = proc[q][f]
  PROVE  Rooted(q)
<1>1. /\ proc'[q].op = proc[q].op /\ proc'[q].who = proc[q].who /\ proc'[q].saw = proc[q].saw
      /\ proc'[q].no = proc[q].no /\ proc'[q].org = proc[q].org /\ proc'[q].by = proc[q].by
  BY DEF Fields
<1> QED BY <1>1 DEF Rooted, RefInv, Refers

LEMMA FollowsLoyal ==
  ASSUME RefInv, NEW p \in Handlers, NEW step, Follows(p, step)
  PROVE  Loyal
  BY RootedIdle, RootedSame DEF Follows, Loyal

LEMMA AsideLoyal ==
  ASSUME RefInv, AsideProc
  PROVE  Loyal
<1> SUFFICES ASSUME NEW q \in Handlers PROVE Rooted(q)
  BY DEF Loyal
<1>1. CASE proc'[q] = proc[q]
  BY <1>1, RootedSame
<1>2. CASE Away(proc'[q])
  BY <1>2 DEF Away, Rooted
<1> QED BY <1>1, <1>2 DEF AsideProc

LEMMA EntryLoyal ==
  ASSUME ProcInv, RefInv, NEW p \in Handlers, NEW kind, NEW r, Begin(p, kind, r), Entry(r)
  PROVE  Loyal
<1>1. /\ Only(p) /\ proc'[p].no = calls + 1 /\ calls \in Nat
      /\ \A f \in Fields \ {"no"} : proc'[p][f] = r[f]
  BY EntryOK DEF RefInv, RowInv
<1>2. Rooted(p)
  <2>1. /\ proc'[p].op = r.op /\ proc'[p].who = r.who /\ proc'[p].saw = r.saw
        /\ proc'[p].org = r.org /\ proc'[p].by = r.by
    BY <1>1 DEF Fields
  <2> QED BY <1>1, <2>1 DEF Rooted, Entry
<1>3. \A q \in Handlers \ {p} : Rooted(q)
  BY <1>1, RootedSame DEF Only
<1> QED BY <1>2, <1>3 DEF Loyal

LEMMA TurnOK ==
  ASSUME ProcInv, RefInv, NEW p \in Handlers, NEW step \in AccountSteps, At(p, step),
         proc' = Advance(p) \/ proc' = Ended(p) \/ proc' = Thrown(p)
  PROVE  /\ ProcInv' /\ Follows(p, step) /\ Loyal
         /\ Inside(proc[p]) /\ May(proc[p].op, step)
<1>1. Inside(proc[p]) /\ May(proc[p].op, step)
  BY AtInside
<1>2. proc[p].todo # <<>>
  BY DEF At
<1>3. Moved(p) /\ ProcInv'
  BY <1>2, AdvanceOK, EndedOK, ThrownOK DEF Moved
<1>4. Follows(p, step)
  BY <1>1, <1>3, FollowsOK
<1> QED BY <1>1, <1>3, <1>4, FollowsLoyal

LEMMA CalmTurn ==
  ASSUME ProcInv, RefInv, NEW p \in Handlers, NEW step \in AccountSteps, At(p, step), \A s \in Claims : ~Then(step, s),
         proc' = Advance(p) \/ proc' = Ended(p) \/ proc' = Thrown(p)
  PROVE  ProcInv' /\ Calm /\ Loyal
  BY TurnOK, CalmFollows

(* After which steps nobody is at one of those.                            *)
LEMMA CalmWords1 ==
  /\ \A s \in Claims : ~Then("upsert user", s) /\ ~Then("store code", s) /\ ~Then("count", s) /\ ~Then("spend", s)
  /\ \A s \in Claims : ~Then("sweep codes", s) /\ ~Then("make user", s) /\ ~Then("sign", s) /\ ~Then("not a member", s)
  /\ \A s \in Claims : ~Then("add", s) /\ ~Then("drop", s) /\ ~Then("set role", s) /\ ~Then("leave", s)
  BY DEF Then, Claims
LEMMA CalmWords2 ==
  /\ \A s \in Claims : ~Then("revoke token", s) /\ ~Then("suspend", s) /\ ~Then("reset", s) /\ ~Then("drop members", s)
  /\ \A s \in Claims : ~Then("drop org", s) /\ ~Then("impersonate", s) /\ ~Then("enter", s) /\ ~Then("context", s)
  BY DEF Then, Claims
LEMMA StepWords1 ==
  /\ "upsert user" \in AccountSteps /\ "store code" \in AccountSteps /\ "count" \in AccountSteps
  /\ "spend" \in AccountSteps /\ "sweep codes" \in AccountSteps /\ "make user" \in AccountSteps
  /\ "sign" \in AccountSteps /\ "not a member" \in AccountSteps /\ "add" \in AccountSteps
  /\ "drop" \in AccountSteps /\ "set role" \in AccountSteps /\ "leave" \in AccountSteps
  BY DEF AccountSteps
LEMMA StepWords2 ==
  /\ "revoke token" \in AccountSteps /\ "suspend" \in AccountSteps /\ "reset" \in AccountSteps
  /\ "drop members" \in AccountSteps /\ "drop org" \in AccountSteps /\ "impersonate" \in AccountSteps
  BY DEF AccountSteps
LEMMA StepWords3 ==
  /\ "find code" \in AccountSteps /\ "find user" \in AccountSteps /\ "home" \in AccountSteps
  /\ "make org" \in AccountSteps /\ "subscribe" \in AccountSteps /\ "join" \in AccountSteps
  /\ "seats" \in AccountSteps /\ "find member" \in AccountSteps /\ "cut" \in AccountSteps /\ "drop sub" \in AccountSteps
  BY DEF AccountSteps

(* Steps after which nobody comes to one of those.                         *)
LEMMA UpsertUserCalm ==
  ASSUME ProcInv, RefInv, NEW p \in Handlers, UpsertUser(p)
  PROVE  ProcInv' /\ Calm /\ Loyal
<1>1. At(p, "upsert user") /\ (proc' = Advance(p) \/ proc' = Ended(p) \/ proc' = Thrown(p))
  BY DEF UpsertUser
<1>2. "upsert user" \in AccountSteps /\ \A s \in Claims : ~Then("upsert user", s)
  BY CalmWords1, StepWords1
<1> QED BY <1>1, <1>2, CalmTurn
LEMMA StoreCodeCalm ==
  ASSUME ProcInv, RefInv, NEW p \in Handlers, StoreCode(p)
  PROVE  ProcInv' /\ Calm /\ Loyal
<1>1. At(p, "store code") /\ (proc' = Advance(p) \/ proc' = Ended(p) \/ proc' = Thrown(p))
  BY DEF StoreCode
<1>2. "store code" \in AccountSteps /\ \A s \in Claims : ~Then("store code", s)
  BY CalmWords1, StepWords1
<1> QED BY <1>1, <1>2, CalmTurn
LEMMA CountCalm ==
  ASSUME ProcInv, RefInv, NEW p \in Handlers, Count(p)
  PROVE  ProcInv' /\ Calm /\ Loyal
<1>1. At(p, "count") /\ (proc' = Advance(p) \/ proc' = Ended(p) \/ proc' = Thrown(p))
  BY DEF Count
<1>2. "count" \in AccountSteps /\ \A s \in Claims : ~Then("count", s)
  BY CalmWords1, StepWords1
<1> QED BY <1>1, <1>2, CalmTurn
LEMMA SpendCalm ==
  ASSUME ProcInv, RefInv, NEW p \in Handlers, Spend(p)
  PROVE  ProcInv' /\ Calm /\ Loyal
<1>1. At(p, "spend") /\ (proc' = Advance(p) \/ proc' = Ended(p) \/ proc' = Thrown(p))
  BY DEF Spend
<1>2. "spend" \in AccountSteps /\ \A s \in Claims : ~Then("spend", s)
  BY CalmWords1, StepWords1
<1> QED BY <1>1, <1>2, CalmTurn
LEMMA SweepCodesCalm ==
  ASSUME ProcInv, RefInv, NEW p \in Handlers, SweepCodes(p)
  PROVE  ProcInv' /\ Calm /\ Loyal
<1>1. At(p, "sweep codes") /\ (proc' = Advance(p) \/ proc' = Ended(p) \/ proc' = Thrown(p))
  BY DEF SweepCodes
<1>2. "sweep codes" \in AccountSteps /\ \A s \in Claims : ~Then("sweep codes", s)
  BY CalmWords1, StepWords1
<1> QED BY <1>1, <1>2, CalmTurn
LEMMA MakeUserCalm ==
  ASSUME ProcInv, RefInv, NEW p \in Handlers, MakeUser(p)
  PROVE  ProcInv' /\ Calm /\ Loyal
<1>1. At(p, "make user") /\ (proc' = Advance(p) \/ proc' = Ended(p) \/ proc' = Thrown(p))
  BY DEF MakeUser
<1>2. "make user" \in AccountSteps /\ \A s \in Claims : ~Then("make user", s)
  BY CalmWords1, StepWords1
<1> QED BY <1>1, <1>2, CalmTurn
LEMMA SignCalm ==
  ASSUME ProcInv, RefInv, NEW p \in Handlers, Sign(p)
  PROVE  ProcInv' /\ Calm /\ Loyal
<1>1. At(p, "sign") /\ (proc' = Advance(p) \/ proc' = Ended(p) \/ proc' = Thrown(p))
  BY DEF Sign
<1>2. "sign" \in AccountSteps /\ \A s \in Claims : ~Then("sign", s)
  BY CalmWords1, StepWords1
<1> QED BY <1>1, <1>2, CalmTurn
LEMMA NotAMemberCalm ==
  ASSUME ProcInv, RefInv, NEW p \in Handlers, NotAMember(p)
  PROVE  ProcInv' /\ Calm /\ Loyal
<1>1. At(p, "not a member") /\ (proc' = Advance(p) \/ proc' = Ended(p) \/ proc' = Thrown(p))
  BY DEF NotAMember
<1>2. "not a member" \in AccountSteps /\ \A s \in Claims : ~Then("not a member", s)
  BY CalmWords1, StepWords1
<1> QED BY <1>1, <1>2, CalmTurn
LEMMA AddCalm ==
  ASSUME ProcInv, RefInv, NEW p \in Handlers, Add(p)
  PROVE  ProcInv' /\ Calm /\ Loyal
<1>1. At(p, "add") /\ (proc' = Advance(p) \/ proc' = Ended(p) \/ proc' = Thrown(p))
  BY DEF Add
<1>2. "add" \in AccountSteps /\ \A s \in Claims : ~Then("add", s)
  BY CalmWords1, StepWords1
<1> QED BY <1>1, <1>2, CalmTurn
LEMMA DropCalm ==
  ASSUME ProcInv, RefInv, NEW p \in Handlers, Drop(p)
  PROVE  ProcInv' /\ Calm /\ Loyal
<1>1. At(p, "drop") /\ (proc' = Advance(p) \/ proc' = Ended(p) \/ proc' = Thrown(p))
  BY DEF Drop
<1>2. "drop" \in AccountSteps /\ \A s \in Claims : ~Then("drop", s)
  BY CalmWords1, StepWords1
<1> QED BY <1>1, <1>2, CalmTurn
LEMMA SetRoleCalm ==
  ASSUME ProcInv, RefInv, NEW p \in Handlers, SetRole(p)
  PROVE  ProcInv' /\ Calm /\ Loyal
<1>1. At(p, "set role") /\ (proc' = Advance(p) \/ proc' = Ended(p) \/ proc' = Thrown(p))
  BY DEF SetRole, RoleSet
<1>2. "set role" \in AccountSteps /\ \A s \in Claims : ~Then("set role", s)
  BY CalmWords1, StepWords1
<1> QED BY <1>1, <1>2, CalmTurn
LEMMA LeaveCalm ==
  ASSUME ProcInv, RefInv, NEW p \in Handlers, Leave(p)
  PROVE  ProcInv' /\ Calm /\ Loyal
<1>1. At(p, "leave") /\ (proc' = Advance(p) \/ proc' = Ended(p) \/ proc' = Thrown(p))
  BY DEF Leave
<1>2. "leave" \in AccountSteps /\ \A s \in Claims : ~Then("leave", s)
  BY CalmWords1, StepWords1
<1> QED BY <1>1, <1>2, CalmTurn
LEMMA RevokeTokenCalm ==
  ASSUME ProcInv, RefInv, NEW p \in Handlers, RevokeToken(p)
  PROVE  ProcInv' /\ Calm /\ Loyal
<1>1. At(p, "revoke token") /\ (proc' = Advance(p) \/ proc' = Ended(p) \/ proc' = Thrown(p))
  BY DEF RevokeToken, Revoked
<1>2. "revoke token" \in AccountSteps /\ \A s \in Claims : ~Then("revoke token", s)
  BY CalmWords2, StepWords2
<1> QED BY <1>1, <1>2, CalmTurn
LEMMA SuspendOrgCalm ==
  ASSUME ProcInv, RefInv, NEW p \in Handlers, SuspendOrg(p)
  PROVE  ProcInv' /\ Calm /\ Loyal
<1>1. At(p, "suspend") /\ (proc' = Advance(p) \/ proc' = Ended(p) \/ proc' = Thrown(p))
  BY DEF SuspendOrg, OrgUpdate
<1>2. "suspend" \in AccountSteps /\ \A s \in Claims : ~Then("suspend", s)
  BY CalmWords2, StepWords2
<1> QED BY <1>1, <1>2, CalmTurn
LEMMA ResetOrgCalm ==
  ASSUME ProcInv, RefInv, NEW p \in Handlers, ResetOrg(p)
  PROVE  ProcInv' /\ Calm /\ Loyal
<1>1. At(p, "reset") /\ (proc' = Advance(p) \/ proc' = Ended(p) \/ proc' = Thrown(p))
  BY DEF ResetOrg, OrgUpdate
<1>2. "reset" \in AccountSteps /\ \A s \in Claims : ~Then("reset", s)
  BY CalmWords2, StepWords2
<1> QED BY <1>1, <1>2, CalmTurn
LEMMA DropMembersCalm ==
  ASSUME ProcInv, RefInv, NEW p \in Handlers, DropMembers(p)
  PROVE  ProcInv' /\ Calm /\ Loyal
<1>1. At(p, "drop members") /\ (proc' = Advance(p) \/ proc' = Ended(p) \/ proc' = Thrown(p))
  BY DEF DropMembers
<1>2. "drop members" \in AccountSteps /\ \A s \in Claims : ~Then("drop members", s)
  BY CalmWords2, StepWords2
<1> QED BY <1>1, <1>2, CalmTurn
LEMMA DropOrgCalm ==
  ASSUME ProcInv, RefInv, NEW p \in Handlers, DropOrg(p)
  PROVE  ProcInv' /\ Calm /\ Loyal
<1>1. At(p, "drop org") /\ (proc' = Advance(p) \/ proc' = Ended(p) \/ proc' = Thrown(p))
  BY DEF DropOrg
<1>2. "drop org" \in AccountSteps /\ \A s \in Claims : ~Then("drop org", s)
  BY CalmWords2, StepWords2
<1> QED BY <1>1, <1>2, CalmTurn
LEMMA ImpersonateMemberCalm ==
  ASSUME ProcInv, RefInv, NEW p \in Handlers, ImpersonateMember(p)
  PROVE  ProcInv' /\ Calm /\ Loyal
<1>1. At(p, "impersonate") /\ (proc' = Advance(p) \/ proc' = Ended(p) \/ proc' = Thrown(p))
  BY DEF ImpersonateMember
<1>2. "impersonate" \in AccountSteps /\ \A s \in Claims : ~Then("impersonate", s)
  BY CalmWords2, StepWords2
<1> QED BY <1>1, <1>2, CalmTurn

LEMMA PairOf == \A a, b : Head(<<a, b>>) = a /\ \A i \in DOMAIN <<a, b>> : <<a, b>>[i] = a \/ <<a, b>>[i] = b
  OBVIOUS

LEMMA FindUserCalm ==
  ASSUME ProcInv, RefInv, NEW p \in Handlers, FindUser(p)
  PROVE  ProcInv' /\ Calm /\ Loyal
<1>1. At(p, "find user") /\ \E t \in {<<"home">>, <<"make user", "home">>} : proc' = [proc EXCEPT ![p].todo = t]
  BY DEF FindUser, Goes
<1>2. PICK t : t \in {<<"home">>, <<"make user", "home">>} /\ proc' = [proc EXCEPT ![p].todo = t]
  BY <1>1
<1>3. Inside(proc[p]) /\ May(proc[p].op, "find user")
  BY <1>1, StepWords3, AtInside
<1>4. proc[p].op = "google"
  BY <1>3 DEF May
<1>5. Program("google", t)
  BY <1>2, ShortPrograms, GoogleProgram, Zenon
<1>6. Head(t) \in {"home", "make user"} /\ \A i \in DOMAIN t : t[i] # "join"
  <2>1. CASE t = <<"home">>
    BY <2>1
  <2>2. CASE t = <<"make user", "home">>
    <3>1. Head(t) = "make user" /\ \A i \in DOMAIN t : t[i] = "make user" \/ t[i] = "home"
      BY <2>2, PairOf, Zenon
    <3>2. "home" # "join" /\ "make user" # "join"
      OBVIOUS
    <3> QED BY <3>1, <3>2, Zenon
  <2> QED BY <1>2, <2>1, <2>2
<1>7. "home" \notin Claims /\ "make user" \notin Claims
  BY DEF Claims
<1>8. proc' = [proc EXCEPT ![p].todo = t]
  BY <1>2
<1>9. Only(p) /\ proc'[p] = [proc[p] EXCEPT !.todo = t] /\ DOMAIN proc[p] = Fields
  BY <1>3, <1>8 DEF ProcInv, Only, Inside
<1>10. /\ DOMAIN proc'[p] = Fields /\ proc'[p].todo = t /\ proc'[p].op = proc[p].op
       /\ \A f \in Fields \ {"todo"} : proc'[p][f] = proc[p][f]
  BY <1>9, TodoChanged
<1>11. Inside(proc'[p])
  BY <1>3, <1>4, <1>5, <1>10 DEF Inside
<1>12. (\A s \in Claims : ~At(p, s)') /\ ~Joining(p)'
  <2>1. Head(t) \notin Claims
    BY <1>6, <1>7, Zenon
  <2> QED BY <1>6, <1>10, <2>1, Zenon DEF At, Joining, Awaits
<1>13. Calm
  BY <1>9, <1>12 DEF Calm, Only, Joining, Awaits
<1>14. Loyal
  BY <1>9, <1>10, RootedSame DEF Loyal, Only
<1> QED BY <1>9, <1>11, <1>13, <1>14, OnlyOK

(* Admission, of any request.                                              *)
LEMMA AdmittedCalm ==
  ASSUME ProcInv, RefInv, NEW p \in Handlers, Enter(p) \/ Context(p) \/ Token(p)
  PROVE  ProcInv' /\ Calm /\ Loyal
<1>1. /\ At(p, "enter") \/ At(p, "context") \/ At(p, "token")
      /\ proc' = Advance(p) \/ proc' = Ended(p)
  BY DEF Enter, Context, Token
<1>2. proc[p].todo # <<>>
  BY <1>1 DEF At
<1>3. CASE Away(proc[p])
  <2>1. AsideProc
    BY <1>1, <1>2, <1>3, AsideAdvance, AsideEnded
  <2> QED BY <2>1, AsideOK, AsideLoyal
<1>4. CASE Inside(proc[p])
  <2>1. PICK step \in {"enter", "context", "token"} : At(p, step)
    BY <1>1
  <2>2. step # "token"
    <3> SUFFICES ASSUME step = "token" PROVE FALSE
      OBVIOUS
    <3>1. "token" \notin Steps
      BY NicheFacts, OtherWordsApart
    <3>2. Away(proc[p])
      BY <2>1, <3>1, AtAway
    <3>3. ~Away(proc[p])
      BY <1>4 DEF Inside, Away
    <3> QED BY <3>2, <3>3
  <2>3. \A s \in Claims : ~Then(step, s)
    BY <2>1, <2>2, CalmWords2
  <2>4. Moved(p) /\ ProcInv'
    BY <1>1, <1>2, AdvanceOK, EndedOK DEF Moved
  <2>5. Follows(p, step)
    BY <1>4, <2>1, <2>4, FollowsOK
  <2> QED BY <2>1, <2>3, <2>4, <2>5, CalmFollows, FollowsLoyal
<1> QED BY <1>3, <1>4 DEF ProcInv

LEMMA AdminCreateCalm ==
  ASSUME ProcInv, RefInv, menu \in Menus, NEW p \in Handlers, AdminCreate(p)
  PROVE  ProcInv' /\ Calm /\ Loyal
<1>1. PICK u \in menu.people : Begin(p, "found", [Idle EXCEPT !.op = "found", !.org = Len(orgs) + 1, !.who = u])
  BY DEF AdminCreate
<1> DEFINE r == [Idle EXCEPT !.op = "found", !.org = Len(orgs) + 1, !.who = u]
<1>2. DOMAIN r = Fields /\ r.op = "found" /\ r.todo = <<>> /\ r.who = u /\ r.saw = 0
  BY DEF Idle, Fields
<1>3. Begin(p, "found", r)
  BY <1>1
<1> HIDE DEF r
<1>4. "found" \in AccountOps \ MemberOps /\ "found" \notin AdminOps /\ "found" \notin {"verify", "google"}
  BY DEF AccountOps, MemberOps, AdminOps
<1>5. u \in Nat
  BY PeopleNat
<1>6. Entry(r)
  BY <1>2, <1>4, <1>5, NoProgram DEF Entry
<1> QED BY <1>3, <1>6, EntryOK, EntryLoyal

LEMMA AsksCalm ==
  ASSUME ProcInv, RefInv, menu \in Menus, NEW p \in Handlers, Asks(p)
  PROVE  ProcInv' /\ Calm /\ Loyal /\ UNCHANGED accounts
  BY Entries, EntryOK, EntryLoyal

-----------------------------------------------------------------------------
(* The steps of the console, for what they do to the rows of this module   *)

Stored == <<codes, orgs, members, sessions, slips>>
(* Steps that write rows, and after which nobody comes to one of those.    *)
CodeStep(p) == StoreCode(p) \/ Count(p) \/ Spend(p) \/ SweepCodes(p)
OrgStep(p) == SuspendOrg(p) \/ ResetOrg(p) \/ DropOrg(p)
PeopleStep(p) == Add(p) \/ Drop(p) \/ SetRole(p) \/ DropMembers(p) \/ AdminCreate(p)
TokenStep(p) == Sign(p) \/ RevokeToken(p) \/ ImpersonateMember(p)
(* Steps after which somebody does.                                        *)
HeldStep(p) ==
  \/ FindCode(p) \/ FindHome(p) \/ MakeOrg(p) \/ SubscribeOrg(p) \/ Join(p) \/ CountSeats(p)
  \/ FindMember(p) \/ CutOrg(p) \/ DropSub(p)
(* All others.                                                             *)
Still == Calm /\ Loyal /\ UNCHANGED Stored /\ (now' = now \/ now' = now + 1)

(* Three fields of p's record are given new values.                        *)
LEMMA ChangedId ==
  ASSUME ProcInv, NEW p \in Handlers, Inside(proc[p]), NEW t, NEW x, NEW y,
         proc' = [proc EXCEPT ![p].todo = t, ![p].id = x, ![p].saw = y]
  PROVE  /\ Only(p) /\ DOMAIN proc'[p] = Fields /\ proc'[p].todo = t /\ proc'[p].id = x /\ proc'[p].saw = y
         /\ \A f \in Fields \ {"todo", "id", "saw"} : proc'[p][f] = proc[p][f]
<1>1. DOMAIN proc[p] = Fields /\ "todo" \in Fields /\ "id" \in Fields /\ "saw" \in Fields
  BY DEF Inside, Fields
<1>2. Only(p) /\ proc'[p] = [proc[p] EXCEPT !.todo = t, !.id = x, !.saw = y]
  BY DEF ProcInv, Only
<1> QED BY <1>1, <1>2

LEMMA ChangedOrg ==
  ASSUME ProcInv, NEW p \in Handlers, Inside(proc[p]), NEW t, NEW x, NEW y,
         proc' = [proc EXCEPT ![p].todo = t, ![p].org = x, ![p].saw = y]
  PROVE  /\ Only(p) /\ DOMAIN proc'[p] = Fields /\ proc'[p].todo = t /\ proc'[p].org = x /\ proc'[p].saw = y
         /\ \A f \in Fields \ {"todo", "org", "saw"} : proc'[p][f] = proc[p][f]
<1>1. DOMAIN proc[p] = Fields /\ "todo" \in Fields /\ "org" \in Fields /\ "saw" \in Fields
  BY DEF Inside, Fields
<1>2. Only(p) /\ proc'[p] = [proc[p] EXCEPT !.todo = t, !.org = x, !.saw = y]
  BY DEF ProcInv, Only
<1> QED BY <1>1, <1>2

LEMMA SeqAt == ASSUME NEW S, NEW s \in Seq(S), NEW i \in DOMAIN s PROVE s[i] \in S
  OBVIOUS

LEMMA TripleOf ==
  \A a, b, c : /\ <<a, b, c>> # <<>> /\ Head(<<a, b, c>>) = a
               /\ \A i \in DOMAIN <<a, b, c>> : <<a, b, c>>[i] = a \/ <<a, b, c>>[i] = b \/ <<a, b, c>>[i] = c
  OBVIOUS

(* The greatest of some numbers up to a bound.                             *)
LEMMA MaxIn ==
  ASSUME NEW n \in Nat, NEW S \in SUBSET (1..n), S # {}
  PROVE  Max(S) \in S /\ \A y \in S : y <= Max(S)
<1> DEFINE R == StrictSubsetOrdering(1..n)
           Tops(T) == {x \in T : \A y \in T : x >= y}
           Bad == {T \in SUBSET (1..n) : T # {} /\ Tops(T) = {}}
<1>1. IsWellFoundedOn(R, SUBSET (1..n))
  <2>1. IsFiniteSet(1..n)
    BY FS_Interval
  <2>2. FiniteSubsetsOf(1..n) = SUBSET (1..n)
    BY <2>1, FS_FiniteSubsetsOfFinite
  <2> QED BY <2>2, FS_StrictSubsetOrderingWellFounded
<1>2. Bad = {}
  <2> SUFFICES ASSUME Bad # {} PROVE FALSE
    OBVIOUS
  <2>1. Bad \subseteq SUBSET (1..n)
    OBVIOUS
  <2> HIDE DEF R
  <2>2. PICK T \in Bad : \A U \in Bad : ~(<<U, T>> \in R)
    <3> HIDE DEF Bad
    <3> QED BY <1>1, <2>1, WFMin
  <2>3. PICK x \in T : TRUE
    OBVIOUS
  <2> DEFINE U == T \ {x}
  <2>4. U \in SUBSET (1..n) /\ <<U, T>> \in R
    BY <2>2, <2>3 DEF R, StrictSubsetOrdering
  <2>5. U = {} \/ Tops(U) # {}
    BY <2>2, <2>4
  <2>6. CASE U = {}
    <3>1. x \in Tops(T)
      BY <2>3, <2>6
    <3> QED BY <3>1
  <2>7. CASE Tops(U) # {}
    <3>1. PICK y \in U : \A z \in U : y >= z
      BY <2>7
    <3>2. x \in 1..n /\ y \in 1..n
      BY <2>3, <2>4, <3>1
    <3>3. CASE x >= y
      <4>1. \A z \in T : x >= z
        BY <2>4, <3>1, <3>2, <3>3
      <4> QED BY <2>3, <4>1
    <3>4. CASE y >= x
      <4>1. \A z \in T : y >= z
        BY <2>4, <3>1, <3>2, <3>4
      <4> QED BY <3>1, <4>1
    <3> QED BY <3>2, <3>3, <3>4
  <2> QED BY <2>5, <2>6, <2>7
<1>3. Tops(S) # {}
  BY <1>2
<1>4. \E z \in S : \A y \in S : z >= y
  BY <1>3
<1>5. Max(S) \in S /\ \A y \in S : Max(S) >= y
  BY <1>4 DEF Max
<1> QED BY <1>5

LEMMA FindCodeMoves ==
  ASSUME ProcInv, RefInv, NEW p \in Handlers, FindCode(p), NEW good,
         good = {k \in DOMAIN codes : codes[k].user = proc[p].who /\ codes[k].state = "live" /\ ~codes[k].late}
  PROVE  /\ ProcInv' /\ Loyal /\ Only(p) /\ proc[p].op = "verify"
         /\ \A s \in Claims : At(p, s)' => s \in {"count", "spend"}
         /\ ~Joining(p)'
         /\ \/ proc'[p] = Idle /\ codes' = codes
            \/ /\ proc'[p].op = "verify" /\ proc'[p].id \in good /\ proc'[p].saw = codes[proc'[p].id].tries
               /\ proc'[p].todo # <<>> /\ (At(p, "count") \/ At(p, "spend"))'
               /\ codes' = [codes EXCEPT ![proc'[p].id].reads = @ + 1,
                                         ![proc'[p].id].overlaps = @ + Cardinality(Comparing(proc'[p].id) \ {p})]
<1> DEFINE k == Max(good)
<1>1. Inside(proc[p]) /\ May(proc[p].op, "find code") /\ proc[p].todo # <<>>
  BY StepWords3, AtInside DEF FindCode, At
<1>2. proc[p].op = "verify"
  BY <1>1 DEF May
<1>3. CASE good = {} /\ proc' = Ended(p) /\ codes' = codes
  <2>1. Only(p) /\ proc'[p] = Idle
    BY <1>3, SetOK DEF Ended
  <2>2. ProcInv'
    BY <1>3, EndedOK
  <2>3. Loyal
    BY <2>1, RootedIdle, RootedSame DEF Only, Loyal
  <2> QED BY <1>2, <1>3, <2>1, <2>2, <2>3, IdleNowhere
<1>4. CASE /\ good # {}
           /\ \E program \in {<<"spend", "sweep codes", "home">>, <<"count">>} :
                proc' = [proc EXCEPT ![p].todo = program, ![p].id = k, ![p].saw = codes[k].tries]
           /\ codes' = [codes EXCEPT ![k].reads = @ + 1, ![k].overlaps = @ + Cardinality(Comparing(k) \ {p})]
  <2>1. k \in good
    <3>1. codes \in Seq(CodeRow)
      BY DEF RefInv, RowInv
    <3>2. good \in SUBSET (1..Len(codes)) /\ Len(codes) \in Nat
      BY <3>1
    <3> QED BY <1>4, <3>2, MaxIn
  <2> HIDE DEF k
  <2>2. PICK t \in {<<"spend", "sweep codes", "home">>, <<"count">>} :
          proc' = [proc EXCEPT ![p].todo = t, ![p].id = k, ![p].saw = codes[k].tries]
    BY <1>4
  <2>3. Program("verify", t)
    BY <2>2, ShortPrograms, VerifyProgram, Zenon
  <2>4. t # <<>> /\ Head(t) \in {"spend", "count"} /\ \A i \in DOMAIN t : t[i] # "join"
    <3>1. CASE t = <<"count">>
      BY <3>1
    <3>2. CASE t = <<"spend", "sweep codes", "home">>
      <4>1. t # <<>> /\ Head(t) = "spend" /\ \A i \in DOMAIN t : t[i] = "spend" \/ t[i] = "sweep codes" \/ t[i] = "home"
        BY <3>2, TripleOf, Zenon
      <4>2. "spend" # "join" /\ "sweep codes" # "join" /\ "home" # "join"
        OBVIOUS
      <4> QED BY <4>1, <4>2, Zenon
    <3> QED BY <2>2, <3>1, <3>2
  <2>6. "op" \in Fields \ {"todo", "id", "saw"}
    BY DEF Fields
  <2>7. /\ Only(p) /\ DOMAIN proc'[p] = Fields /\ proc'[p].todo = t /\ proc'[p].id = k /\ proc'[p].saw = codes[k].tries
        /\ \A h \in Fields \ {"todo", "id", "saw"} : proc'[p][h] = proc[p][h]
    BY <1>1, <2>2, ChangedId
  <2>8. proc'[p].op = "verify"
    BY <1>2, <2>6, <2>7
  <2>9. ProcInv'
    <3>1. "verify" \in AccountOps
      BY DEF AccountOps
    <3> QED BY <2>3, <2>7, <2>8, <3>1, OnlyOK DEF Inside
  <2>10. Loyal
    <3>1. "verify" \notin AdminOps /\ "verify" \notin MemberOps /\ "verify" \in AccountOps
      BY DEF AdminOps, MemberOps, AccountOps
    <3>2. proc'[p].who = proc[p].who /\ proc'[p].no = proc[p].no
      BY <2>7 DEF Fields
    <3>3. proc[p].who \in Nat /\ proc[p].no \in Nat
      BY <1>2, <3>1 DEF RefInv, Refers
    <3>4. proc'[p].saw \in Nat
      <4>1. codes \in Seq(CodeRow) /\ k \in DOMAIN codes
        BY <2>1 DEF RefInv, RowInv
      <4>2. codes[k] \in CodeRow
        BY <4>1, SeqAt
      <4> QED BY <2>7, <4>2 DEF CodeRow
    <3>5. Rooted(p)
      BY <2>8, <3>1, <3>2, <3>3, <3>4 DEF Rooted
    <3> QED BY <2>7, <3>5, RootedSame DEF Only, Loyal
  <2>11. (\A s \in Claims : At(p, s)' => s \in {"count", "spend"}) /\ ~Joining(p)' /\ (At(p, "count") \/ At(p, "spend"))'
    BY <2>4, <2>7 DEF At, Joining, Awaits
  <2> QED BY <1>2, <1>4, <2>1, <2>4, <2>7, <2>8, <2>9, <2>10, <2>11
<1> QED BY <1>3, <1>4, ZenonT(40) DEF FindCode

LEMMA AddedOps ==
  /\ "verify" \in AccountOps /\ "google" \in AccountOps /\ "verify" \notin AdminOps /\ "google" \notin AdminOps
  /\ "verify" \notin MemberOps /\ "google" \notin MemberOps
  BY DEF AccountOps, AdminOps, MemberOps

LEMMA SignInOps ==
  ASSUME ProcInv, RefInv, NEW p \in Handlers, NEW step \in {"home", "make org", "subscribe", "join"}, At(p, step)
  PROVE  /\ Inside(proc[p]) /\ proc[p].op \in {"verify", "google"} /\ proc[p].todo # <<>>
         /\ proc[p].who \in Nat /\ proc[p].no \in Nat /\ proc[p].saw \in Nat
<1>1. step \in AccountSteps
  BY StepWords3
<1>2. Inside(proc[p]) /\ May(proc[p].op, step)
  BY <1>1, AtInside
<1>3. proc[p].op \in {"verify", "google"}
  BY <1>2 DEF May
<1>4. Refers(p)
  BY <1>3, AddedOps DEF RefInv
<1> QED BY <1>2, <1>3, <1>4 DEF Refers, At

(* The programs of a first sign-in.                                        *)
LEMMA JoinedHead ==
  ASSUME NEW S, NEW v \in Seq(S), Len(v) = 3, NEW t \in Seq(S)
  PROVE  Head(v \o t) = v[1] /\ v \o t # <<>>
  OBVIOUS

LEMMA FoundingHead == \A t : t \in Seq(Steps) => Head(Founding \o t) \notin Claims /\ Founding \o t # <<>>
<1> DEFINE v == Founding
<1>1. v \in Seq(Steps) /\ Len(v) = 3 /\ v[1] = "make org"
  BY DEF Founding, Steps, AccountSteps
<1>2. v[1] \notin Claims
  BY <1>1 DEF Claims
<1> HIDE DEF v
<1>3. v \in Seq(Steps) /\ Len(v) = 3
  BY <1>1, Zenon
<1>4. ASSUME NEW t \in Seq(Steps) PROVE Head(v \o t) \notin Claims /\ v \o t # <<>>
  BY <1>2, <1>3, <1>4, JoinedHead, Zenon
<1> QED BY <1>4 DEF v

LEMMA SignsProgram ==
  ASSUME NEW p, proc[p].op \in {"verify", "google"}
  PROVE  /\ Program(proc[p].op, Founding \o Signs(p)) /\ Program(proc[p].op, Signs(p))
         /\ Head(Founding \o Signs(p)) \notin Claims /\ Founding \o Signs(p) # <<>>
         /\ Signs(p) = <<>> \/ Signs(p) = <<"sign">>
         /\ Signs(p) = <<>> <=> proc[p].op = "google"
<1>1. CASE proc[p].op = "verify"
  <2>1. Signs(p) = <<"sign">>
    BY <1>1 DEF Signs
  <2>2. Signs(p) \in Seq(Steps) /\ Signs(p) # <<>>
    BY <2>1 DEF Steps, AccountSteps
  <2> QED BY <1>1, <2>1, <2>2, SignProgram, ShortPrograms, FoundingHead
<1>2. CASE proc[p].op = "google"
  <2>1. Signs(p) = <<>>
    BY <1>2 DEF Signs
  <2>2. Signs(p) \in Seq(Steps)
    BY <2>1
  <2> QED BY <1>2, <2>1, <2>2, FoundProgram, NoProgram, FoundingHead
<1> QED BY <1>1, <1>2

LEMMA NewProgram ==
  ASSUME ProcInv, RefInv, NEW p \in Handlers, Inside(proc[p]), NEW t, Program(proc[p].op, t),
         Only(p), DOMAIN proc'[p] = Fields, proc'[p].todo = t, proc'[p].op = proc[p].op
  PROVE  ProcInv'
  BY OnlyOK DEF Inside

LEMMA NewRooted ==
  ASSUME ProcInv, RefInv, NEW p \in Handlers, Only(p), proc'[p].op \in {"verify", "google"},
         proc'[p].who \in Nat, proc'[p].no \in Nat, proc'[p].saw \in Nat
  PROVE  Loyal
<1>1. Rooted(p)
  BY AddedOps DEF Rooted
<1> QED BY <1>1, RootedSame DEF Only, Loyal

LEMMA FindHomeMoves ==
  ASSUME ProcInv, RefInv, NEW p \in Handlers, FindHome(p)
  PROVE  /\ ProcInv' /\ Loyal /\ Only(p) /\ proc[p].op \in {"verify", "google"} /\ proc[p].who \in Nat
         /\ \/ /\ HomesOf(proc[p].who) = {}
               /\ \A s \in Claims : ~At(p, s)'
               /\ proc'[p].who = proc[p].who
            \/ /\ \E m \in HomesOf(proc[p].who) :
                    \/ /\ proc'[p] = Idle /\ sessions' = Append(sessions, Session(proc[p].who, m.org, m.role, now, Week))
                    \/ /\ proc'[p].org = m.org /\ sessions' = sessions
                       /\ \A s \in Claims : At(p, s)' => s = "sign"
               /\ slips' = slips /\ ~Joining(p)'
<1> DEFINE u == proc[p].who
<1>1. At(p, "home")
  BY DEF FindHome, Home
<1>2. /\ Inside(proc[p]) /\ proc[p].op \in {"verify", "google"} /\ proc[p].todo # <<>>
      /\ proc[p].who \in Nat /\ proc[p].no \in Nat /\ proc[p].saw \in Nat
  BY <1>1, SignInOps
<1>3. DOMAIN proc = Handlers /\ DOMAIN proc[p] = Fields
  BY <1>2 DEF ProcInv, Inside
<1>4. CASE HomesOf(u) = {} /\ proc' = Goes(p, Founding \o Signs(p))
  <2> DEFINE t == Founding \o Signs(p)
  <2>1. Program(proc[p].op, t) /\ Head(t) \notin Claims
    BY <1>2, SignsProgram
  <2>2. proc' = [proc EXCEPT ![p].todo = t]
    BY <1>4 DEF Goes
  <2> HIDE DEF t
  <2>3. Only(p) /\ proc'[p] = [proc[p] EXCEPT !.todo = t]
    BY <1>3, <2>2 DEF Only
  <2>4. /\ DOMAIN proc'[p] = Fields /\ proc'[p].todo = t /\ proc'[p].op = proc[p].op
        /\ \A f \in Fields \ {"todo"} : proc'[p][f] = proc[p][f]
    BY <1>3, <2>3, TodoChanged
  <2>5. proc'[p].who = proc[p].who /\ proc'[p].no = proc[p].no /\ proc'[p].saw = proc[p].saw
    BY <2>4 DEF Fields
  <2>6. ProcInv'
    BY <1>2, <2>1, <2>3, <2>4, NewProgram
  <2>7. Loyal
    BY <1>2, <2>3, <2>4, <2>5, NewRooted
  <2>8. \A s \in Claims : ~At(p, s)'
    BY <2>1, <2>4 DEF At
  <2> QED BY <1>2, <1>4, <2>3, <2>5, <2>6, <2>7, <2>8
<1>5. ASSUME NEW m \in HomesOf(u), Signs(p) = <<>>, proc' = Ended(p), SignedNow(p, m.org, m.role), UNCHANGED slips
      PROVE  /\ ProcInv' /\ Loyal /\ Only(p) /\ ~Joining(p)' /\ proc'[p] = Idle
             /\ sessions' = Append(sessions, Session(u, m.org, m.role, now, Week))
  <2>1. Only(p) /\ proc'[p] = Idle
    BY <1>5, SetOK DEF Ended
  <2>2. ProcInv'
    BY <1>5, EndedOK
  <2>3. Loyal
    BY <2>1, RootedIdle, RootedSame DEF Only, Loyal
  <2>4. proc[p].op # "verify"
    BY <1>2, <1>5, SignsProgram
  <2> QED BY <1>5, <2>1, <2>2, <2>3, <2>4, IdleNowhere DEF SignedNow
<1>6. ASSUME NEW m \in HomesOf(u), Signs(p) # <<>>, SignedNow(p, m.org, m.role), UNCHANGED slips,
             NEW n \in {0, 1}, proc' = [proc EXCEPT ![p].todo = Signs(p), ![p].org = m.org, ![p].saw = n]
      PROVE  /\ ProcInv' /\ Loyal /\ Only(p) /\ ~Joining(p)' /\ proc'[p].org = m.org /\ sessions' = sessions
             /\ \A s \in Claims : At(p, s)' => s = "sign"
  <2>1. Signs(p) = <<"sign">> /\ proc[p].op = "verify" /\ Program(proc[p].op, Signs(p))
    BY <1>2, <1>6, SignsProgram
  <2> DEFINE t == Signs(p)
  <2>2. proc' = [proc EXCEPT ![p].todo = t, ![p].org = m.org, ![p].saw = n]
    BY <1>6
  <2>3. Program(proc[p].op, t) /\ Head(t) = "sign" /\ \A i \in DOMAIN t : t[i] # "join"
    BY <2>1
  <2> HIDE DEF t
  <2>4. /\ Only(p) /\ DOMAIN proc'[p] = Fields /\ proc'[p].todo = t /\ proc'[p].org = m.org /\ proc'[p].saw = n
        /\ \A f \in Fields \ {"todo", "org", "saw"} : proc'[p][f] = proc[p][f]
    BY <1>2, <2>2, ChangedOrg
  <2>5. proc'[p].who = proc[p].who /\ proc'[p].no = proc[p].no /\ proc'[p].op = proc[p].op
    BY <2>4 DEF Fields
  <2>6. ProcInv'
    BY <1>2, <2>3, <2>4, <2>5, NewProgram
  <2>7. n \in Nat
    OBVIOUS
  <2>8. Loyal
    BY <1>2, <2>4, <2>5, <2>7, NewRooted
  <2>9. (\A s \in Claims : At(p, s)' => s = "sign") /\ ~Joining(p)'
    BY <2>3, <2>4 DEF At, Joining, Awaits
  <2> QED BY <1>6, <2>1, <2>4, <2>6, <2>8, <2>9 DEF SignedNow
<1>7. CASE \E m \in HomesOf(u) :
             /\ proc' = IF Signs(p) = <<>> THEN Ended(p)
                        ELSE [proc EXCEPT ![p].todo = Signs(p), ![p].org = m.org, ![p].saw = IF m.role = "owner" THEN 1 ELSE 0]
             /\ SignedNow(p, m.org, m.role) /\ UNCHANGED slips
  <2>1. PICK m \in HomesOf(u) :
             /\ proc' = IF Signs(p) = <<>> THEN Ended(p)
                        ELSE [proc EXCEPT ![p].todo = Signs(p), ![p].org = m.org, ![p].saw = IF m.role = "owner" THEN 1 ELSE 0]
             /\ SignedNow(p, m.org, m.role) /\ UNCHANGED slips
    BY <1>7
  <2>2. CASE Signs(p) = <<>>
    BY <1>2, <1>5, <2>1, <2>2
  <2>3. CASE Signs(p) # <<>>
    BY <1>2, <1>6, <2>1, <2>3
  <2> QED BY <2>2, <2>3
<1> QED BY <1>4, <1>7 DEF FindHome, Home

LEMMA TailJoining ==
  ASSUME ProcInv, NEW p \in Handlers, proc[p].todo # <<>>, proc'[p].todo = Tail(proc[p].todo),
         proc'[p].op = proc[p].op, Joining(p)'
  PROVE  Joining(p)
<1>1. PICK i \in DOMAIN Tail(proc[p].todo) : Tail(proc[p].todo)[i] = "join"
  BY DEF Joining, Awaits
<1>2. PICK S : proc[p].todo \in Seq(S)
  BY DEF ProcInv, Inside, Away, Program
<1>3. i + 1 \in DOMAIN proc[p].todo /\ proc[p].todo[i + 1] = "join"
  BY <1>1, <1>2, HeadTailProperties
<1> QED BY <1>3 DEF Joining, Awaits

LEMMA MakeOrgMoves ==
  ASSUME ProcInv, RefInv, NEW p \in Handlers, MakeOrg(p)
  PROVE  /\ ProcInv' /\ Loyal /\ Only(p) /\ proc[p].op \in {"verify", "google"}
         /\ proc'[p].org = Len(orgs) + 1
         /\ \A s \in Claims : At(p, s)' => s = "subscribe"
         /\ Joining(p)' => Joining(p)
         /\ proc'[p].who = proc[p].who
<1> DEFINE t == Tail(proc[p].todo)
<1>1. At(p, "make org") /\ proc' = [proc EXCEPT ![p].todo = Tail(@), ![p].org = Len(orgs) + 1, ![p].saw = 1]
  BY DEF MakeOrg
<1>2. /\ Inside(proc[p]) /\ proc[p].op \in {"verify", "google"} /\ proc[p].todo # <<>>
      /\ proc[p].who \in Nat /\ proc[p].no \in Nat /\ proc[p].saw \in Nat
  BY <1>1, SignInOps
<1>3. Program(proc[p].op, t) /\ (t # <<>> => Then("make org", Head(t)))
  BY <1>1, <1>2, TailProgram DEF Inside, At
<1>4. proc' = [proc EXCEPT ![p].todo = t, ![p].org = Len(orgs) + 1, ![p].saw = 1]
  BY <1>1 DEF ProcInv
<1> DEFINE n == Len(orgs) + 1
<1> HIDE DEF n
<1>5. /\ Only(p) /\ DOMAIN proc'[p] = Fields /\ proc'[p].todo = t /\ proc'[p].org = n /\ proc'[p].saw = 1
      /\ \A f \in Fields \ {"todo", "org", "saw"} : proc'[p][f] = proc[p][f]
  <2> HIDE DEF t
  <2>1. proc' = [proc EXCEPT ![p].todo = t, ![p].org = n, ![p].saw = 1]
    BY <1>4 DEF n
  <2> QED BY <1>2, <2>1, ChangedOrg
<1>6. proc'[p].who = proc[p].who /\ proc'[p].no = proc[p].no /\ proc'[p].op = proc[p].op
  BY <1>5 DEF Fields
<1>7. ProcInv'
  BY <1>2, <1>3, <1>5, <1>6, NewProgram
<1>8. 1 \in Nat
  OBVIOUS
<1>9. Loyal
  BY <1>2, <1>5, <1>6, <1>8, NewRooted
<1>10. \A s : Then("make org", s) => s = "subscribe"
  BY DEF Then
<1>11. \A s \in Claims : At(p, s)' => s = "subscribe"
  BY <1>3, <1>5, <1>10 DEF At
<1>12. Joining(p)' => Joining(p)
  BY <1>2, <1>5, <1>6, TailJoining
<1> QED BY <1>2, <1>5, <1>6, <1>7, <1>9, <1>11, <1>12 DEF n

LEMMA FindMemberMoves ==
  ASSUME ProcInv, RefInv, NEW p \in Handlers, FindMember(p)
  PROVE  /\ ProcInv' /\ Loyal /\ Only(p) /\ ~Joining(p)'
         /\ \A s \in Claims : At(p, s)' => s = "drop"
         /\ \/ proc'[p] = Idle
            \/ \E m \in NotSelf(p) : /\ m.role # "owner" /\ proc'[p].id = m.id
                                     /\ proc'[p].org = proc[p].org /\ proc'[p].who = proc[p].who
<1> DEFINE t == Tail(proc[p].todo)
<1>1. /\ At(p, "find member")
      /\ \/ proc' = Ended(p)
         \/ \E m \in NotSelf(p) : m.role # "owner" /\ proc' = [proc EXCEPT ![p].todo = Tail(@), ![p].id = m.id]
  BY DEF FindMember, FoundMember
<1>2. Inside(proc[p]) /\ May(proc[p].op, "find member") /\ proc[p].todo # <<>>
  BY <1>1, StepWords3, AtInside DEF At
<1>3. proc[p].op = "remove"
  BY <1>2 DEF May
<1>4. CASE proc' = Ended(p)
  <2>1. Only(p) /\ proc'[p] = Idle
    BY <1>4, SetOK DEF Ended
  <2>2. ProcInv'
    BY <1>4, EndedOK
  <2>3. Loyal
    BY <2>1, RootedIdle, RootedSame DEF Only, Loyal
  <2> QED BY <2>1, <2>2, <2>3, IdleNowhere
<1>5. CASE \E m \in NotSelf(p) : m.role # "owner" /\ proc' = [proc EXCEPT ![p].todo = Tail(@), ![p].id = m.id]
  <2>1. PICK m \in NotSelf(p) : m.role # "owner" /\ proc' = [proc EXCEPT ![p].todo = Tail(@), ![p].id = m.id]
    BY <1>5
  <2>2. Program(proc[p].op, t) /\ (t # <<>> => Then("find member", Head(t)))
    BY <1>1, <1>2, TailProgram DEF Inside, At
  <2>3. DOMAIN proc = Handlers /\ DOMAIN proc[p] = Fields /\ "todo" \in Fields /\ "id" \in Fields
    BY <1>2 DEF ProcInv, Inside, Fields
  <2>4. Only(p) /\ proc'[p] = [proc[p] EXCEPT !.todo = t, !.id = m.id]
    BY <2>1, <2>3 DEF Only
  <2> HIDE DEF t
  <2>5. /\ DOMAIN proc'[p] = Fields /\ proc'[p].todo = t /\ proc'[p].id = m.id
        /\ \A f \in Fields \ {"todo", "id"} : proc'[p][f] = proc[p][f]
    BY <2>3, <2>4
  <2>6. proc'[p].who = proc[p].who /\ proc'[p].org = proc[p].org /\ proc'[p].op = proc[p].op
    BY <2>5 DEF Fields
  <2>7. ProcInv'
    BY <1>2, <2>2, <2>4, <2>5, <2>6, NewProgram
  <2>8. Loyal
    BY <2>4, <2>5, RootedSame DEF Only, Loyal
  <2>9. \A s : Then("find member", s) => s = "drop"
    BY DEF Then
  <2>10. \A s \in Claims : At(p, s)' => s = "drop"
    BY <2>2, <2>5, <2>9 DEF At
  <2>11. ~Joining(p)'
    BY <1>3, <2>6 DEF Joining
  <2> QED BY <2>1, <2>4, <2>5, <2>6, <2>7, <2>8, <2>10, <2>11
<1> QED BY <1>1, <1>4, <1>5

LEMMA SubscribeOrgMoves ==
  ASSUME ProcInv, RefInv, NEW p \in Handlers, SubscribeOrg(p)
  PROVE  /\ ProcInv' /\ Follows(p, "subscribe") /\ Loyal
         /\ Inside(proc[p]) /\ May(proc[p].op, "subscribe") /\ At(p, "subscribe")
<1>1. At(p, "subscribe") /\ (proc' = Advance(p) \/ proc' = Ended(p) \/ proc' = Thrown(p))
  BY DEF SubscribeOrg
<1>2. "subscribe" \in AccountSteps
  BY StepWords1, StepWords3
<1> QED BY <1>1, <1>2, TurnOK
LEMMA JoinMoves ==
  ASSUME ProcInv, RefInv, NEW p \in Handlers, Join(p)
  PROVE  /\ ProcInv' /\ Follows(p, "join") /\ Loyal
         /\ Inside(proc[p]) /\ May(proc[p].op, "join") /\ At(p, "join")
<1>1. At(p, "join") /\ (proc' = Advance(p) \/ proc' = Ended(p) \/ proc' = Thrown(p))
  BY DEF Join
<1>2. "join" \in AccountSteps
  BY StepWords1, StepWords3
<1> QED BY <1>1, <1>2, TurnOK
LEMMA CountSeatsMoves ==
  ASSUME ProcInv, RefInv, NEW p \in Handlers, CountSeats(p)
  PROVE  /\ ProcInv' /\ Follows(p, "seats") /\ Loyal
         /\ Inside(proc[p]) /\ May(proc[p].op, "seats") /\ At(p, "seats")
<1>1. At(p, "seats") /\ (proc' = Advance(p) \/ proc' = Ended(p) \/ proc' = Thrown(p))
  BY DEF CountSeats
<1>2. "seats" \in AccountSteps
  BY StepWords1, StepWords3
<1> QED BY <1>1, <1>2, TurnOK
LEMMA CutOrgMoves ==
  ASSUME ProcInv, RefInv, NEW p \in Handlers, CutOrg(p)
  PROVE  /\ ProcInv' /\ Follows(p, "cut") /\ Loyal
         /\ Inside(proc[p]) /\ May(proc[p].op, "cut") /\ At(p, "cut")
<1>1. At(p, "cut") /\ (proc' = Advance(p) \/ proc' = Ended(p) \/ proc' = Thrown(p))
  BY DEF CutOrg, Cut
<1>2. "cut" \in AccountSteps
  BY StepWords1, StepWords3
<1> QED BY <1>1, <1>2, TurnOK
LEMMA DropSubMoves ==
  ASSUME ProcInv, RefInv, NEW p \in Handlers, DropSub(p)
  PROVE  /\ ProcInv' /\ Follows(p, "drop sub") /\ Loyal
         /\ Inside(proc[p]) /\ May(proc[p].op, "drop sub") /\ At(p, "drop sub")
<1>1. At(p, "drop sub") /\ (proc' = Advance(p) \/ proc' = Ended(p) \/ proc' = Thrown(p))
  BY DEF DropSub
<1>2. "drop sub" \in AccountSteps
  BY StepWords1, StepWords3
<1> QED BY <1>1, <1>2, TurnOK
LEMMA CountMoves ==
  ASSUME ProcInv, RefInv, NEW p \in Handlers, Count(p)
  PROVE  /\ ProcInv' /\ Follows(p, "count") /\ Loyal
         /\ Inside(proc[p]) /\ May(proc[p].op, "count") /\ At(p, "count")
<1>1. At(p, "count") /\ (proc' = Advance(p) \/ proc' = Ended(p) \/ proc' = Thrown(p))
  BY DEF Count
<1>2. "count" \in AccountSteps
  BY StepWords1, StepWords3
<1> QED BY <1>1, <1>2, TurnOK
LEMMA SpendMoves ==
  ASSUME ProcInv, RefInv, NEW p \in Handlers, Spend(p)
  PROVE  /\ ProcInv' /\ Follows(p, "spend") /\ Loyal
         /\ Inside(proc[p]) /\ May(proc[p].op, "spend") /\ At(p, "spend")
<1>1. At(p, "spend") /\ (proc' = Advance(p) \/ proc' = Ended(p) \/ proc' = Thrown(p))
  BY DEF Spend
<1>2. "spend" \in AccountSteps
  BY StepWords1, StepWords3
<1> QED BY <1>1, <1>2, TurnOK
LEMMA SignMoves ==
  ASSUME ProcInv, RefInv, NEW p \in Handlers, Sign(p)
  PROVE  /\ ProcInv' /\ Follows(p, "sign") /\ Loyal
         /\ Inside(proc[p]) /\ May(proc[p].op, "sign") /\ At(p, "sign")
<1>1. At(p, "sign") /\ (proc' = Advance(p) \/ proc' = Ended(p) \/ proc' = Thrown(p))
  BY DEF Sign
<1>2. "sign" \in AccountSteps
  BY StepWords1, StepWords3
<1> QED BY <1>1, <1>2, TurnOK
LEMMA AddMoves ==
  ASSUME ProcInv, RefInv, NEW p \in Handlers, Add(p)
  PROVE  /\ ProcInv' /\ Follows(p, "add") /\ Loyal
         /\ Inside(proc[p]) /\ May(proc[p].op, "add") /\ At(p, "add")
<1>1. At(p, "add") /\ (proc' = Advance(p) \/ proc' = Ended(p) \/ proc' = Thrown(p))
  BY DEF Add
<1>2. "add" \in AccountSteps
  BY StepWords1, StepWords3
<1> QED BY <1>1, <1>2, TurnOK
LEMMA DropMoves ==
  ASSUME ProcInv, RefInv, NEW p \in Handlers, Drop(p)
  PROVE  /\ ProcInv' /\ Follows(p, "drop") /\ Loyal
         /\ Inside(proc[p]) /\ May(proc[p].op, "drop") /\ At(p, "drop")
<1>1. At(p, "drop") /\ (proc' = Advance(p) \/ proc' = Ended(p) \/ proc' = Thrown(p))
  BY DEF Drop
<1>2. "drop" \in AccountSteps
  BY StepWords1, StepWords3
<1> QED BY <1>1, <1>2, TurnOK
LEMMA SetRoleMoves ==
  ASSUME ProcInv, RefInv, NEW p \in Handlers, SetRole(p)
  PROVE  /\ ProcInv' /\ Follows(p, "set role") /\ Loyal
         /\ Inside(proc[p]) /\ May(proc[p].op, "set role") /\ At(p, "set role")
<1>1. At(p, "set role") /\ (proc' = Advance(p) \/ proc' = Ended(p) \/ proc' = Thrown(p))
  BY DEF SetRole, RoleSet
<1>2. "set role" \in AccountSteps
  BY StepWords1, StepWords3
<1> QED BY <1>1, <1>2, TurnOK

LEMMA CalmSteps ==
  ASSUME ProcInv, RefInv, menu \in Menus, NEW p \in Handlers,
         CodeStep(p) \/ OrgStep(p) \/ PeopleStep(p) \/ TokenStep(p)
  PROVE  ProcInv' /\ Loyal /\ Calm
<1>1. CASE CodeStep(p)
  BY <1>1, StoreCodeCalm, CountCalm, SpendCalm, SweepCodesCalm, Zenon DEF CodeStep
<1>2. CASE OrgStep(p)
  BY <1>2, SuspendOrgCalm, ResetOrgCalm, DropOrgCalm, Zenon DEF OrgStep
<1>3. CASE PeopleStep(p)
  BY <1>3, AddCalm, DropCalm, SetRoleCalm, DropMembersCalm, AdminCreateCalm, Zenon DEF PeopleStep
<1>4. CASE TokenStep(p)
  BY <1>4, SignCalm, RevokeTokenCalm, ImpersonateMemberCalm, Zenon DEF TokenStep
<1> QED BY <1>1, <1>2, <1>3, <1>4

LEMMA HeldMoves ==
  ASSUME ProcInv, RefInv, NEW p \in Handlers, HeldStep(p)
  PROVE  ProcInv' /\ Loyal
<1>1. FindCode(p) => ProcInv' /\ Loyal
  <2> SUFFICES ASSUME FindCode(p) PROVE ProcInv' /\ Loyal
    OBVIOUS
  <2> DEFINE good == {k \in DOMAIN codes : codes[k].user = proc[p].who /\ codes[k].state = "live" /\ ~codes[k].late}
  <2> HIDE DEF good
  <2> QED BY FindCodeMoves DEF good
<1> QED BY <1>1, FindHomeMoves, MakeOrgMoves, SubscribeOrgMoves, JoinMoves, CountSeatsMoves, FindMemberMoves,
           CutOrgMoves, DropSubMoves, Zenon DEF HeldStep

(* The steps of this module that write none of its rows but users.         *)
PlainStep(p) == UpsertUser(p) \/ FindUser(p) \/ MakeUser(p) \/ NotAMember(p) \/ Leave(p)

LEMMA PlainStill ==
  ASSUME ProcInv, RefInv, NEW p \in Handlers, PlainStep(p)
  PROVE  ProcInv' /\ Still
<1>1. ProcInv' /\ Loyal /\ Calm
  BY UpsertUserCalm, FindUserCalm, MakeUserCalm, NotAMemberCalm, LeaveCalm, Zenon DEF PlainStep
<1>2. UNCHANGED Stored /\ now' = now
  BY DEF PlainStep, UpsertUser, FindUser, MakeUser, NotAMember, Leave, accounts, Stored
<1> QED BY <1>1, <1>2 DEF Still

LEMMA AsideStill == ProcInv /\ RefInv /\ Aside => ProcInv' /\ Still
<1> SUFFICES ASSUME ProcInv, RefInv, Aside PROVE ProcInv' /\ Still
  OBVIOUS
<1>1. AsideProc /\ UNCHANGED accounts
  BY DEF Aside
<1>2. UNCHANGED Stored /\ now' = now
  BY <1>1 DEF accounts, Stored
<1> QED BY <1>1, <1>2, AsideOK, AsideLoyal DEF Still

LEMMA Nobody == ProcInv /\ RefInv /\ proc' = proc => ProcInv' /\ Calm /\ Loyal
  BY NobodyMoves, AsideOK, AsideLoyal

(* Every step of the console.                                              *)
Steadily == Calm /\ \E p \in Handlers : CodeStep(p) \/ OrgStep(p) \/ PeopleStep(p) \/ TokenStep(p)
Ageing == Calm /\ CodeExpires
Catalogued == Still \/ Ageing \/ Steadily \/ \E p \in Handlers : HeldStep(p)

LEMMA AccountsCatalog ==
  ASSUME ProcInv, RefInv, menu \in Menus, NEW p \in Handlers, AccountsStep(p)
  PROVE  ProcInv' /\ Loyal /\ Catalogued
<1>1. Asks(p) \/ PlainStep(p) \/ CodeStep(p) \/ OrgStep(p) \/ PeopleStep(p) \/ TokenStep(p) \/ HeldStep(p)
  BY DEF AccountsStep, Asks, PlainStep, CodeStep, OrgStep, PeopleStep, TokenStep, HeldStep
<1>2. CASE Asks(p)
  <2>1. ProcInv' /\ Calm /\ Loyal /\ UNCHANGED accounts
    BY <1>2, AsksCalm
  <2>2. UNCHANGED Stored /\ now' = now
    BY <2>1 DEF accounts, Stored
  <2> QED BY <2>1, <2>2 DEF Still, Catalogued
<1>3. CASE PlainStep(p)
  BY <1>3, PlainStill DEF Still, Catalogued
<1>4. CASE CodeStep(p) \/ OrgStep(p) \/ PeopleStep(p) \/ TokenStep(p)
  BY <1>4, CalmSteps DEF Steadily, Catalogued
<1>5. CASE HeldStep(p)
  BY <1>5, HeldMoves DEF Catalogued
<1> QED BY <1>1, <1>2, <1>3, <1>4, <1>5, Zenon

LEMMA Catalog ==
  ASSUME ProcInv, RefInv, menu \in Menus, [Next]_vars
  PROVE  ProcInv' /\ Loyal /\ Catalogued
<1>1. CASE UNCHANGED vars
  <2>1. proc' = proc /\ UNCHANGED Stored /\ now' = now
    BY <1>1 DEF vars, requests, accounts, Stored
  <2> QED BY <2>1, Nobody DEF Still, Catalogued
<1>2. ASSUME NEW p \in Handlers, Admitted(p) PROVE ProcInv' /\ Loyal /\ Catalogued
  <2>1. ProcInv' /\ Calm /\ Loyal
    BY <1>2, AdmittedCalm DEF Admitted
  <2>2. UNCHANGED Stored /\ now' = now
    BY <1>2 DEF Admitted, Enter, Context, Token, accounts, Stored
  <2> QED BY <2>1, <2>2 DEF Still, Catalogued
<1>3. ASSUME NEW p \in Handlers, Request(p) PROVE ProcInv' /\ Loyal /\ Catalogued
  <2>1. AccountsStep(p) \/ TenancyStep(p) \/ ListStep(p)
    BY <1>3 DEF Request
  <2> QED BY <2>1, AccountsCatalog, TenancyAside, ListAside, AsideStill DEF Catalogued, Still
<1>4. CASE BookStep \/ PageStep \/ LeadsPageStep
  BY <1>4, BookAside, PageAside, LeadsPageAside, AsideStill DEF Catalogued, Still
<1>5. CASE World
  <2>1. CASE Tick
    <3>1. proc' = proc /\ UNCHANGED Stored /\ now' = now + 1
      BY <2>1 DEF Tick, requests, Stored
    <3> QED BY <3>1, Nobody DEF Still, Catalogued
  <2>2. CASE CodeExpires
    <3>1. proc' = proc
      BY <2>2 DEF CodeExpires, requests
    <3> QED BY <2>2, <3>1, Nobody DEF Ageing, Catalogued
  <2>3. CASE Crash /\ UNCHANGED accounts
    <3>1. proc' = Died /\ UNCHANGED Stored /\ now' = now
      BY <2>3 DEF Crash, accounts, Stored
    <3>2. ProcInv' /\ Calm
      BY <3>1, CalmDied
    <3>3. Loyal
      BY <3>1, RootedIdle DEF Died, Loyal
    <3> QED BY <3>1, <3>2, <3>3 DEF Still, Catalogued
  <2> QED BY <1>5, <2>1, <2>2, <2>3 DEF World
<1> QED BY <1>1, <1>2, <1>3, <1>4, <1>5, Zenon DEF Next


(* The menu stays, and requests are counted.                               *)
Counted == menu' = menu /\ (calls' = calls \/ calls' = calls + 1)

LEMMA AccountsCounted ==
  ASSUME NEW p, AccountsStep(p)
  PROVE  Counted
<1>1. CASE Asks(p)
  BY <1>1 DEF Asks, Send, Verify, Google, Invite, Remove, ChangeRole, Logout, Suspend, Reset, Delete, Impersonate,
              OwnersAsk, AdminAsks, Ask, Begin, Counted
<1>2. CASE PlainStep(p)
  BY <1>2, ZenonT(40) DEF PlainStep, UpsertUser, FindUser, MakeUser, NotAMember, Leave, Going, Counted
<1>3. CASE CodeStep(p) \/ OrgStep(p)
  BY <1>3 DEF CodeStep, StoreCode, Count, Spend, SweepCodes, OrgStep, SuspendOrg, ResetOrg, OrgUpdate, DropOrg, Going, Counted
<1>4. CASE TokenStep(p)
  BY <1>4 DEF TokenStep, Sign, RevokeToken, Revoked, ImpersonateMember, Going, Counted
<1>5. CASE PeopleStep(p)
  BY <1>5, ZenonT(40) DEF PeopleStep, Add, Drop, SetRole, RoleSet, DropMembers, AdminCreate, Begin, Going, Counted
<1>6. CASE HeldStep(p)
  BY <1>6 DEF HeldStep, FindCode, FindHome, Home, MakeOrg, SubscribeOrg, Join, CountSeats, FindMember, FoundMember,
              CutOrg, Cut, DropSub, Going, Counted
<1>7. Asks(p) \/ PlainStep(p) \/ CodeStep(p) \/ OrgStep(p) \/ PeopleStep(p) \/ TokenStep(p) \/ HeldStep(p)
  BY DEF AccountsStep, Asks, PlainStep, CodeStep, OrgStep, PeopleStep, TokenStep, HeldStep
<1> QED BY <1>1, <1>2, <1>3, <1>4, <1>5, <1>6, <1>7, ZenonT(40)

LEMMA AllCounted ==
  ASSUME ProcInv, [Next]_vars
  PROVE  Counted
<1>1. Aside => Counted
  BY DEF Aside, Counted
<1>2. ASSUME NEW p \in Handlers, Admitted(p) PROVE Counted
  BY <1>2 DEF Admitted, Enter, Context, Token, Going, Counted
<1>3. ASSUME NEW p \in Handlers, Request(p) PROVE Counted
  BY <1>1, <1>3, AccountsCounted, TenancyAside, ListAside DEF Request
<1>4. CASE BookStep \/ PageStep \/ LeadsPageStep
  BY <1>1, <1>4, BookAside, PageAside, LeadsPageAside
<1>5. CASE World
  BY <1>5 DEF World, Tick, CodeExpires, Crash, requests, Counted
<1>6. CASE UNCHANGED vars
  BY <1>6 DEF vars, requests, Counted
<1> QED BY <1>2, <1>3, <1>4, <1>5, <1>6, Zenon DEF Next

-----------------------------------------------------------------------------
(* The rows keep their types, and handlers what they refer to *)

LEMMA AtRefers ==
  ASSUME ProcInv, RefInv, NEW p \in Handlers, NEW step \in AccountSteps, At(p, step)
  PROVE  Inside(proc[p]) /\ May(proc[p].op, step) /\ Refers(p) /\ proc[p].todo # <<>>
<1>1. Inside(proc[p]) /\ May(proc[p].op, step)
  BY AtInside
<1> QED BY <1>1 DEF Inside, RefInv, At

LEMMA SeqSet ==
  ASSUME NEW S, NEW s \in Seq(S), NEW i \in DOMAIN s, NEW x \in S
  PROVE  [s EXCEPT ![i] = x] \in Seq(S) /\ DOMAIN [s EXCEPT ![i] = x] = DOMAIN s
  OBVIOUS

LEMMA SeqAdd ==
  ASSUME NEW S, NEW s \in Seq(S), NEW x \in S
  PROVE  /\ Append(s, x) \in Seq(S) /\ DOMAIN Append(s, x) = DOMAIN s \cup {Len(s) + 1}
         /\ Append(s, x)[Len(s) + 1] = x /\ \A i \in DOMAIN s : Append(s, x)[i] = s[i]
         /\ Len(s) + 1 \notin DOMAIN s
  OBVIOUS

(* Codes.                                                                  *)
CodesGrow == codes' \in Seq(CodeRow) /\ DOMAIN codes \subseteq DOMAIN codes'
RestOfCodes == UNCHANGED <<orgs, members, sessions, now, slips>>

LEMMA CodeAt == RowInv => \A k \in DOMAIN codes : codes[k] \in CodeRow
  BY SeqAt DEF RowInv

LEMMA StoreCodeRows ==
  ASSUME ProcInv, RefInv, NEW p \in Handlers, StoreCode(p)
  PROVE  CodesGrow /\ RestOfCodes
<1>1. Refers(p)
  BY StepWords1, AtRefers DEF StoreCode
<1>2. Code(proc[p].who) \in CodeRow
  BY <1>1 DEF Refers, Code, CodeRow
<1> DEFINE c == Code(proc[p].who)
<1>3. codes' = Append(codes, c) /\ codes \in Seq(CodeRow)
  BY DEF StoreCode, RefInv, RowInv
<1>4. c \in CodeRow
  BY <1>2
<1> HIDE DEF c
<1>5. CodesGrow
  BY <1>3, <1>4, SeqAdd DEF CodesGrow
<1> QED BY <1>5 DEF StoreCode, RestOfCodes

(* One code with other values in it.                                       *)
LEMMA CodeSet ==
  ASSUME RowInv, NEW k \in DOMAIN codes, NEW x \in CodeRow, codes' = [codes EXCEPT ![k] = x]
  PROVE  CodesGrow
  BY SeqSet DEF RowInv, CodesGrow

LEMMA CodeWith ==
  ASSUME NEW c \in CodeRow, NEW a \in Nat, NEW b \in Nat, NEW d \in {"live", "used", "gone"}
  PROVE  [c EXCEPT !.tries = a, !.settled = b, !.state = d] \in CodeRow
  BY DEF CodeRow
LEMMA CodeSpent ==
  ASSUME NEW c \in CodeRow, NEW b \in Nat
  PROVE  [c EXCEPT !.state = "used", !.settled = b] \in CodeRow
  BY DEF CodeRow
LEMMA CodeRead ==
  ASSUME NEW c \in CodeRow, NEW a \in Nat, NEW b \in Nat
  PROVE  [c EXCEPT !.reads = a, !.overlaps = b] \in CodeRow
  BY DEF CodeRow

LEMMA CountRows ==
  ASSUME ProcInv, RefInv, NEW p \in Handlers, Count(p)
  PROVE  CodesGrow /\ RestOfCodes
<1> DEFINE k == proc[p].id
           x == [codes[k] EXCEPT !.tries = proc[p].saw + 1, !.settled = @ + 1,
                                 !.state = IF proc[p].saw + 1 >= Attempts THEN "used" ELSE @]
<1>1. At(p, "count")
  BY DEF Count
<1>2. Refers(p) /\ RowInv
  BY <1>1, StepWords1, AtRefers DEF RefInv
<1>3. k \in DOMAIN codes /\ proc[p].saw \in Nat
  BY <1>1, <1>2 DEF Refers
<1>4. codes[k] \in CodeRow
  BY <1>2, <1>3, CodeAt, ZenonT(40)
<1>5. x \in CodeRow
  <2> DEFINE a == proc[p].saw + 1
             b == codes[k].settled + 1
             c == IF proc[p].saw + 1 >= Attempts THEN "used" ELSE codes[k].state
  <2>1. a \in Nat /\ b \in Nat /\ c \in {"live", "used", "gone"}
    BY <1>3, <1>4 DEF CodeRow
  <2>2. x = [codes[k] EXCEPT !.tries = a, !.settled = b, !.state = c]
    OBVIOUS
  <2> HIDE DEF x, k, a, b, c
  <2> QED BY <1>4, <2>1, <2>2, CodeWith
<1>6. codes' = codes \/ codes' = [codes EXCEPT ![k] = x]
  BY DEF Count
<1>7. CodesGrow
  <2> HIDE DEF x, k
  <2>1. CASE codes' = codes
    BY <1>2, <2>1 DEF RowInv, CodesGrow
  <2> QED BY <1>2, <1>3, <1>5, <1>6, <2>1, CodeSet
<1> QED BY <1>7 DEF Count, RestOfCodes

LEMMA SpendRows ==
  ASSUME ProcInv, RefInv, NEW p \in Handlers, Spend(p)
  PROVE  CodesGrow /\ RestOfCodes
<1> DEFINE k == proc[p].id
           x == [codes[k] EXCEPT !.state = "used", !.settled = @ + 1]
<1>1. At(p, "spend")
  BY DEF Spend
<1>2. Refers(p) /\ RowInv
  BY <1>1, StepWords1, AtRefers DEF RefInv
<1>3. k \in DOMAIN codes
  BY <1>1, <1>2 DEF Refers
<1>4. codes[k] \in CodeRow
  BY <1>2, <1>3, CodeAt
<1>5. x \in CodeRow
  <2> DEFINE b == codes[k].settled + 1
  <2>1. b \in Nat
    BY <1>4 DEF CodeRow
  <2>2. x = [codes[k] EXCEPT !.state = "used", !.settled = b]
    OBVIOUS
  <2> HIDE DEF x, k, b
  <2> QED BY <1>4, <2>1, <2>2, CodeSpent
<1>6. codes' = codes \/ codes' = [codes EXCEPT ![k] = x]
  BY DEF Spend
<1>7. CodesGrow
  <2> HIDE DEF x, k
  <2>1. CASE codes' = codes
    BY <1>2, <2>1 DEF RowInv, CodesGrow
  <2> QED BY <1>2, <1>3, <1>5, <1>6, <2>1, CodeSet
<1> QED BY <1>7 DEF Spend, RestOfCodes

LEMMA SweepCodesRows ==
  ASSUME ProcInv, RefInv, NEW p \in Handlers, SweepCodes(p)
  PROVE  CodesGrow /\ RestOfCodes
<1>1. RowInv
  BY DEF RefInv
<1>2. /\ DOMAIN codes' = DOMAIN codes
      /\ \A k \in DOMAIN codes : codes'[k] = codes[k] \/ codes'[k] = [codes[k] EXCEPT !.state = "gone"]
      /\ codes' = [k \in DOMAIN codes |-> codes'[k]]
  BY DEF SweepCodes
<1>3. \A k \in DOMAIN codes : codes'[k] \in CodeRow
  <2> SUFFICES ASSUME NEW k \in DOMAIN codes PROVE codes'[k] \in CodeRow
    OBVIOUS
  <2>1. codes[k] \in CodeRow
    BY <1>1, CodeAt
  <2>2. [codes[k] EXCEPT !.state = "gone"] \in CodeRow
    BY <2>1 DEF CodeRow
  <2> QED BY <1>2, <2>1, <2>2
<1>4. Len(codes) \in Nat /\ DOMAIN codes = 1..Len(codes)
  BY <1>1 DEF RowInv
<1>5. codes' \in Seq(CodeRow)
  <2>1. codes' \in [1..Len(codes) -> CodeRow]
    BY <1>2, <1>3, <1>4
  <2> QED BY <1>4, <2>1
<1> QED BY <1>2, <1>5 DEF CodesGrow, SweepCodes, RestOfCodes

LEMMA CodeExpiresRows ==
  ASSUME RefInv, CodeExpires
  PROVE  CodesGrow /\ RestOfCodes /\ menu' = menu /\ calls' = calls
<1>1. PICK k \in DOMAIN codes : codes' = [codes EXCEPT ![k] = [codes[k] EXCEPT !.late = TRUE]]
  BY DEF CodeExpires
<1>2. codes[k] \in CodeRow /\ RowInv
  BY CodeAt DEF RefInv
<1> DEFINE x == [codes[k] EXCEPT !.late = TRUE]
<1>3. x \in CodeRow /\ codes' = [codes EXCEPT ![k] = x]
  BY <1>1, <1>2 DEF CodeRow
<1> HIDE DEF x
<1> QED BY <1>2, <1>3, CodeSet DEF CodeExpires, RestOfCodes, requests

LEMMA FindCodeRows ==
  ASSUME ProcInv, RefInv, NEW p \in Handlers, FindCode(p)
  PROVE  CodesGrow /\ RestOfCodes
<1> DEFINE good == {k \in DOMAIN codes : codes[k].user = proc[p].who /\ codes[k].state = "live" /\ ~codes[k].late}
           k == proc'[p].id
           n == Cardinality(Comparing(k) \ {p})
           x == [codes[k] EXCEPT !.reads = @ + 1, !.overlaps = @ + n]
<1>1. RowInv
  BY DEF RefInv
<1>2. CASE codes' = codes
  BY <1>1, <1>2, ZenonT(40) DEF RowInv, CodesGrow, FindCode, RestOfCodes
<1>3. CASE /\ k \in good
           /\ codes' = [codes EXCEPT ![k].reads = @ + 1, ![k].overlaps = @ + Cardinality(Comparing(k) \ {p})]
  <2>1. k \in DOMAIN codes
    BY <1>3
  <2>2. codes[k] \in CodeRow
    BY <1>1, <2>1, CodeAt
  <2>3. n \in Nat
    BY HandlersFinite DEF Comparing, Busy
  <2>4. x \in CodeRow
    <3> DEFINE a == codes[k].reads + 1
               b == codes[k].overlaps + n
    <3>1. a \in Nat /\ b \in Nat
      BY <2>2, <2>3 DEF CodeRow
    <3>2. x = [codes[k] EXCEPT !.reads = a, !.overlaps = b]
      OBVIOUS
    <3> HIDE DEF x, k, n, a, b
    <3> QED BY <2>2, <3>1, <3>2, CodeRead
  <2>5. codes' = [codes EXCEPT ![k] = x]
    BY <1>3
  <2>6. CodesGrow
    <3> HIDE DEF x, k
    <3> QED BY <1>1, <2>1, <2>4, <2>5, CodeSet
  <2> QED BY <2>6 DEF FindCode, RestOfCodes
<1>4. \/ codes' = codes
      \/ k \in good /\ codes' = [codes EXCEPT ![k].reads = @ + 1, ![k].overlaps = @ + Cardinality(Comparing(k) \ {p})]
  <2> HIDE DEF good
  <2> QED BY FindCodeMoves DEF good
<1> QED BY <1>2, <1>3, <1>4

(* Organisations.                                                          *)
OrgsGrow == orgs' \in Seq(OrgRow) /\ DOMAIN orgs \subseteq DOMAIN orgs'
(* All but the status of an organisation.                                  *)
Alike(o) ==
  /\ orgs'[o].sub = orgs[o].sub /\ orgs'[o].doomed = orgs[o].doomed /\ orgs'[o].demoted = orgs[o].demoted
  /\ orgs'[o].cutAt = orgs[o].cutAt /\ orgs'[o].cutUntil = orgs[o].cutUntil
RestOfOrgs == UNCHANGED <<codes, members, sessions, now, slips>>

LEMMA OrgAt == RowInv => \A o \in DOMAIN orgs : orgs[o] \in OrgRow
  BY SeqAt DEF RowInv

(* One organisation with other values in it, ...                           *)
LEMMA OrgSet ==
  ASSUME RowInv, NEW o \in DOMAIN orgs, NEW x \in OrgRow, orgs' = [orgs EXCEPT ![o] = x]
  PROVE  /\ OrgsGrow /\ DOMAIN orgs' = DOMAIN orgs /\ orgs'[o] = x
         /\ \A i \in DOMAIN orgs \ {o} : orgs'[i] = orgs[i]
  BY SeqSet DEF RowInv, OrgsGrow
(* ... and a new one.                                                      *)
LEMMA OrgNew ==
  ASSUME RowInv, NEW x \in OrgRow, orgs' = Append(orgs, x)
  PROVE  /\ OrgsGrow /\ Len(orgs) + 1 \notin DOMAIN orgs /\ DOMAIN orgs' = DOMAIN orgs \cup {Len(orgs) + 1}
         /\ orgs'[Len(orgs) + 1] = x /\ \A i \in DOMAIN orgs : orgs'[i] = orgs[i]
<1>1. orgs \in Seq(OrgRow)
  BY DEF RowInv
<1> QED BY <1>1, SeqAdd DEF OrgsGrow

LEMMA NewOrgRow == \A b \in BOOLEAN : NewOrg(b) \in OrgRow
  BY DEF NewOrg, OrgRow

LEMMA StatusRow ==
  ASSUME NEW r \in OrgRow, NEW d \in {"open", "suspended", "gone"}
  PROVE  LET n == [r EXCEPT !.status = d] IN
         /\ n \in OrgRow /\ n.sub = r.sub /\ n.doomed = r.doomed /\ n.demoted = r.demoted
         /\ n.cutAt = r.cutAt /\ n.cutUntil = r.cutUntil
  BY DEF OrgRow

LEMMA StatusSet ==
  ASSUME RowInv, NEW o \in DOMAIN orgs, NEW d \in {"open", "suspended", "gone"},
         orgs' = [orgs EXCEPT ![o] = [orgs[o] EXCEPT !.status = d]]
  PROVE  OrgsGrow /\ DOMAIN orgs' = DOMAIN orgs /\ \A i \in DOMAIN orgs : Alike(i)
<1> DEFINE x == [orgs[o] EXCEPT !.status = d]
<1>1. /\ x \in OrgRow /\ x.sub = orgs[o].sub /\ x.doomed = orgs[o].doomed /\ x.demoted = orgs[o].demoted
      /\ x.cutAt = orgs[o].cutAt /\ x.cutUntil = orgs[o].cutUntil
  BY OrgAt, StatusRow
<1>2. orgs' = [orgs EXCEPT ![o] = x]
  OBVIOUS
<1> HIDE DEF x
<1>3. /\ OrgsGrow /\ DOMAIN orgs' = DOMAIN orgs /\ orgs'[o] = x
      /\ \A i \in DOMAIN orgs \ {o} : orgs'[i] = orgs[i]
  BY <1>1, <1>2, OrgSet
<1> QED BY <1>1, <1>3 DEF Alike

LEMMA OrgStepRows ==
  ASSUME RefInv, NEW p \in Handlers, OrgStep(p)
  PROVE  OrgsGrow /\ DOMAIN orgs' = DOMAIN orgs /\ (\A i \in DOMAIN orgs : Alike(i)) /\ RestOfOrgs
<1> DEFINE o == proc[p].org
           Words == {"open", "suspended", "gone"}
<1>1. RestOfOrgs
  BY DEF OrgStep, SuspendOrg, ResetOrg, OrgUpdate, DropOrg, RestOfOrgs
<1>2. RowInv /\ (OrgsGrow \/ orgs' # orgs)
  BY DEF RefInv, RowInv, OrgsGrow
<1>3. ASSUME o \in DOMAIN orgs PROVE orgs[o].status \in Words
  BY <1>3, OrgAt DEF RefInv, OrgRow
<1>4. \/ orgs' = orgs
      \/ o \in DOMAIN orgs /\ \E d \in Words : orgs' = [orgs EXCEPT ![o] = [orgs[o] EXCEPT !.status = d]]
  <2>1. CASE SuspendOrg(p)
    BY <2>1 DEF SuspendOrg, OrgUpdate, Exists
  <2>2. CASE ResetOrg(p)
    <3> DEFINE d == IF orgs[o].sub THEN "open" ELSE orgs[o].status
    <3>1. orgs' = orgs \/ (o \in DOMAIN orgs /\ orgs' = [orgs EXCEPT ![o] = [orgs[o] EXCEPT !.status = d]])
      BY <2>2 DEF ResetOrg, OrgUpdate, Exists
    <3>2. o \in DOMAIN orgs => d \in Words
      BY <1>3
    <3> HIDE DEF d
    <3> QED BY <3>1, <3>2
  <2>3. CASE DropOrg(p)
    BY <2>3 DEF DropOrg, Exists
  <2> QED BY <2>1, <2>2, <2>3 DEF OrgStep
<1>5. CASE orgs' = orgs
  BY <1>1, <1>2, <1>5 DEF Alike
<1>6. CASE o \in DOMAIN orgs /\ \E d \in Words : orgs' = [orgs EXCEPT ![o] = [orgs[o] EXCEPT !.status = d]]
  <2> HIDE DEF o
  <2> QED BY <1>1, <1>6, StatusSet DEF RefInv
<1> QED BY <1>4, <1>5, <1>6

LEMMA SubRow ==
  ASSUME NEW r \in OrgRow, NEW b \in BOOLEAN
  PROVE  LET n == [r EXCEPT !.sub = b] IN
         /\ n \in OrgRow /\ n.sub = b /\ n.doomed = r.doomed /\ n.demoted = r.demoted
         /\ n.cutAt = r.cutAt /\ n.cutUntil = r.cutUntil
  BY DEF OrgRow
LEMMA DemotedRow ==
  ASSUME NEW r \in OrgRow, NEW d \in BOOLEAN
  PROVE  LET n == [r EXCEPT !.demoted = d] IN
         /\ n \in OrgRow /\ n.sub = r.sub /\ n.doomed = r.doomed /\ n.demoted = d
         /\ n.cutAt = r.cutAt /\ n.cutUntil = r.cutUntil
  BY DEF OrgRow

(* What the subscription of one organisation becomes.                      *)
SubBecomes(o, b) ==
  /\ OrgsGrow /\ DOMAIN orgs' = DOMAIN orgs /\ \A i \in DOMAIN orgs \ {o} : orgs'[i] = orgs[i]
  /\ orgs'[o].sub = b /\ orgs'[o].doomed = orgs[o].doomed /\ orgs'[o].demoted = orgs[o].demoted
  /\ orgs'[o].cutAt = orgs[o].cutAt /\ orgs'[o].cutUntil = orgs[o].cutUntil

LEMMA SubSet ==
  ASSUME RowInv, NEW o \in DOMAIN orgs, NEW b \in BOOLEAN, orgs' = [orgs EXCEPT ![o] = [orgs[o] EXCEPT !.sub = b]]
  PROVE  SubBecomes(o, b)
<1> DEFINE x == [orgs[o] EXCEPT !.sub = b]
<1>1. /\ x \in OrgRow /\ x.sub = b /\ x.doomed = orgs[o].doomed /\ x.demoted = orgs[o].demoted
      /\ x.cutAt = orgs[o].cutAt /\ x.cutUntil = orgs[o].cutUntil
  BY OrgAt, SubRow
<1>2. orgs' = [orgs EXCEPT ![o] = x]
  OBVIOUS
<1> HIDE DEF x
<1>3. /\ OrgsGrow /\ DOMAIN orgs' = DOMAIN orgs /\ orgs'[o] = x
      /\ \A i \in DOMAIN orgs \ {o} : orgs'[i] = orgs[i]
  BY <1>1, <1>2, OrgSet
<1> QED BY <1>1, <1>3 DEF SubBecomes

LEMMA SubscribeRows ==
  ASSUME RefInv, NEW p \in Handlers, SubscribeOrg(p)
  PROVE  /\ RestOfOrgs
         /\ \/ orgs' = orgs
            \/ proc[p].org \in DOMAIN orgs /\ SubBecomes(proc[p].org, TRUE)
<1>1. RestOfOrgs
  BY DEF SubscribeOrg, RestOfOrgs
<1>2. \/ orgs' = orgs /\ proc' = Thrown(p)
      \/ proc[p].org \in DOMAIN orgs /\ orgs' = [orgs EXCEPT ![proc[p].org] = [orgs[proc[p].org] EXCEPT !.sub = TRUE]]
  BY DEF SubscribeOrg, Exists
<1> QED BY <1>1, <1>2, SubSet DEF RefInv

LEMMA AdminsOrg ==
  ASSUME ProcInv, RefInv, NEW p \in Handlers, NEW step \in {"cut", "drop sub", "drop members", "drop org"}, At(p, step)
  PROVE  proc[p].org \in DOMAIN orgs
<1>1. step \in AccountSteps
  BY StepWords2, StepWords3
<1>2. May(proc[p].op, step) /\ Refers(p)
  BY <1>1, AtRefers
<1>3. proc[p].op \in AdminOps
  BY <1>2 DEF May, AdminOps
<1> QED BY <1>2, <1>3 DEF Refers

LEMMA DropSubRows ==
  ASSUME ProcInv, RefInv, NEW p \in Handlers, DropSub(p)
  PROVE  RestOfOrgs /\ proc[p].org \in DOMAIN orgs /\ SubBecomes(proc[p].org, FALSE)
<1>1. RestOfOrgs /\ At(p, "drop sub")
  BY DEF DropSub, RestOfOrgs
<1>2. proc[p].org \in DOMAIN orgs
  BY <1>1, AdminsOrg
<1>3. orgs' = [orgs EXCEPT ![proc[p].org] = [orgs[proc[p].org] EXCEPT !.sub = FALSE]]
  BY DEF DropSub
<1> QED BY <1>1, <1>2, <1>3, SubSet DEF RefInv

LEMMA CutRows ==
  ASSUME ProcInv, RefInv, NEW p \in Handlers, CutOrg(p)
  PROVE  LET o == proc[p].org IN
         /\ RestOfOrgs /\ o \in DOMAIN orgs /\ OrgsGrow /\ DOMAIN orgs' = DOMAIN orgs
         /\ \A i \in DOMAIN orgs \ {o} : orgs'[i] = orgs[i]
         /\ orgs'[o].sub = orgs[o].sub /\ orgs'[o].demoted = orgs[o].demoted
         /\ orgs'[o].doomed = (orgs[o].doomed \/ proc[p].op = "delete")
         /\ orgs'[o].cutAt = now /\ orgs'[o].cutUntil = now + Week
<1> DEFINE o == proc[p].org
           d == orgs[o].doomed \/ proc[p].op = "delete"
           b == now + Week
           x == [orgs[o] EXCEPT !.cutAt = now, !.cutUntil = b, !.doomed = d]
<1>1. RestOfOrgs /\ At(p, "cut")
  BY DEF CutOrg, Cut, RestOfOrgs
<1>2. o \in DOMAIN orgs
  BY <1>1, AdminsOrg
<1>3. orgs[o] \in OrgRow /\ now \in Nat /\ b \in Nat
  BY <1>2, OrgAt DEF RefInv, RowInv, Week
<1>4. d \in BOOLEAN
  OBVIOUS
<1>5. orgs' = [orgs EXCEPT ![o] = x]
  BY DEF CutOrg, Cut
<1>6. /\ x \in OrgRow /\ x.sub = orgs[o].sub /\ x.doomed = d /\ x.demoted = orgs[o].demoted
      /\ x.cutAt = now /\ x.cutUntil = b
  <2>1. x = [orgs[o] EXCEPT !.cutAt = now, !.cutUntil = b, !.doomed = d]
    OBVIOUS
  <2> HIDE DEF o, d, b, x
  <2> QED BY <1>3, <1>4, <2>1 DEF OrgRow
<1>7. /\ OrgsGrow /\ DOMAIN orgs' = DOMAIN orgs /\ orgs'[o] = x
      /\ \A i \in DOMAIN orgs \ {o} : orgs'[i] = orgs[i]
  <2> HIDE DEF x, o
  <2> QED BY <1>2, <1>5, <1>6, OrgSet DEF RefInv
<1> QED BY <1>1, <1>2, <1>6, <1>7

LEMMA MakeOrgRows ==
  ASSUME RefInv, NEW p \in Handlers, MakeOrg(p)
  PROVE  /\ RestOfOrgs /\ OrgsGrow /\ Len(orgs) + 1 \notin DOMAIN orgs /\ DOMAIN orgs' = DOMAIN orgs \cup {Len(orgs) + 1}
         /\ orgs'[Len(orgs) + 1] = NewOrg(FALSE) /\ \A i \in DOMAIN orgs : orgs'[i] = orgs[i]
<1>1. RestOfOrgs /\ orgs' = Append(orgs, NewOrg(FALSE))
  BY DEF MakeOrg, RestOfOrgs
<1> QED BY <1>1, NewOrgRow, OrgNew DEF RefInv

(* Sessions.                                                               *)
TokensGrow == sessions' \in Seq(TokenRow) /\ \A s \in DOMAIN sessions : s \in DOMAIN sessions' /\ sessions'[s].org = sessions[s].org
RestOfTokens == UNCHANGED <<codes, orgs, members, now, slips>>

LEMMA SecondOK ==
  ASSUME NEW t \in Nat
  PROVE  /\ Second(t) \in Nat /\ Second(t) % 2 = 0 /\ Second(t) <= t /\ t <= Second(t) + 1
  BY DEF Second

(* A token signed now, for a member.                                       *)
SignsOne(o) == \E u \in Nat, r \in Roles, life \in {Week, Hour} : sessions' = Append(sessions, Session(u, o, r, now, life))

LEMMA TokenNew ==
  ASSUME RowInv, NEW o \in DOMAIN orgs, SignsOne(o)
  PROVE  /\ TokensGrow /\ DOMAIN sessions' = DOMAIN sessions \cup {Len(sessions) + 1}
         /\ Len(sessions) + 1 \notin DOMAIN sessions
         /\ \A s \in DOMAIN sessions : sessions'[s] = sessions[s]
         /\ LET n == sessions'[Len(sessions) + 1] IN
            n.org = o /\ n.at = now /\ n.exp \in {Second(now) + Week, Second(now) + Hour} /\ n.out = FALSE
<1>1. PICK u \in Nat, r \in Roles, life \in {Week, Hour} : sessions' = Append(sessions, Session(u, o, r, now, life))
  BY DEF SignsOne
<1> DEFINE n == Session(u, o, r, now, life)
<1>2. sessions \in Seq(TokenRow) /\ now \in Nat /\ o \in Nat /\ life \in Nat
  BY DEF RowInv, Week, Hour
<1>3. n \in TokenRow /\ n.org = o /\ n.at = now /\ n.exp = Second(now) + life /\ n.out = FALSE
  <2> DEFINE b == u \in Staff
             e == Second(now) + life
  <2>1. b \in BOOLEAN
    OBVIOUS
  <2>4. e \in Nat
    <3>1. Second(now) \in Nat
      BY <1>2, SecondOK
    <3> HIDE DEF n
    <3> QED BY <1>2, <3>1
  <2>2. n = [user |-> u, org |-> o, role |-> r, staff |-> b, at |-> now, exp |-> e, denied |-> 0, out |-> FALSE]
    BY DEF Session
  <2> HIDE DEF b, e, n
  <2>3. n \in TokenRow /\ n.org = o /\ n.at = now /\ n.exp = e /\ n.out = FALSE
    BY <1>2, <2>1, <2>2, <2>4 DEF TokenRow
  <2> QED BY <2>3 DEF e
<1>4. sessions' = Append(sessions, n)
  BY <1>1
<1> HIDE DEF n
<1>5. /\ sessions' \in Seq(TokenRow) /\ DOMAIN sessions' = DOMAIN sessions \cup {Len(sessions) + 1}
      /\ sessions'[Len(sessions) + 1] = n /\ \A s \in DOMAIN sessions : sessions'[s] = sessions[s]
      /\ Len(sessions) + 1 \notin DOMAIN sessions
  BY <1>2, <1>3, <1>4, SeqAdd
<1> QED BY <1>3, <1>5 DEF TokensGrow

LEMMA SignRows ==
  ASSUME ProcInv, RefInv, NEW p \in Handlers, Sign(p)
  PROVE  RestOfTokens /\ proc[p].org \in DOMAIN orgs /\ SignsOne(proc[p].org) /\ At(p, "sign")
<1>1. RestOfTokens /\ At(p, "sign")
  BY DEF Sign, RestOfTokens
<1>2. Refers(p)
  BY <1>1, StepWords1, AtRefers
<1>3. proc[p].who \in Nat /\ proc[p].org \in DOMAIN orgs
  BY <1>1, <1>2 DEF Refers
<1> DEFINE r == IF proc[p].saw = 1 THEN "owner" ELSE "admin"
<1>4. r \in Roles
  BY DEF Roles
<1>5. sessions' = Append(sessions, Session(proc[p].who, proc[p].org, r, now, Week))
  BY DEF Sign
<1> HIDE DEF r
<1> QED BY <1>1, <1>3, <1>4, <1>5 DEF SignsOne

LEMMA ImpersonateRows ==
  ASSUME RefInv, NEW p \in Handlers, ImpersonateMember(p)
  PROVE  /\ RestOfTokens
         /\ \/ sessions' = sessions
            \/ proc[p].org \in DOMAIN orgs /\ MembersOf(proc[p].org) # {} /\ SignsOne(proc[p].org)
<1>1. RestOfTokens
  BY DEF ImpersonateMember, RestOfTokens
<1>2. CASE sessions' # sessions
  <2>1. PICK m \in MembersOf(proc[p].org) : sessions' = Append(sessions, Session(m.user, proc[p].org, m.role, now, Hour))
    BY <1>2 DEF ImpersonateMember
  <2>2. m \in members /\ m.org = proc[p].org
    BY DEF MembersOf
  <2>3. m \in MemberRow /\ m.org \in DOMAIN orgs
    BY <2>2 DEF RefInv, RowInv
  <2>4. m.user \in Nat /\ m.role \in Roles
    BY <2>3 DEF MemberRow
  <2>5. SignsOne(proc[p].org)
    BY <2>1, <2>4 DEF SignsOne
  <2> QED BY <1>1, <2>1, <2>2, <2>3, <2>5
<1> QED BY <1>1, <1>2

LEMMA MaxOfTwo ==
  ASSUME NEW a \in Nat, NEW b \in Nat
  PROVE  Max({a, b}) \in {a, b} /\ Max({a, b}) >= a /\ Max({a, b}) >= b
<1>1. \E x \in {a, b} : \A y \in {a, b} : x >= y
  BY a >= b \/ b >= a
<1> QED BY <1>1 DEF Max

(* A token that logs out.                                                  *)
LEMMA RevokeRows ==
  ASSUME RefInv, NEW p \in Handlers, RevokeToken(p)
  PROVE  /\ RestOfTokens /\ TokensGrow /\ DOMAIN sessions' = DOMAIN sessions
         /\ \A s \in DOMAIN sessions : \/ sessions'[s] = sessions[s]
                                       \/ /\ sessions'[s].exp = sessions[s].exp /\ sessions'[s].at = sessions[s].at
                                          /\ sessions'[s].denied >= sessions[s].exp
<1> DEFINE s == proc[p].by
           d == now + Max({2, Left(s)})
           x == [sessions[s] EXCEPT !.denied = d, !.out = TRUE]
<1>1. RestOfTokens /\ sessions' = [sessions EXCEPT ![s].denied = d, ![s].out = TRUE]
  BY DEF RevokeToken, Revoked, RestOfTokens
<1>2. sessions \in Seq(TokenRow) /\ now \in Nat
  BY DEF RefInv, RowInv
<1>3. CASE s \notin DOMAIN sessions
  <2>1. sessions' = sessions
    BY <1>1, <1>2, <1>3
  <2> QED BY <1>1, <1>2, <2>1 DEF TokensGrow
<1>4. CASE s \in DOMAIN sessions
  <2>1. sessions[s] \in TokenRow
    BY <1>2, <1>4, SeqAt
  <2>2. sessions[s].exp \in Nat /\ Second(now) \in Nat /\ Second(now) <= now
    BY <1>2, <2>1, SecondOK DEF TokenRow
  <2>3. Left(s) \in Nat /\ Left(s) + Second(now) >= sessions[s].exp
    BY <2>2 DEF Left
  <2>4. d \in Nat /\ d >= sessions[s].exp
    <3>1. Max({2, Left(s)}) \in Nat /\ Max({2, Left(s)}) >= Left(s)
      BY <2>3, MaxOfTwo
    <3> QED BY <1>2, <2>2, <2>3, <3>1
  <2>5. sessions' = [sessions EXCEPT ![s] = x]
    BY <1>1
  <2>6. x \in TokenRow /\ x.exp = sessions[s].exp /\ x.at = sessions[s].at /\ x.org = sessions[s].org /\ x.denied = d
    <3>1. x = [sessions[s] EXCEPT !.denied = d, !.out = TRUE]
      OBVIOUS
    <3> HIDE DEF x, d, s
    <3> QED BY <2>1, <2>4, <3>1 DEF TokenRow
  <2>7. /\ sessions' \in Seq(TokenRow) /\ DOMAIN sessions' = DOMAIN sessions /\ sessions'[s] = x
        /\ \A i \in DOMAIN sessions \ {s} : sessions'[i] = sessions[i]
    <3> HIDE DEF x, s
    <3> QED BY <1>2, <1>4, <2>5, <2>6, SeqSet
  <2> HIDE DEF x, d
  <2> QED BY <1>1, <2>4, <2>6, <2>7 DEF TokensGrow
<1> QED BY <1>3, <1>4

LEMMA HomeRows ==
  ASSUME ProcInv, RefInv, NEW p \in Handlers, FindHome(p)
  PROVE  /\ UNCHANGED <<codes, orgs, members, now>> /\ slips' \in [home : Nat, seat : Nat] /\ slips'.seat = slips.seat
         /\ \/ sessions' = sessions
            \/ \E m \in members : m.org \in DOMAIN orgs /\ SignsOne(m.org)
<1>1. UNCHANGED <<codes, orgs, members, now>>
  BY DEF FindHome, Home
<1>2. slips' = slips \/ slips' = [slips EXCEPT !.home = @ + Cardinality(FoundsFor(proc[p].who))]
  BY DEF FindHome, Home
<1>3. slips \in [home : Nat, seat : Nat]
  BY DEF RefInv, RowInv
<1>4. Cardinality(FoundsFor(proc[p].who)) \in Nat
  BY HandlersFinite DEF FoundsFor, Busy
<1>5. slips' \in [home : Nat, seat : Nat] /\ slips'.seat = slips.seat
  BY <1>2, <1>3, <1>4
<1>6. CASE sessions' # sessions
  <2>1. PICK m \in HomesOf(proc[p].who) : SignedNow(p, m.org, m.role)
    BY <1>6 DEF FindHome, Home
  <2>2. m \in members /\ m \in MemberRow /\ m.org \in DOMAIN orgs /\ m.user = proc[p].who
    BY DEF HomesOf, RefInv, RowInv
  <2>3. m.user \in Nat /\ m.role \in Roles
    BY <2>2 DEF MemberRow
  <2>4. SignsOne(m.org)
    BY <1>6, <2>1, <2>2, <2>3 DEF SignsOne, SignedNow
  <2> QED BY <1>1, <1>5, <2>2, <2>4
<1> QED BY <1>1, <1>5, <1>6

(* Memberships.                                                            *)
PeopleKept == members' \subseteq MemberRow /\ IsFiniteSet(members') /\ \A m \in members' : m.org \in DOMAIN orgs'

LEMMA MemberAt ==
  ASSUME RowInv, NEW m \in members
  PROVE  /\ m \in MemberRow /\ m.org \in DOMAIN orgs /\ m.id \in Nat /\ m.org \in Nat /\ m.user \in Nat
         /\ m.role \in Roles /\ m.made \in BOOLEAN
  BY DEF RowInv, MemberRow

LEMMA FewerKept ==
  ASSUME RowInv, members' \subseteq members, DOMAIN orgs \subseteq DOMAIN orgs'
  PROVE  PeopleKept
  BY FS_Subset DEF RowInv, PeopleKept

LEMMA OneMoreKept ==
  ASSUME RowInv, NEW n \in MemberRow, members' = members \cup {n}, DOMAIN orgs \subseteq DOMAIN orgs', n.org \in DOMAIN orgs'
  PROVE  PeopleKept
<1>1. IsFiniteSet(members') 
  BY FS_AddElement DEF RowInv
<1> QED BY <1>1 DEF RowInv, PeopleKept

LEMMA OrgNat == RowInv => \A o \in DOMAIN orgs : o \in Nat
  BY DEF RowInv

(* A request of an owner is about the organisation of its session.         *)
LEMMA OwnersOrg ==
  ASSUME ProcInv, RefInv, NEW p \in Handlers, NEW step \in {"not a member", "seats", "add", "find member", "drop", "set role"},
         At(p, step)
  PROVE  /\ proc[p].by \in DOMAIN sessions /\ proc[p].org = sessions[proc[p].by].org /\ proc[p].org \in DOMAIN orgs
         /\ proc[p].org \in Nat /\ proc[p].who \in Nat /\ proc[p].no \in Nat /\ proc[p].op \in MemberOps
<1>1. step \in AccountSteps
  BY StepWords1, StepWords3
<1>2. May(proc[p].op, step) /\ Refers(p)
  BY <1>1, AtRefers
<1>3. proc[p].op \in MemberOps
  BY <1>2 DEF May, MemberOps
<1>4. RowInv
  BY DEF RefInv
<1>5. proc[p].org \in DOMAIN orgs
  BY <1>2, <1>3, <1>4 DEF Refers, RowInv
<1>6. proc[p].org \in Nat
  BY <1>4, <1>5, OrgNat, Zenon
<1> QED BY <1>2, <1>3, <1>5, <1>6 DEF Refers

(* A membership nobody had, of an organisation that is there.              *)
Admits(p, r, b) ==
  LET o == proc[p].org
      n == Member(p, o, proc[p].who, r, b) IN
  /\ o \in DOMAIN orgs /\ members' = members \cup {n}
  /\ n \in MemberRow /\ n.org = o /\ n.user = proc[p].who /\ n.role = r /\ n.made = b /\ n.id = proc[p].no

LEMMA AddRows ==
  ASSUME ProcInv, RefInv, NEW p \in Handlers, Add(p)
  PROVE  /\ UNCHANGED <<codes, orgs, sessions, now, slips>> /\ PeopleKept
         /\ \/ members' = members
            \/ RowOf(proc[p].org, proc[p].who) = {} /\ Admits(p, "admin", FALSE)
<1>1. UNCHANGED <<codes, orgs, sessions, now, slips>> /\ At(p, "add")
  BY DEF Add
<1>2. proc[p].org \in DOMAIN orgs /\ proc[p].org \in Nat /\ proc[p].who \in Nat /\ proc[p].no \in Nat
  BY <1>1, OwnersOrg
<1> DEFINE n == Member(p, proc[p].org, proc[p].who, "admin", FALSE)
<1>3. \/ members' = members
      \/ RowOf(proc[p].org, proc[p].who) = {} /\ members' = members \cup {n}
  BY DEF Add
<1>4. n \in MemberRow /\ n.org = proc[p].org /\ n.user = proc[p].who /\ n.role = "admin" /\ n.made = FALSE /\ n.id = proc[p].no
  BY <1>2 DEF Member, MemberRow, Roles
<1>5. PeopleKept
  <2> HIDE DEF n
  <2> QED BY <1>1, <1>2, <1>3, <1>4, FewerKept, OneMoreKept DEF RefInv
<1> QED BY <1>1, <1>2, <1>3, <1>4, <1>5 DEF Admits

LEMMA JoinRows ==
  ASSUME ProcInv, RefInv, NEW p \in Handlers, Join(p)
  PROVE  /\ UNCHANGED <<codes, orgs, now, slips>> /\ PeopleKept
         /\ proc[p].org \in DOMAIN orgs /\ proc[p].who \in Nat /\ proc[p].op \in {"verify", "google"}
         /\ \/ members' = members /\ sessions' = sessions
            \/ Admits(p, "owner", TRUE) /\ (sessions' = sessions \/ SignsOne(proc[p].org))
<1>1. UNCHANGED <<codes, orgs, now, slips>> /\ At(p, "join")
  BY DEF Join
<1>2. proc[p].op \in {"verify", "google"} /\ proc[p].who \in Nat /\ proc[p].no \in Nat
  BY <1>1, SignInOps
<1>3. proc[p].org \in DOMAIN orgs
  BY <1>1, <1>2, AddedOps DEF RefInv, Refers, Founds
<1>4. proc[p].org \in Nat
  BY <1>3 DEF RefInv, RowInv
<1> DEFINE n == Member(p, proc[p].org, proc[p].who, "owner", TRUE)
<1>5. \/ members' = members /\ sessions' = sessions
      \/ members' = members \cup {n} /\ SignedNow(p, proc[p].org, "owner")
  BY DEF Join
<1>6. SignedNow(p, proc[p].org, "owner") => sessions' = sessions \/ SignsOne(proc[p].org)
  BY <1>2 DEF SignedNow, SignsOne, Roles
<1>7. n \in MemberRow /\ n.org = proc[p].org /\ n.user = proc[p].who /\ n.role = "owner" /\ n.made = TRUE /\ n.id = proc[p].no
  BY <1>2, <1>4 DEF Member, MemberRow, Roles
<1>8. PeopleKept
  <2> HIDE DEF n
  <2> QED BY <1>1, <1>3, <1>5, <1>7, FewerKept, OneMoreKept DEF RefInv
<1> QED BY <1>1, <1>2, <1>3, <1>5, <1>6, <1>7, <1>8 DEF Admits

LEMMA DropRows ==
  ASSUME RefInv, NEW p \in Handlers, Drop(p) \/ DropMembers(p)
  PROVE  /\ UNCHANGED <<codes, orgs, sessions, now, slips>> /\ PeopleKept /\ members' \subseteq members
<1>1. UNCHANGED <<codes, orgs, sessions, now, slips>> /\ members' \subseteq members
  BY DEF Drop, DropMembers
<1> QED BY <1>1, FewerKept DEF RefInv

LEMMA AdminCreateRows ==
  ASSUME ProcInv, RefInv, menu \in Menus, NEW p \in Handlers, AdminCreate(p)
  PROVE  LET o == Len(orgs) + 1 IN
         /\ UNCHANGED <<codes, sessions, now, slips>> /\ PeopleKept /\ OrgsGrow
         /\ o \notin DOMAIN orgs /\ DOMAIN orgs' = DOMAIN orgs \cup {o}
         /\ orgs'[o] = NewOrg(TRUE) /\ \A i \in DOMAIN orgs : orgs'[i] = orgs[i]
         /\ \E n \in MemberRow : members' = members \cup {n} /\ n.org = o /\ n.role = "owner" /\ n.made = FALSE
<1> DEFINE o == Len(orgs) + 1
<1>1. UNCHANGED <<codes, sessions, now, slips>> /\ orgs' = Append(orgs, NewOrg(TRUE))
  BY DEF AdminCreate
<1>2. RowInv
  BY DEF RefInv
<1>3. /\ OrgsGrow /\ o \notin DOMAIN orgs /\ DOMAIN orgs' = DOMAIN orgs \cup {o}
      /\ orgs'[o] = NewOrg(TRUE) /\ \A i \in DOMAIN orgs : orgs'[i] = orgs[i]
  BY <1>1, <1>2, NewOrgRow, OrgNew
<1>4. calls \in Nat /\ o \in Nat
  BY <1>2 DEF RowInv
<1>5. PICK u \in menu.people : members' = members \cup {[id |-> calls + 1, org |-> o, user |-> u, role |-> "owner", made |-> FALSE]}
  BY DEF AdminCreate
<1>6. u \in Nat
  BY PeopleNat
<1> DEFINE n == [id |-> calls + 1, org |-> o, user |-> u, role |-> "owner", made |-> FALSE]
<1>7. n \in MemberRow /\ n.org = o /\ n.role = "owner" /\ n.made = FALSE /\ members' = members \cup {n}
  <2> HIDE DEF o
  <2> QED BY <1>4, <1>5, <1>6 DEF MemberRow, Roles
<1> HIDE DEF n, o
<1>8. PeopleKept
  BY <1>2, <1>3, <1>7, OneMoreKept
<1> QED BY <1>1, <1>3, <1>7, <1>8 DEF o

(* A membership after its owner has asked for another role.                *)
Promoted(p, m) == IF m \in RowOf(proc[p].org, proc[p].who) THEN [m EXCEPT !.role = RoleAsked(p)] ELSE m

LEMMA PromotedRow ==
  ASSUME RowInv, NEW p, RoleAsked(p) \in Roles, NEW m \in members
  PROVE  /\ Promoted(p, m) \in MemberRow /\ Promoted(p, m).org = m.org /\ Promoted(p, m).user = m.user
         /\ Promoted(p, m).made = m.made /\ Promoted(p, m).id = m.id
         /\ m \in RowOf(proc[p].org, proc[p].who) => Promoted(p, m).role = RoleAsked(p)
         /\ m \notin RowOf(proc[p].org, proc[p].who) => Promoted(p, m) = m
<1> DEFINE R == RoleAsked(p)
<1>1. m \in MemberRow /\ R \in Roles
  BY MemberAt
<1> HIDE DEF R
<1>2. DEFINE n == [m EXCEPT !.role = R]
<1>3. n \in MemberRow /\ n.org = m.org /\ n.user = m.user /\ n.made = m.made /\ n.id = m.id /\ n.role = R
  BY <1>1 DEF MemberRow
<1>4. Promoted(p, m) = IF m \in RowOf(proc[p].org, proc[p].who) THEN n ELSE m
  BY DEF Promoted, R
<1> HIDE DEF n
<1> QED BY <1>1, <1>3, <1>4 DEF R

LEMMA SetRoleRows ==
  ASSUME ProcInv, RefInv, NEW p \in Handlers, SetRole(p)
  PROVE  LET o == proc[p].org
             row == RowOf(o, proc[p].who) IN
         /\ UNCHANGED <<codes, sessions, now, slips>> /\ OrgsGrow /\ DOMAIN orgs' = DOMAIN orgs
         /\ o \in DOMAIN orgs
         /\ \A i \in DOMAIN orgs : /\ orgs'[i].sub = orgs[i].sub /\ orgs'[i].doomed = orgs[i].doomed
                                   /\ orgs'[i].cutAt = orgs[i].cutAt /\ orgs'[i].cutUntil = orgs[i].cutUntil
         /\ \A i \in DOMAIN orgs \ {o} : orgs'[i].demoted = orgs[i].demoted
         /\ \/ members' = members /\ orgs' = orgs
            \/ /\ RoleAsked(p) \in Roles /\ members' = {Promoted(p, m) : m \in members}
               /\ orgs'[o].demoted = (orgs[o].demoted \/ (RoleAsked(p) # "owner" /\ row \cap Owners(o) # {}))
<1> DEFINE o == proc[p].org
           d == orgs[o].demoted \/ (RoleAsked(p) # "owner" /\ RowOf(o, proc[p].who) \cap Owners(o) # {})
           x == [orgs[o] EXCEPT !.demoted = d]
<1>1. UNCHANGED <<codes, sessions, now, slips>> /\ At(p, "set role")
  BY DEF SetRole, RoleSet
<1>2. o \in DOMAIN orgs
  BY <1>1, OwnersOrg
<1>3. RowInv
  BY DEF RefInv
<1>4. \/ members' = members /\ orgs' = orgs
      \/ /\ RoleAsked(p) \in Roles /\ members' = {Promoted(p, m) : m \in members}
         /\ orgs' = [orgs EXCEPT ![o] = x]
  BY DEF SetRole, RoleSet, Promoted
<1>5. d \in BOOLEAN
  OBVIOUS
<1>6. /\ x \in OrgRow /\ x.sub = orgs[o].sub /\ x.doomed = orgs[o].doomed /\ x.demoted = d
      /\ x.cutAt = orgs[o].cutAt /\ x.cutUntil = orgs[o].cutUntil
  <2>1. orgs[o] \in OrgRow
    BY <1>2, <1>3, OrgAt
  <2>2. x = [orgs[o] EXCEPT !.demoted = d]
    OBVIOUS
  <2> HIDE DEF x, d, o
  <2> QED BY <1>5, <2>1, <2>2 DEF OrgRow
<1>7. CASE members' = members /\ orgs' = orgs
  BY <1>1, <1>2, <1>3, <1>7 DEF RowInv, OrgsGrow
<1>8. CASE RoleAsked(p) \in Roles /\ members' = {Promoted(p, m) : m \in members} /\ orgs' = [orgs EXCEPT ![o] = x]
  <2>1. /\ OrgsGrow /\ DOMAIN orgs' = DOMAIN orgs /\ orgs'[o] = x
        /\ \A i \in DOMAIN orgs \ {o} : orgs'[i] = orgs[i]
    <3> HIDE DEF x, o
    <3> QED BY <1>2, <1>3, <1>6, <1>8, OrgSet
  <2>2. orgs'[o].demoted = d
    BY <1>6, <2>1
  <2>3. \A i \in DOMAIN orgs : /\ orgs'[i].sub = orgs[i].sub /\ orgs'[i].doomed = orgs[i].doomed
                               /\ orgs'[i].cutAt = orgs[i].cutAt /\ orgs'[i].cutUntil = orgs[i].cutUntil
    <3> HIDE DEF x, o
    <3> QED BY <1>6, <2>1
  <2> HIDE DEF x
  <2> QED BY <1>1, <1>2, <1>8, <2>1, <2>2, <2>3
<1> QED BY <1>4, <1>7, <1>8

LEMMA ImageFinite ==
  ASSUME NEW S, IsFiniteSet(S), NEW f, f \in [S -> {f[x] : x \in S}]
  PROVE  IsFiniteSet({f[x] : x \in S}) /\ Cardinality({f[x] : x \in S}) <= Cardinality(S)
<1> DEFINE T == {f[x] : x \in S}
<1>1. f \in Surjection(S, T)
  BY DEF Surjection
<1> HIDE DEF T
<1>2. IsFiniteSet(T) /\ Cardinality(T) <= Cardinality(S)
  BY <1>1, FS_Surjection
<1> QED BY <1>2 DEF T

LEMMA SetRoleKept ==
  ASSUME ProcInv, RefInv, NEW p \in Handlers, SetRole(p)
  PROVE  PeopleKept
<1>1. RowInv
  BY DEF RefInv
<1>2. DOMAIN orgs' = DOMAIN orgs
  BY SetRoleRows
<1>3. members' = members \/ (RoleAsked(p) \in Roles /\ members' = {Promoted(p, m) : m \in members})
  BY SetRoleRows
<1>4. CASE members' = members
  BY <1>1, <1>2, <1>4, FewerKept
<1>5. CASE RoleAsked(p) \in Roles /\ members' = {Promoted(p, m) : m \in members}
  <2>1. \A m \in members : Promoted(p, m) \in MemberRow /\ Promoted(p, m).org = m.org
    BY <1>1, <1>5, PromotedRow
  <2>2. IsFiniteSet(members')
    <3> DEFINE f == [m \in members |-> Promoted(p, m)]
    <3>1. members' = {f[m] : m \in members} /\ f \in [members -> {f[m] : m \in members}] /\ IsFiniteSet(members)
      BY <1>1, <1>5 DEF RowInv
    <3> HIDE DEF f
    <3> QED BY <3>1, ImageFinite
  <2> QED BY <1>1, <1>2, <1>5, <2>1, <2>2 DEF PeopleKept, RowInv
<1> QED BY <1>3, <1>4, <1>5

LEMMA SeatRows ==
  ASSUME ProcInv, RefInv, NEW p \in Handlers, CountSeats(p)
  PROVE  /\ UNCHANGED <<codes, orgs, members, sessions, now>> /\ slips' \in [home : Nat, seat : Nat] /\ slips'.home = slips.home
         /\ proc[p].org \in DOMAIN orgs
         /\ \/ proc' = Ended(p) /\ slips' = slips
            \/ /\ ~(orgs[proc[p].org].sub /\ Cardinality(MembersOf(proc[p].org)) >= Seats)
               /\ slips'.seat = slips.seat + Cardinality(Adding(proc[p].org))
<1> DEFINE o == proc[p].org
<1>1. UNCHANGED <<codes, orgs, members, sessions, now>> /\ At(p, "seats")
  BY DEF CountSeats
<1>2. o \in DOMAIN orgs
  BY <1>1, OwnersOrg
<1>3. \/ proc' = Ended(p) /\ slips' = slips
      \/ /\ ~(orgs[o].sub /\ Cardinality(MembersOf(o)) >= Seats)
         /\ slips' = [slips EXCEPT !.seat = @ + Cardinality(Adding(o))]
  BY DEF CountSeats
<1>4. slips \in [home : Nat, seat : Nat]
  BY DEF RefInv, RowInv
<1>5. Cardinality(Adding(o)) \in Nat
  BY HandlersFinite DEF Adding
<1> HIDE DEF o
<1>6. CASE proc' = Ended(p) /\ slips' = slips
  BY <1>1, <1>2, <1>4, <1>6 DEF o
<1>7. CASE /\ ~(orgs[o].sub /\ Cardinality(MembersOf(o)) >= Seats)
           /\ slips' = [slips EXCEPT !.seat = @ + Cardinality(Adding(o))]
  <2>1. slips' \in [home : Nat, seat : Nat] /\ slips'.home = slips.home /\ slips'.seat = slips.seat + Cardinality(Adding(o))
    BY <1>4, <1>5, <1>7
  <2> QED BY <1>1, <1>2, <1>7, <2>1 DEF o
<1> QED BY <1>3, <1>6, <1>7

(* Rows are never taken out of the numbered tables, and keep their types.  *)
TokenRefs == \A s \in DOMAIN sessions' : sessions'[s].org \in DOMAIN orgs'
Grown ==
  /\ CodesGrow /\ OrgsGrow /\ TokensGrow /\ PeopleKept /\ TokenRefs
  /\ now' \in Nat /\ slips' \in [home : Nat, seat : Nat]

LEMMA Unmoved ==
  ASSUME RowInv
  PROVE  /\ codes' = codes => CodesGrow
         /\ orgs' = orgs => OrgsGrow
         /\ sessions' = sessions => TokensGrow
         /\ members' = members /\ OrgsGrow => PeopleKept
         /\ sessions' = sessions /\ OrgsGrow => TokenRefs
         /\ now' = now => now' \in Nat
         /\ now' = now + 1 => now' \in Nat
         /\ slips' = slips => slips' \in [home : Nat, seat : Nat]
  BY DEF RowInv, CodesGrow, OrgsGrow, TokensGrow, PeopleKept, TokenRefs

LEMMA StillGrown == RowInv /\ Still => Grown
  BY Unmoved DEF Still, Stored, Grown
LEMMA CodesGrown == RowInv /\ CodesGrow /\ RestOfCodes => Grown
  BY Unmoved DEF RestOfCodes, Grown
LEMMA OrgsGrown == RowInv /\ OrgsGrow /\ RestOfOrgs => Grown
  BY Unmoved DEF RestOfOrgs, Grown

LEMMA RefsGrown ==
  ASSUME RowInv, TokensGrow, OrgsGrow, \A s \in DOMAIN sessions' : s \in DOMAIN sessions \/ sessions'[s].org \in DOMAIN orgs'
  PROVE  TokenRefs
  BY DEF RowInv, TokensGrow, OrgsGrow, TokenRefs

LEMMA SignsGrown ==
  ASSUME RowInv, OrgsGrow, NEW o \in DOMAIN orgs, SignsOne(o)
  PROVE  TokensGrow /\ TokenRefs
<1>1. /\ TokensGrow /\ DOMAIN sessions' = DOMAIN sessions \cup {Len(sessions) + 1}
      /\ sessions'[Len(sessions) + 1].org = o
  BY TokenNew
<1>2. o \in DOMAIN orgs'
  BY DEF OrgsGrow
<1> QED BY <1>1, <1>2, RefsGrown

LEMMA TokensGrown ==
  ASSUME RowInv, RestOfTokens, sessions' = sessions \/ \E o \in DOMAIN orgs : SignsOne(o)
  PROVE  Grown
<1>1. UNCHANGED <<codes, orgs, members, now, slips>>
  BY DEF RestOfTokens
<1>2. CodesGrow /\ OrgsGrow /\ PeopleKept /\ now' \in Nat /\ slips' \in [home : Nat, seat : Nat]
  BY <1>1, Unmoved
<1>3. TokensGrow /\ TokenRefs
  BY <1>2, Unmoved, SignsGrown
<1> QED BY <1>2, <1>3 DEF Grown

LEMMA RevokeGrown ==
  ASSUME RefInv, NEW p \in Handlers, RevokeToken(p)
  PROVE  Grown
<1>1. RowInv
  BY DEF RefInv
<1>2. RestOfTokens /\ TokensGrow /\ DOMAIN sessions' = DOMAIN sessions
  BY RevokeRows
<1>3. UNCHANGED <<codes, orgs, members, now, slips>>
  BY <1>2 DEF RestOfTokens
<1>4. CodesGrow /\ OrgsGrow /\ PeopleKept /\ now' \in Nat /\ slips' \in [home : Nat, seat : Nat]
  BY <1>1, <1>3, Unmoved
<1>5. TokenRefs
  BY <1>1, <1>2, <1>4, RefsGrown
<1> QED BY <1>2, <1>4, <1>5 DEF Grown

LEMMA HomeGrown ==
  ASSUME ProcInv, RefInv, NEW p \in Handlers, FindHome(p)
  PROVE  Grown
<1>1. RowInv
  BY DEF RefInv
<1>2. /\ UNCHANGED <<codes, orgs, members, now>> /\ slips' \in [home : Nat, seat : Nat]
      /\ sessions' = sessions \/ \E o \in DOMAIN orgs : SignsOne(o)
  BY HomeRows
<1>3. CodesGrow /\ OrgsGrow /\ PeopleKept /\ now' \in Nat
  BY <1>1, <1>2, Unmoved
<1>4. TokensGrow /\ TokenRefs
  BY <1>1, <1>2, <1>3, Unmoved, SignsGrown
<1> QED BY <1>2, <1>3, <1>4 DEF Grown

LEMMA PeopleGrown ==
  ASSUME RowInv, PeopleKept, OrgsGrow, UNCHANGED <<codes, now, slips>>,
         sessions' = sessions \/ \E o \in DOMAIN orgs : SignsOne(o)
  PROVE  Grown
<1>1. CodesGrow /\ now' \in Nat /\ slips' \in [home : Nat, seat : Nat]
  BY Unmoved
<1>2. TokensGrow /\ TokenRefs
  BY Unmoved, SignsGrown
<1> QED BY <1>1, <1>2 DEF Grown

LEMMA PeopleStepGrown ==
  ASSUME ProcInv, RefInv, menu \in Menus, NEW p \in Handlers, PeopleStep(p) \/ Join(p)
  PROVE  Grown
<1>1. RowInv
  BY DEF RefInv
<1>2. CASE Add(p)
  BY <1>1, <1>2, AddRows, Unmoved, PeopleGrown
<1>3. CASE Drop(p) \/ DropMembers(p)
  BY <1>1, <1>3, DropRows, Unmoved, PeopleGrown
<1>4. CASE SetRole(p)
  <2>1. UNCHANGED <<codes, sessions, now, slips>> /\ OrgsGrow
    BY <1>4, SetRoleRows
  <2>2. PeopleKept
    BY <1>4, SetRoleKept
  <2> QED BY <1>1, <2>1, <2>2, PeopleGrown
<1>5. CASE AdminCreate(p)
  <2>1. UNCHANGED <<codes, sessions, now, slips>> /\ OrgsGrow /\ PeopleKept
    BY <1>5, AdminCreateRows
  <2> QED BY <1>1, <2>1, PeopleGrown
<1>6. CASE Join(p)
  <2>1. /\ UNCHANGED <<codes, orgs, now, slips>> /\ PeopleKept
        /\ sessions' = sessions \/ \E o \in DOMAIN orgs : SignsOne(o)
    BY <1>6, JoinRows
  <2> QED BY <1>1, <2>1, Unmoved, PeopleGrown
<1> QED BY <1>2, <1>3, <1>4, <1>5, <1>6 DEF PeopleStep

LEMMA SeatsGrown ==
  ASSUME ProcInv, RefInv, NEW p \in Handlers, CountSeats(p)
  PROVE  Grown
<1>1. RowInv /\ UNCHANGED <<codes, orgs, members, sessions, now>> /\ slips' \in [home : Nat, seat : Nat]
  BY SeatRows DEF RefInv
<1> QED BY <1>1, Unmoved DEF Grown

LEMMA AllGrown ==
  ASSUME ProcInv, RefInv, menu \in Menus, Catalogued
  PROVE  Grown
<1>1. RowInv
  BY DEF RefInv
<1>2. CASE Still
  BY <1>1, <1>2, StillGrown
<1>3. CASE Ageing
  BY <1>1, <1>3, CodeExpiresRows, CodesGrown DEF Ageing
<1>4. ASSUME NEW p \in Handlers, CodeStep(p) PROVE Grown
  BY <1>1, <1>4, StoreCodeRows, CountRows, SpendRows, SweepCodesRows, CodesGrown DEF CodeStep
<1>5. ASSUME NEW p \in Handlers, OrgStep(p) PROVE Grown
  BY <1>1, <1>5, OrgStepRows, OrgsGrown
<1>6. ASSUME NEW p \in Handlers, PeopleStep(p) PROVE Grown
  BY <1>6, PeopleStepGrown
<1>7. ASSUME NEW p \in Handlers, TokenStep(p) PROVE Grown
  BY <1>1, <1>7, SignRows, ImpersonateRows, RevokeGrown, TokensGrown DEF TokenStep
<1>8. ASSUME NEW p \in Handlers, HeldStep(p) PROVE Grown
  <2>1. CASE FindCode(p)
    BY <1>1, <2>1, FindCodeRows, CodesGrown
  <2>2. CASE FindHome(p)
    BY <2>2, HomeGrown
  <2>3. CASE MakeOrg(p)
    BY <1>1, <2>3, MakeOrgRows, OrgsGrown
  <2>4. CASE SubscribeOrg(p)
    BY <1>1, <2>4, SubscribeRows, Unmoved, OrgsGrown DEF SubBecomes
  <2>5. CASE Join(p)
    BY <2>5, PeopleStepGrown
  <2>6. CASE CountSeats(p)
    BY <2>6, SeatsGrown
  <2>7. CASE FindMember(p)
    <3>1. UNCHANGED <<codes, orgs, members, sessions, now, slips>>
      BY <2>7 DEF FindMember, FoundMember, accounts
    <3> QED BY <1>1, <3>1, Unmoved DEF Grown
  <2>8. CASE CutOrg(p)
    BY <1>1, <2>8, CutRows, OrgsGrown
  <2>9. CASE DropSub(p)
    BY <1>1, <2>9, DropSubRows, OrgsGrown DEF SubBecomes
  <2> QED BY <1>8, <2>1, <2>2, <2>3, <2>4, <2>5, <2>6, <2>7, <2>8, <2>9 DEF HeldStep
<1> QED BY <1>2, <1>3, <1>4, <1>5, <1>6, <1>7, <1>8 DEF Catalogued, Steadily

LEMMA RowsNext ==
  ASSUME RowInv, Grown, Counted
  PROVE  RowInv'
<1>1. calls' \in Nat
  BY DEF RowInv, Counted
<1> QED BY <1>1 DEF RowInv, Grown, CodesGrow, OrgsGrow, TokensGrow, PeopleKept, TokenRefs

(* What handlers refer to stays.                                           *)
CalmAt(q) == \A s \in Claims : At(q, s)' => proc'[q] = proc[q]

LEMMA HeldNamed ==
  /\ "count" \in Claims /\ "spend" \in Claims /\ "subscribe" \in Claims /\ "join" \in Claims /\ "sign" \in Claims
  /\ "add" \in Claims /\ "drop" \in Claims /\ "drop sub" \in Claims /\ "drop members" \in Claims
  BY DEF Claims

LEMMA RefersNext ==
  ASSUME RefInv, Grown, NEW q \in Handlers, Rooted(q), (proc[q].op \in AccountOps)',
         (At(q, "count") \/ At(q, "spend"))' => proc'[q].id \in DOMAIN codes',
         (At(q, "subscribe") \/ At(q, "join") \/ At(q, "sign"))' => proc'[q].org \in DOMAIN orgs'
  PROVE  Refers(q)'
<1>1. DOMAIN orgs \subseteq DOMAIN orgs' /\ \A s \in DOMAIN sessions : s \in DOMAIN sessions' /\ sessions'[s].org = sessions[s].org
  BY DEF Grown, OrgsGrow, TokensGrow
<1> QED BY <1>1 DEF Rooted, Refers, Founds

LEMMA RefersCalm ==
  ASSUME ProcInv, RefInv, Grown, NEW q \in Handlers, Rooted(q), CalmAt(q), (proc[q].op \in AccountOps)'
  PROVE  Refers(q)'
<1>1. DOMAIN orgs \subseteq DOMAIN orgs' /\ DOMAIN codes \subseteq DOMAIN codes'
  BY DEF Grown, OrgsGrow, CodesGrow
<1>2. ASSUME NEW s \in {"count", "spend"}, At(q, s)' PROVE proc'[q].id \in DOMAIN codes'
  <2>1. s \in Claims
    BY HeldNamed
  <2>2. proc'[q] = proc[q]
    BY <1>2, <2>1 DEF CalmAt
  <2>3. Refers(q) /\ At(q, s)
    BY <1>2, <2>2 DEF At, RefInv
  <2> QED BY <1>1, <2>2, <2>3 DEF Refers
<1>3. ASSUME NEW s \in {"subscribe", "join", "sign"}, At(q, s)' PROVE proc'[q].org \in DOMAIN orgs'
  <2>1. s \in Claims
    BY HeldNamed
  <2>2. proc'[q] = proc[q]
    BY <1>3, <2>1 DEF CalmAt
  <2>3. Refers(q) /\ At(q, s)
    BY <1>3, <2>2 DEF At, RefInv
  <2> QED BY <1>1, <2>2, <2>3 DEF Refers, Founds
<1> QED BY <1>2, <1>3, RefersNext

(* A step that goes on in its program.                                     *)
LEMMA ThenSteps ==
  /\ \A step : Then(step, "join") => step = "subscribe"
  /\ \A step : Then(step, "sign") => step = "join"
  BY DEF Then

LEMMA ThenNone ==
  \A step : ~Then(step, "count") /\ ~Then(step, "spend")
  BY DEF Then

LEMMA RefersFollows ==
  ASSUME ProcInv, RefInv, Grown, Loyal, NEW p \in Handlers, NEW step, At(p, step), Follows(p, step),
         ~Then(step, "subscribe"), NEW q \in Handlers, (proc[q].op \in AccountOps)'
  PROVE  Refers(q)'
<1>1. Rooted(q) /\ proc'[q] # Idle
  BY IdleAway DEF Loyal, Away
<1>2. CASE q # p
  <2>1. proc'[q] = proc[q]
    BY <1>1, <1>2 DEF Follows
  <2> QED BY <1>1, <2>1, RefersCalm DEF CalmAt
<1>3. CASE q = p
  <2>1. proc'[p].op = proc[p].op /\ proc'[p].org = proc[p].org /\ \A s \in Steps : At(p, s)' => Then(step, s)
    BY <1>1, <1>3 DEF Follows, Fields
  <2>2. "count" \in Steps /\ "spend" \in Steps /\ "subscribe" \in Steps /\ "join" \in Steps /\ "sign" \in Steps
    BY HeldNamed, HeldSteps
  <2>3. ~At(p, "count")' /\ ~At(p, "spend")' /\ ~At(p, "subscribe")'
    BY <2>1, <2>2, ThenNone
  <2>4. (At(p, "join") \/ At(p, "sign"))' => At(p, "subscribe") \/ At(p, "join")
    BY <2>1, <2>2, ThenSteps
  <2>5. (At(p, "join") \/ At(p, "sign"))' => proc'[p].org \in DOMAIN orgs'
    <3>1. Refers(p)
      BY <1>3, <2>1 DEF RefInv
    <3> QED BY <2>1, <2>4, <3>1 DEF Refers, Founds, Grown, OrgsGrow
  <2> QED BY <1>1, <1>3, <2>3, <2>5, RefersNext
<1> QED BY <1>2, <1>3

LEMMA RefersOnly ==
  ASSUME ProcInv, RefInv, Grown, Loyal, NEW p \in Handlers, Only(p), NEW q \in Handlers \ {p}, (proc[q].op \in AccountOps)'
  PROVE  Refers(q)'
  BY RefersCalm DEF Only, Loyal, CalmAt

LEMMA CalmRefs ==
  ASSUME ProcInv, RefInv, Grown, Loyal, Calm, RowInv'
  PROVE  RefInv'
  BY RefersCalm DEF Calm, Loyal, CalmAt, RefInv

LEMMA FollowsRefs ==
  ASSUME ProcInv, RefInv, Grown, Loyal, RowInv', NEW p \in Handlers, NEW step, At(p, step), Follows(p, step),
         ~Then(step, "subscribe")
  PROVE  RefInv'
  BY RefersFollows DEF RefInv

LEMMA OnlyRefs ==
  ASSUME ProcInv, RefInv, Grown, Loyal, RowInv', NEW p \in Handlers, Only(p),
         (At(p, "count") \/ At(p, "spend"))' => proc'[p].id \in DOMAIN codes',
         (At(p, "subscribe") \/ At(p, "join") \/ At(p, "sign"))' => proc'[p].org \in DOMAIN orgs'
  PROVE  RefInv'
<1>1. \A q \in Handlers \ {p} : (proc[q].op \in AccountOps)' => Refers(q)'
  BY RefersOnly
<1>2. (proc[p].op \in AccountOps)' => Refers(p)'
  BY RefersNext DEF Loyal
<1> QED BY <1>1, <1>2 DEF RefInv

LEMMA FindCodeRefs ==
  ASSUME ProcInv, RefInv, Grown, Loyal, RowInv', NEW p \in Handlers, FindCode(p)
  PROVE  RefInv'
<1> DEFINE good == {k \in DOMAIN codes : codes[k].user = proc[p].who /\ codes[k].state = "live" /\ ~codes[k].late}
<1>1. /\ Only(p) /\ \A s \in Claims : At(p, s)' => s \in {"count", "spend"}
      /\ proc'[p] = Idle \/ proc'[p].id \in good
  <2> HIDE DEF good
  <2> QED BY FindCodeMoves DEF good
<1>2. DOMAIN codes \subseteq DOMAIN codes'
  BY DEF Grown, CodesGrow
<1>3. (At(p, "count") \/ At(p, "spend"))' => proc'[p].id \in DOMAIN codes'
  <2>1. proc'[p] = Idle => ~(At(p, "count") \/ At(p, "spend"))'
    BY IdleNowhere
  <2> QED BY <1>1, <1>2, <2>1
<1>4. ~(At(p, "subscribe") \/ At(p, "join") \/ At(p, "sign"))'
  BY <1>1, HeldNamed
<1> QED BY <1>1, <1>3, <1>4, OnlyRefs

LEMMA FindHomeRefs ==
  ASSUME ProcInv, RefInv, Grown, Loyal, RowInv', NEW p \in Handlers, FindHome(p)
  PROVE  RefInv'
<1>1. /\ Only(p)
      /\ \/ \A s \in Claims : ~At(p, s)'
         \/ \E m \in HomesOf(proc[p].who) : proc'[p] = Idle \/ (proc'[p].org = m.org /\ \A s \in Claims : At(p, s)' => s = "sign")
  BY FindHomeMoves
<1>2. DOMAIN orgs \subseteq DOMAIN orgs' /\ \A m \in members : m.org \in DOMAIN orgs
  BY DEF Grown, OrgsGrow, RefInv, RowInv
<1>3. CASE \A s \in Claims : ~At(p, s)'
  BY <1>1, <1>3, HeldNamed, OnlyRefs
<1>4. CASE \E m \in HomesOf(proc[p].who) : proc'[p] = Idle \/ (proc'[p].org = m.org /\ \A s \in Claims : At(p, s)' => s = "sign")
  <2>1. PICK m \in members : proc'[p] = Idle \/ (proc'[p].org = m.org /\ \A s \in Claims : At(p, s)' => s = "sign")
    BY <1>4 DEF HomesOf
  <2>2. proc'[p] = Idle => \A s \in Claims : ~At(p, s)'
    BY IdleNowhere
  <2>3. ~At(p, "count")' /\ ~At(p, "spend")'
    BY <2>1, <2>2, HeldNamed
  <2>4. (At(p, "subscribe") \/ At(p, "join") \/ At(p, "sign"))' => proc'[p].org \in DOMAIN orgs'
    BY <1>2, <2>1, <2>2, HeldNamed
  <2> QED BY <1>1, <2>3, <2>4, OnlyRefs
<1> QED BY <1>1, <1>3, <1>4

LEMMA MakeOrgRefs ==
  ASSUME ProcInv, RefInv, Grown, Loyal, RowInv', NEW p \in Handlers, MakeOrg(p)
  PROVE  RefInv'
<1>1. Only(p) /\ proc'[p].org = Len(orgs) + 1 /\ \A s \in Claims : At(p, s)' => s = "subscribe"
  BY MakeOrgMoves
<1>2. proc'[p].org \in DOMAIN orgs'
  BY <1>1, MakeOrgRows
<1>3. ~At(p, "count")' /\ ~At(p, "spend")'
  BY <1>1, HeldNamed
<1> QED BY <1>1, <1>2, <1>3, OnlyRefs

LEMMA FindMemberRefs ==
  ASSUME ProcInv, RefInv, Grown, Loyal, RowInv', NEW p \in Handlers, FindMember(p)
  PROVE  RefInv'
<1>1. Only(p) /\ \A s \in Claims : At(p, s)' => s = "drop"
  BY FindMemberMoves
<1>2. \A s \in {"count", "spend", "subscribe", "join", "sign"} : ~At(p, s)'
  BY <1>1, HeldNamed
<1> QED BY <1>1, <1>2, OnlyRefs

LEMMA NotFounding ==
  /\ ~Then("subscribe", "subscribe") /\ ~Then("join", "subscribe") /\ ~Then("seats", "subscribe") /\ ~Then("cut", "subscribe")
  /\ ~Then("drop sub", "subscribe")
  BY DEF Then

LEMMA AllRefs ==
  ASSUME ProcInv, RefInv, menu \in Menus, Loyal, Catalogued, Counted
  PROVE  RefInv'
<1>1. Grown
  BY AllGrown
<1>2. RowInv'
  BY <1>1, RowsNext DEF RefInv
<1>3. CASE Calm
  BY <1>1, <1>2, <1>3, CalmRefs
<1>4. ASSUME NEW p \in Handlers, HeldStep(p) PROVE RefInv'
  <2>1. CASE FindCode(p) \/ FindHome(p) \/ MakeOrg(p) \/ FindMember(p)
    BY <1>1, <1>2, <2>1, FindCodeRefs, FindHomeRefs, MakeOrgRefs, FindMemberRefs
  <2>2. CASE SubscribeOrg(p) \/ Join(p) \/ CountSeats(p) \/ CutOrg(p) \/ DropSub(p)
    <3>1. \E step : At(p, step) /\ Follows(p, step) /\ ~Then(step, "subscribe")
      BY <2>2, SubscribeOrgMoves, JoinMoves, CountSeatsMoves, CutOrgMoves, DropSubMoves, NotFounding, Zenon
    <3> QED BY <1>1, <1>2, <3>1, FollowsRefs
  <2> QED BY <1>4, <2>1, <2>2 DEF HeldStep
<1> QED BY <1>3, <1>4 DEF Catalogued, Still, Ageing, Steadily

(* The core of the invariant, and what every step does on top of it.       *)
Core == ProcInv /\ RefInv /\ menu \in Menus

LEMMA CoreNext ==
  ASSUME Core, [Next]_vars
  PROVE  Core' /\ ProcInv' /\ RefInv' /\ Loyal /\ Catalogued /\ Grown /\ Counted
<1>1. ProcInv /\ RefInv /\ menu \in Menus
  BY DEF Core
<1>2. ProcInv' /\ Loyal /\ Catalogued /\ Counted
  BY <1>1, Catalog, AllCounted
<1>3. Grown /\ RefInv'
  BY <1>1, <1>2, AllGrown, AllRefs
<1>4. menu' \in Menus
  BY <1>1, <1>2 DEF Counted
<1> QED BY <1>2, <1>3, <1>4 DEF Core

-----------------------------------------------------------------------------
(* Revocation *)

(* The key of an organisation is kept for as long as a token lives.        *)
CutsKept ==
  \A o \in DOMAIN orgs' :
    \/ o \in DOMAIN orgs /\ orgs'[o].cutAt = orgs[o].cutAt /\ orgs'[o].cutUntil = orgs[o].cutUntil
    \/ orgs'[o].cutAt = 0
    \/ orgs'[o].cutUntil = orgs'[o].cutAt + Week

(* A token stays as it is, logs out, or is new.                            *)
TokensKept ==
  \A s \in DOMAIN sessions' :
    \/ s \in DOMAIN sessions /\ sessions'[s] = sessions[s]
    \/ /\ s \in DOMAIN sessions /\ sessions'[s].exp = sessions[s].exp /\ sessions'[s].at = sessions[s].at
       /\ sessions'[s].denied >= sessions[s].exp
    \/ /\ sessions'[s].at = now /\ sessions'[s].exp \in {Second(now) + Week, Second(now) + Hour}
       /\ sessions'[s].out = FALSE

LEMMA OrgsSame ==
  /\ orgs' = orgs => CutsKept
  /\ sessions' = sessions => TokensKept
  BY DEF CutsKept, TokensKept

LEMMA SignsKept ==
  ASSUME RowInv, NEW o \in DOMAIN orgs, SignsOne(o)
  PROVE  TokensKept
<1>1. /\ DOMAIN sessions' = DOMAIN sessions \cup {Len(sessions) + 1}
      /\ \A s \in DOMAIN sessions : sessions'[s] = sessions[s]
      /\ sessions'[Len(sessions) + 1].at = now /\ sessions'[Len(sessions) + 1].out = FALSE
      /\ sessions'[Len(sessions) + 1].exp \in {Second(now) + Week, Second(now) + Hour}
  BY TokenNew
<1> QED BY <1>1 DEF TokensKept

LEMMA NewOrgFields == \A b \in BOOLEAN : /\ NewOrg(b).sub = b /\ NewOrg(b).cutAt = 0 /\ NewOrg(b).doomed = FALSE
                                         /\ NewOrg(b).demoted = FALSE
  BY DEF NewOrg

LEMMA NewOrgKept ==
  ASSUME NEW b \in BOOLEAN, NEW o, DOMAIN orgs' = DOMAIN orgs \cup {o}, orgs'[o] = NewOrg(b), \A i \in DOMAIN orgs : orgs'[i] = orgs[i]
  PROVE  CutsKept
  BY NewOrgFields DEF CutsKept

LEMMA AllKept ==
  ASSUME ProcInv, RefInv, menu \in Menus, Catalogued
  PROVE  CutsKept /\ TokensKept
<1>1. RowInv
  BY DEF RefInv
<1>2. CASE Still
  BY <1>2, OrgsSame DEF Still, Stored
<1>3. CASE Ageing
  BY <1>3, CodeExpiresRows, OrgsSame DEF Ageing, RestOfCodes
<1>4. ASSUME NEW p \in Handlers, CodeStep(p) PROVE CutsKept /\ TokensKept
  BY <1>4, StoreCodeRows, CountRows, SpendRows, SweepCodesRows, OrgsSame DEF CodeStep, RestOfCodes
<1>5. ASSUME NEW p \in Handlers, OrgStep(p) PROVE CutsKept /\ TokensKept
  <2>1. DOMAIN orgs' = DOMAIN orgs /\ (\A i \in DOMAIN orgs : Alike(i)) /\ sessions' = sessions
    BY <1>5, OrgStepRows DEF RestOfOrgs
  <2> QED BY <2>1, OrgsSame DEF CutsKept, Alike
<1>6. ASSUME NEW p \in Handlers, PeopleStep(p) PROVE CutsKept /\ TokensKept
  <2>1. CASE Add(p)
    BY <2>1, AddRows, OrgsSame
  <2>2. CASE Drop(p) \/ DropMembers(p)
    BY <2>2, DropRows, OrgsSame
  <2>3. CASE SetRole(p)
    <3>1. /\ sessions' = sessions /\ DOMAIN orgs' = DOMAIN orgs
          /\ \A i \in DOMAIN orgs : orgs'[i].cutAt = orgs[i].cutAt /\ orgs'[i].cutUntil = orgs[i].cutUntil
      BY <2>3, SetRoleRows
    <3> QED BY <3>1, OrgsSame DEF CutsKept
  <2>4. CASE AdminCreate(p)
    <3>1. /\ sessions' = sessions /\ DOMAIN orgs' = DOMAIN orgs \cup {Len(orgs) + 1}
          /\ orgs'[Len(orgs) + 1] = NewOrg(TRUE) /\ \A i \in DOMAIN orgs : orgs'[i] = orgs[i]
      BY <2>4, AdminCreateRows
    <3> QED BY <3>1, OrgsSame, NewOrgKept
  <2> QED BY <1>6, <2>1, <2>2, <2>3, <2>4 DEF PeopleStep
<1>7. ASSUME NEW p \in Handlers, TokenStep(p) PROVE CutsKept /\ TokensKept
  <2>1. CASE Sign(p)
    BY <1>1, <2>1, SignRows, SignsKept, OrgsSame DEF RestOfTokens
  <2>2. CASE ImpersonateMember(p)
    BY <1>1, <2>2, ImpersonateRows, SignsKept, OrgsSame DEF RestOfTokens
  <2>3. CASE RevokeToken(p)
    BY <2>3, RevokeRows, OrgsSame DEF RestOfTokens, TokensKept
  <2> QED BY <1>7, <2>1, <2>2, <2>3 DEF TokenStep
<1>8. ASSUME NEW p \in Handlers, HeldStep(p) PROVE CutsKept /\ TokensKept
  <2>1. CASE FindCode(p)
    BY <2>1, FindCodeRows, OrgsSame DEF RestOfCodes
  <2>2. CASE FindHome(p)
    BY <1>1, <2>2, HomeRows, SignsKept, OrgsSame
  <2>3. CASE MakeOrg(p)
    BY <2>3, MakeOrgRows, NewOrgKept, OrgsSame DEF RestOfOrgs
  <2>4. CASE SubscribeOrg(p)
    <3>1. sessions' = sessions /\ (orgs' = orgs \/ SubBecomes(proc[p].org, TRUE))
      BY <2>4, SubscribeRows DEF RestOfOrgs
    <3> QED BY <3>1, OrgsSame DEF CutsKept, SubBecomes
  <2>5. CASE Join(p)
    BY <1>1, <2>5, JoinRows, SignsKept, OrgsSame
  <2>6. CASE CountSeats(p)
    BY <2>6, SeatRows, OrgsSame
  <2>7. CASE FindMember(p)
    BY <2>7, OrgsSame DEF FindMember, FoundMember, accounts
  <2>8. CASE CutOrg(p)
    BY <2>8, CutRows, OrgsSame DEF RestOfOrgs, CutsKept
  <2>9. CASE DropSub(p)
    <3>1. sessions' = sessions /\ SubBecomes(proc[p].org, FALSE)
      BY <2>9, DropSubRows DEF RestOfOrgs
    <3> QED BY <3>1, OrgsSame DEF CutsKept, SubBecomes
  <2> QED BY <1>8, <2>1, <2>2, <2>3, <2>4, <2>5, <2>6, <2>7, <2>8, <2>9 DEF HeldStep
<1> QED BY <1>2, <1>3, <1>4, <1>5, <1>6, <1>7, <1>8 DEF Catalogued, Steadily

LEMMA TokenNext ==
  ASSUME RowInv, TokenInv, CutsKept, TokensKept
  PROVE  TokenInv'
<1>1. ASSUME NEW o \in DOMAIN orgs' PROVE orgs'[o].cutAt = 0 \/ orgs'[o].cutUntil = orgs'[o].cutAt + Week
  BY DEF CutsKept, TokenInv
<1>2. ASSUME NEW s \in DOMAIN sessions'
      PROVE  /\ sessions'[s].exp % 2 = 0 /\ sessions'[s].exp <= Second(sessions'[s].at) + Week
             /\ sessions'[s].out => sessions'[s].exp <= sessions'[s].denied
  <2>1. CASE s \in DOMAIN sessions /\ sessions'[s] = sessions[s]
    BY <2>1 DEF TokenInv
  <2>2. CASE /\ s \in DOMAIN sessions /\ sessions'[s].exp = sessions[s].exp /\ sessions'[s].at = sessions[s].at
             /\ sessions'[s].denied >= sessions[s].exp
    BY <2>2 DEF TokenInv
  <2>3. CASE /\ sessions'[s].at = now /\ sessions'[s].exp \in {Second(now) + Week, Second(now) + Hour}
             /\ sessions'[s].out = FALSE
    <3>1. now \in Nat /\ Second(now) \in Nat /\ Second(now) % 2 = 0
      BY SecondOK DEF RowInv
    <3>2. (Second(now) + 6) % 2 = 0 /\ (Second(now) + 2) % 2 = 0
      BY <3>1
    <3> QED BY <2>3, <3>1, <3>2 DEF Week, Hour
  <2> QED BY <2>1, <2>2, <2>3 DEF TokensKept
<1> QED BY <1>1, <1>2 DEF TokenInv

LEMMA TokenSafe ==
  ASSUME RowInv, TokenInv
  PROVE  StayOut
<1>1. ASSUME NEW s \in DOMAIN sessions
      PROVE  /\ sessions[s].at \in Nat /\ sessions[s].exp \in Nat /\ sessions[s].denied \in Nat
             /\ sessions[s].org \in DOMAIN orgs /\ orgs[sessions[s].org].cutAt \in Nat
             /\ orgs[sessions[s].org].cutUntil \in Nat
  <2>1. sessions[s] \in TokenRow /\ sessions[s].org \in DOMAIN orgs
    BY SeqAt DEF RowInv
  <2>2. orgs[sessions[s].org] \in OrgRow
    BY <2>1, OrgAt
  <2> QED BY <2>1, <2>2 DEF TokenRow, OrgRow
<1>2. now \in Nat /\ Second(now) \in Nat /\ Second(now) % 2 = 0 /\ Second(now) <= now /\ now <= Second(now) + 1
  BY SecondOK DEF RowInv
<1>3. ASSUME NEW s \in DOMAIN sessions, sessions[s].at < orgs[sessions[s].org].cutAt, Accepted(s) PROVE FALSE
  <2> DEFINE at == sessions[s].at
             exp == sessions[s].exp
             cut == orgs[sessions[s].org].cutAt
             until == orgs[sessions[s].org].cutUntil
  <2>1. at \in Nat /\ exp \in Nat /\ cut \in Nat /\ until \in Nat /\ at < cut
    BY <1>1, <1>3
  <2>2. cut = 0 \/ until = cut + 6
    BY <1>1 DEF TokenInv, Week
  <2>3. exp <= Second(at) + 6
    BY DEF TokenInv, Week
  <2>4. Second(now) < exp /\ ~(now < until /\ Second(at) < cut)
    BY <1>3 DEF Accepted
  <2>5. Second(at) \in Nat /\ Second(at) <= at
    BY <2>1, SecondOK
  <2> HIDE DEF at, exp, cut, until
  <2> QED BY <1>2, <2>1, <2>2, <2>3, <2>4, <2>5
<1>4. ASSUME NEW s \in DOMAIN sessions, sessions[s].out, Accepted(s) PROVE FALSE
  <2> DEFINE exp == sessions[s].exp
             denied == sessions[s].denied
  <2>1. exp \in Nat /\ denied \in Nat /\ exp % 2 = 0 /\ exp <= denied
    BY <1>1, <1>4 DEF TokenInv
  <2>2. Second(now) < exp /\ denied <= now
    BY <1>4 DEF Accepted
  <2> HIDE DEF exp, denied
  <2>3. exp = Second(now) + 1
    BY <1>2, <2>1, <2>2
  <2> QED BY <1>2, <2>1, <2>3
<1> QED BY <1>3, <1>4 DEF StayOut, RevokedStayOut, LoggedOutStaysOut

(* The first rows.                                                         *)
LEMMA InitMenu ==
  ASSUME Init
  PROVE  /\ menu \in Menus /\ menu.owners \in Seq(Nat) /\ Range(menu.owners) = 1..Cardinality(Range(menu.owners))
         /\ Cardinality(Range(menu.owners)) \in Nat /\ IsFiniteSet(DOMAIN menu.owners)
         /\ Len(menu.owners) \in Nat /\ DOMAIN menu.owners = 1..Len(menu.owners)
         /\ Range(menu.owners) = {menu.owners[u] : u \in DOMAIN menu.owners}
         /\ \A u \in DOMAIN menu.owners : menu.owners[u] \in Nat /\ menu.owners[u] \in Range(menu.owners) /\ u \in Nat
<1>1. menu \in Menus
  BY DEF Init
<1>2. menu.owners \in Seq(Nat) /\ Range(menu.owners) = 1..Cardinality(Range(menu.owners))
  BY <1>1, AccountsAssumption
<1> DEFINE owners == menu.owners
<1>3. owners \in Seq(Nat)
  BY <1>2
<1> HIDE DEF owners
<1>4. Len(owners) \in Nat /\ DOMAIN owners = 1..Len(owners) /\ \A u \in DOMAIN owners : owners[u] \in Nat /\ u \in Nat
  BY <1>3
<1>5. IsFiniteSet(DOMAIN owners)
  BY <1>4, FS_Interval
<1>6. Range(owners) = {owners[u] : u \in DOMAIN owners}
  BY DEF Range
<1>7. IsFiniteSet(Range(owners))
  <2>1. owners \in [DOMAIN owners -> {owners[u] : u \in DOMAIN owners}]
    BY <1>3
  <2> QED BY <1>5, <1>6, <2>1, ImageFinite
<1>8. Cardinality(Range(owners)) \in Nat
  BY <1>7, FS_CardinalityType
<1> QED BY <1>1, <1>2, <1>4, <1>5, <1>6, <1>8 DEF owners

LEMMA InitProc ==
  ASSUME Init
  PROVE  DOMAIN proc = Handlers /\ \A p \in Handlers : proc[p] = Idle
  BY DEF Init

LEMMA InitNowhere ==
  ASSUME Init, NEW p \in Handlers
  PROVE  (\A s : ~At(p, s)) /\ ~Joining(p) /\ proc[p].op \notin AccountOps
<1>1. proc[p] = Idle /\ Idle.todo = <<>> /\ Idle.op = "idle" /\ Idle.op \notin AccountOps
  BY InitProc, IdleAway DEF Away
<1> QED BY <1>1 DEF At, Joining

LEMMA InitOrgs ==
  ASSUME Init
  PROVE  /\ orgs \in Seq(OrgRow) /\ DOMAIN orgs = Range(menu.owners)
         /\ \A o \in DOMAIN orgs : orgs[o] = NewOrg(TRUE)
<1> DEFINE n == Cardinality(Range(menu.owners))
<1>1. orgs = [o \in Range(menu.owners) |-> NewOrg(TRUE)]
  BY DEF Init, AccountsInit
<1>2. n \in Nat /\ Range(menu.owners) = 1..n
  BY InitMenu
<1>3. orgs \in [1..n -> OrgRow]
  BY <1>1, <1>2, NewOrgRow
<1> HIDE DEF n
<1>4. orgs \in Seq(OrgRow)
  BY <1>2, <1>3
<1> QED BY <1>1, <1>4

LEMMA InitTokens ==
  ASSUME Init
  PROVE  /\ sessions \in Seq(TokenRow) /\ DOMAIN sessions = DOMAIN menu.owners
         /\ \A s \in DOMAIN sessions : /\ sessions[s].org = menu.owners[s] /\ sessions[s].at = 0
                                       /\ sessions[s].exp = Second(0) + Week /\ sessions[s].out = FALSE
<1> DEFINE n == Len(menu.owners)
<1>1. sessions = [u \in DOMAIN menu.owners |-> Session(u, menu.owners[u], "owner", 0, Week)]
  BY DEF Init, AccountsInit
<1>2. n \in Nat /\ DOMAIN menu.owners = 1..n /\ \A u \in 1..n : u \in Nat /\ menu.owners[u] \in Nat
  BY InitMenu
<1>3. ASSUME NEW u \in 1..n
      PROVE  /\ sessions[u] \in TokenRow /\ sessions[u].org = menu.owners[u] /\ sessions[u].at = 0
             /\ sessions[u].exp = Second(0) + Week /\ sessions[u].out = FALSE
  <2> DEFINE b == u \in Staff
             e == Second(0) + Week
             o == menu.owners[u]
             x == sessions[u]
  <2>1. b \in BOOLEAN
    OBVIOUS
  <2>2. e \in Nat
    <3>1. Second(0) \in Nat
      BY SecondOK
    <3> QED BY <3>1 DEF Week
  <2>3. o \in Nat /\ u \in Nat
    BY <1>2
  <2>4. x = [user |-> u, org |-> o, role |-> "owner", staff |-> b, at |-> 0, exp |-> e, denied |-> 0, out |-> FALSE]
    BY <1>1, <1>2 DEF Session
  <2> HIDE DEF b, e, o, x
  <2>5. x \in TokenRow /\ x.org = o /\ x.at = 0 /\ x.exp = e /\ x.out = FALSE
    BY <2>1, <2>2, <2>3, <2>4 DEF TokenRow, Roles
  <2> QED BY <2>5 DEF e, o, x
<1>4. sessions \in [1..n -> TokenRow]
  BY <1>1, <1>2, <1>3
<1>5. sessions \in Seq(TokenRow) /\ DOMAIN sessions = 1..n
  <2> HIDE DEF n
  <2> QED BY <1>2, <1>4
<1> QED BY <1>2, <1>3, <1>5

(* The first members.                                                      *)
FirstMade(u) == \A v \in 1..u - 1 : menu.owners[v] # menu.owners[u]
FirstMember(u) == [id |-> 0, org |-> menu.owners[u], user |-> u, role |-> "owner", made |-> FirstMade(u)]

LEMMA InitMembers ==
  ASSUME Init
  PROVE  /\ members = {FirstMember(u) : u \in DOMAIN menu.owners} /\ IsFiniteSet(members)
         /\ \A u \in DOMAIN menu.owners :
              /\ FirstMember(u) \in MemberRow /\ FirstMember(u).org = menu.owners[u] /\ FirstMember(u).user = u
              /\ FirstMember(u).role = "owner"
<1>1. members = {FirstMember(u) : u \in DOMAIN menu.owners}
  BY DEF Init, AccountsInit, FirstMember, FirstMade
<1>2. IsFiniteSet(members)
  <2> DEFINE f == [u \in DOMAIN menu.owners |-> FirstMember(u)]
  <2>1. members = {f[u] : u \in DOMAIN menu.owners} /\ f \in [DOMAIN menu.owners -> {f[u] : u \in DOMAIN menu.owners}]
    BY <1>1
  <2> HIDE DEF f
  <2> QED BY <2>1, InitMenu, ImageFinite
<1>3. ASSUME NEW u \in DOMAIN menu.owners
      PROVE  /\ FirstMember(u) \in MemberRow /\ FirstMember(u).org = menu.owners[u] /\ FirstMember(u).user = u
             /\ FirstMember(u).role = "owner"
  <2> DEFINE b == FirstMade(u)
             o == menu.owners[u]
  <2>1. b \in BOOLEAN
    BY DEF FirstMade
  <2>2. o \in Nat /\ u \in Nat
    BY InitMenu
  <2>3. FirstMember(u) = [id |-> 0, org |-> o, user |-> u, role |-> "owner", made |-> b]
    BY DEF FirstMember
  <2> HIDE DEF b, o
  <2>4. /\ FirstMember(u) \in MemberRow /\ FirstMember(u).org = o /\ FirstMember(u).user = u
        /\ FirstMember(u).role = "owner"
    BY <2>1, <2>2, <2>3 DEF MemberRow, Roles
  <2> QED BY <2>4 DEF o
<1> QED BY <1>1, <1>2, <1>3

LEMMA InitCore == Init => Core /\ RowInv
<1> SUFFICES ASSUME Init PROVE Core /\ RowInv
  OBVIOUS
<1>1. ProcInv
  BY InitProc, IdleAway DEF ProcInv
<1>2. codes = <<>> /\ now = 1 /\ calls = 0 /\ slips = [home |-> 0, seat |-> 0]
  BY DEF Init, AccountsInit
<1>3. codes \in Seq(CodeRow) /\ now \in Nat /\ calls \in Nat /\ slips \in [home : Nat, seat : Nat]
  BY <1>2
<1>4. \A m \in members : m \in MemberRow /\ m.org \in DOMAIN orgs
  BY InitMembers, InitMenu, InitOrgs
<1>5. \A s \in DOMAIN sessions : sessions[s].org \in DOMAIN orgs
  BY InitTokens, InitMenu, InitOrgs
<1>6. RowInv
  BY <1>3, <1>4, <1>5, InitMembers, InitOrgs, InitTokens DEF RowInv
<1>7. RefInv
  BY <1>6, InitNowhere DEF RefInv
<1> QED BY <1>1, <1>6, <1>7, InitMenu DEF Core

LEMMA InitToken == Init => TokenInv
<1> SUFFICES ASSUME Init PROVE TokenInv
  OBVIOUS
<1>1. Second(0) \in Nat /\ Second(0) % 2 = 0
  BY SecondOK
<1>2. (Second(0) + 6) % 2 = 0
  BY <1>1
<1>3. \A o \in DOMAIN orgs : orgs[o].cutAt = 0
  BY InitOrgs, NewOrgFields
<1>4. ASSUME NEW s \in DOMAIN sessions
      PROVE  /\ sessions[s].exp % 2 = 0 /\ sessions[s].exp <= Second(sessions[s].at) + Week
             /\ sessions[s].out => sessions[s].exp <= sessions[s].denied
  <2>1. sessions[s].at = 0 /\ sessions[s].exp = Second(0) + 6 /\ sessions[s].out = FALSE
    BY InitTokens DEF Week
  <2> QED BY <1>1, <1>2, <2>1 DEF Week
<1> QED BY <1>3, <1>4 DEF TokenInv

(* Handlers, rows and what the handlers refer to stay what they should be, *)
(* whatever else of the console runs meanwhile.                            *)
THEOREM CoreInvariant == Spec => []Core
<1>1. Init => Core
  BY InitCore
<1>2. Core /\ [Next]_vars => Core'
  BY CoreNext
<1> QED BY <1>1, <1>2, PTL DEF Spec

LEMMA TokenStable == Core /\ TokenInv /\ [Next]_vars => TokenInv'
<1> SUFFICES ASSUME Core, TokenInv, [Next]_vars PROVE TokenInv'
  OBVIOUS
<1>1. ProcInv /\ RefInv /\ menu \in Menus /\ RowInv
  BY DEF Core, RefInv
<1>2. Catalogued
  BY CoreNext
<1> QED BY <1>1, <1>2, AllKept, TokenNext

(* What was revoked stays out: a token signed before its organisation was  *)
(* suspended or deleted, or one that logged out, is never accepted again,  *)
(* also after its revocation key has expired.                              *)
THEOREM RevokedForGood == Spec => []StayOut
<1>1. Init => TokenInv
  BY InitToken
<1>2. Core /\ TokenInv /\ [Next]_vars => TokenInv'
  BY TokenStable
<1>3. Core /\ TokenInv => StayOut
  BY TokenSafe DEF Core, RefInv
<1> QED BY <1>1, <1>2, <1>3, CoreInvariant, PTL DEF Spec

-----------------------------------------------------------------------------
(* Who comes to which step *)

NewOnly(S) == \A q \in Handlers, s \in Claims : At(q, s)' => proc'[q] = proc[q] \/ s \in S
JoinersKept == \A q \in Handlers : Joining(q)' => Joining(q) /\ proc'[q].who = proc[q].who

LEMMA CalmNew == Calm => NewOnly({}) /\ JoinersKept
  BY DEF Calm, NewOnly, JoinersKept

LEMMA FollowsNew ==
  ASSUME ProcInv, NEW p \in Handlers, NEW step, At(p, step), Follows(p, step), NEW S, \A s : Then(step, s) => s \in S
  PROVE  NewOnly(S) /\ JoinersKept
<1>1. ASSUME NEW q \in Handlers, NEW s \in Claims, At(q, s)' PROVE proc'[q] = proc[q] \/ s \in S
  BY <1>1, IdleNowhere, HeldSteps DEF Follows
<1>2. JoinersKept
  BY StillJoining DEF JoinersKept
<1> QED BY <1>1, <1>2 DEF NewOnly

LEMMA OnlyNew ==
  ASSUME NEW p \in Handlers, Only(p), NEW S, \A s \in Claims : At(p, s)' => s \in S
  PROVE  NewOnly(S) /\ \A q \in Handlers \ {p} : Joining(q)' => Joining(q) /\ proc'[q].who = proc[q].who
  BY DEF Only, NewOnly, Joining, Awaits

LEMMA ThenOnly ==
  /\ \A s : Then("subscribe", s) => s \in {"join"}
  /\ \A s : Then("join", s) => s \in {"sign"}
  /\ \A s : Then("seats", s) => s \in {"add"}
  /\ \A s : Then("cut", s) => s \in {"drop sub"}
  /\ \A s : Then("drop sub", s) => s \in {"drop members"}
  BY DEF Then

LEMMA FindCodeNew ==
  ASSUME ProcInv, RefInv, NEW p \in Handlers, FindCode(p)
  PROVE  NewOnly({"count", "spend"}) /\ JoinersKept
<1>1. Only(p) /\ ~Joining(p)' /\ \A s \in Claims : At(p, s)' => s \in {"count", "spend"}
  <2> DEFINE good == {k \in DOMAIN codes : codes[k].user = proc[p].who /\ codes[k].state = "live" /\ ~codes[k].late}
  <2> HIDE DEF good
  <2> QED BY FindCodeMoves DEF good
<1> QED BY <1>1, OnlyNew DEF JoinersKept

LEMMA FindHomeNew ==
  ASSUME ProcInv, RefInv, NEW p \in Handlers, FindHome(p)
  PROVE  NewOnly({"sign"})
<1>1. Only(p) /\ \A s \in Claims : At(p, s)' => s \in {"sign"}
  BY FindHomeMoves, IdleNowhere
<1> QED BY <1>1, OnlyNew

LEMMA MakeOrgNew ==
  ASSUME ProcInv, RefInv, NEW p \in Handlers, MakeOrg(p)
  PROVE  NewOnly({"subscribe"}) /\ JoinersKept
<1>1. /\ Only(p) /\ (Joining(p)' => Joining(p) /\ proc'[p].who = proc[p].who)
      /\ \A s \in Claims : At(p, s)' => s \in {"subscribe"}
  BY MakeOrgMoves
<1> QED BY <1>1, OnlyNew DEF JoinersKept

LEMMA FindMemberNew ==
  ASSUME ProcInv, RefInv, NEW p \in Handlers, FindMember(p)
  PROVE  NewOnly({"drop"}) /\ JoinersKept
<1>1. Only(p) /\ ~Joining(p)' /\ \A s \in Claims : At(p, s)' => s \in {"drop"}
  BY FindMemberMoves
<1> QED BY <1>1, OnlyNew DEF JoinersKept

LEMMA SubscribeNew ==
  ASSUME ProcInv, RefInv, NEW p \in Handlers, SubscribeOrg(p)
  PROVE  NewOnly({"join"}) /\ JoinersKept
  BY SubscribeOrgMoves, FollowsNew, ThenOnly, Zenon
LEMMA JoinNew ==
  ASSUME ProcInv, RefInv, NEW p \in Handlers, Join(p)
  PROVE  NewOnly({"sign"}) /\ JoinersKept
  BY JoinMoves, FollowsNew, ThenOnly, Zenon
LEMMA SeatsNew ==
  ASSUME ProcInv, RefInv, NEW p \in Handlers, CountSeats(p)
  PROVE  NewOnly({"add"}) /\ JoinersKept
  BY CountSeatsMoves, FollowsNew, ThenOnly, Zenon
LEMMA CutNew ==
  ASSUME ProcInv, RefInv, NEW p \in Handlers, CutOrg(p)
  PROVE  NewOnly({"drop sub"}) /\ JoinersKept
  BY CutOrgMoves, FollowsNew, ThenOnly, Zenon
LEMMA DropSubNew ==
  ASSUME ProcInv, RefInv, NEW p \in Handlers, DropSub(p)
  PROVE  NewOnly({"drop members"}) /\ JoinersKept
  BY DropSubMoves, FollowsNew, ThenOnly, Zenon

LEMMA Distinct ==
  /\ \A s \in {"count", "spend", "subscribe", "join", "sign", "add", "drop"} : s # "drop sub" /\ s # "drop members"
  /\ "drop sub" # "drop members"
  OBVIOUS

-----------------------------------------------------------------------------
(* Codes and the guesses compared with them *)

ComparingFits == \A k : Comparing(k)' \subseteq Comparing(k) /\ \A q \in Comparing(k)' : proc'[q] = proc[q]

LEMMA ComparingIs ==
  \A k : Comparing(k) = {q \in Handlers : proc[q].op = "verify" /\ proc[q].id = k /\ (At(q, "count") \/ At(q, "spend"))}
  BY DEF Comparing, Busy, At
LEMMA ComparingIsNext ==
  \A k : Comparing(k)' = {q \in Handlers : proc'[q].op = "verify" /\ proc'[q].id = k /\ (At(q, "count") \/ At(q, "spend"))'}
  BY DEF Comparing, Busy, At

LEMMA ComparingFinite == \A k : IsFiniteSet(Comparing(k)) /\ Cardinality(Comparing(k)) \in Nat
  BY HandlersFinite DEF Comparing, Busy
LEMMA ComparingFiniteNext == \A k : IsFiniteSet(Comparing(k)') /\ Cardinality(Comparing(k)') \in Nat
  BY HandlersFinite DEF Comparing, Busy

LEMMA NobodyCompares ==
  ASSUME NEW S, NewOnly(S), "count" \notin S, "spend" \notin S
  PROVE  ComparingFits
<1> SUFFICES ASSUME NEW k, NEW q \in Comparing(k)' PROVE q \in Comparing(k) /\ proc'[q] = proc[q]
  BY DEF ComparingFits
<1>1. q \in Handlers /\ proc'[q].op = "verify" /\ proc'[q].id = k /\ (At(q, "count") \/ At(q, "spend"))'
  BY ComparingIsNext
<1>2. proc'[q] = proc[q]
  BY <1>1, HeldNamed DEF NewOnly
<1>3. At(q, "count") \/ At(q, "spend")
  BY <1>1, <1>2 DEF At
<1> QED BY <1>1, <1>2, <1>3, ComparingIs

(* What CodeInv says of one code.                                          *)
Guessed(c, S, saw) ==
  /\ c.settled + Cardinality(S) <= Attempts + c.overlaps
  /\ c.state = "live" =>
       /\ c.tries < Attempts
       /\ c.settled <= c.tries + c.overlaps
       /\ \A q \in S : c.settled + Cardinality(S) <= saw[q] + c.overlaps + 1
SawBy == [q \in Handlers |-> proc[q].saw]
CodeOK(k) == Guessed(codes[k], Comparing(k), SawBy)

CodesOK == \A k \in DOMAIN codes : CodeOK(k)

LEMMA CodeInvIs == CodeInv <=> CodesOK
<1>1. \A k : Comparing(k) \subseteq Handlers
  BY DEF Comparing, Busy
<1> QED BY <1>1 DEF CodeInv, CodesOK, CodeOK, Guessed, SawBy
LEMMA CodeInvNext == CodesOK' <=> CodeInv'
  BY CodeInvIs, PTL

(* A code nothing was settled of, while nobody came to compare with it.    *)
LEMMA GuessedSame ==
  ASSUME NEW c \in CodeRow, NEW d \in CodeRow, NEW S, IsFiniteSet(S), NEW T, T \subseteq S, NEW saw, NEW saw2,
         d.settled = c.settled, d.overlaps = c.overlaps, d.tries = c.tries, d.state = "live" => c.state = "live",
         \A q \in S : saw[q] \in Nat, \A q \in T : saw2[q] = saw[q], Guessed(c, S, saw)
  PROVE  Guessed(d, T, saw2)
<1> DEFINE n == Cardinality(S)
           m == Cardinality(T)
<1>1. n \in Nat /\ m \in Nat /\ m <= n
  BY FS_Subset, FS_CardinalityType
<1>2. /\ c.settled \in Nat /\ c.overlaps \in Nat /\ c.tries \in Nat /\ Attempts \in Nat
  BY AccountsAssumption DEF CodeRow
<1>3. c.settled + n <= Attempts + c.overlaps
  BY DEF Guessed
<1>4. c.state = "live" => /\ c.tries < Attempts /\ c.settled <= c.tries + c.overlaps
                          /\ \A q \in S : c.settled + n <= saw[q] + c.overlaps + 1
  BY DEF Guessed
<1> HIDE DEF n, m
<1>5. d.settled + m <= Attempts + d.overlaps
  BY <1>1, <1>2, <1>3
<1>6. ASSUME d.state = "live", NEW q \in T PROVE d.settled + m <= saw2[q] + d.overlaps + 1
  <2>1. q \in S /\ saw2[q] = saw[q] /\ saw[q] \in Nat
    OBVIOUS
  <2>2. c.settled + n <= saw[q] + c.overlaps + 1
    BY <1>4, <1>6, <2>1
  <2> QED BY <1>1, <1>2, <2>1, <2>2
<1>7. d.state = "live" => d.tries < Attempts /\ d.settled <= d.tries + d.overlaps
  BY <1>4
<1> QED BY <1>5, <1>6, <1>7 DEF Guessed, m

(* One that p, which compared with it, has come to an end with.            *)
LEMMA GuessedSettled ==
  ASSUME NEW c \in CodeRow, NEW d \in CodeRow, NEW S, IsFiniteSet(S), NEW p \in S, NEW T, T \subseteq S \ {p}, NEW saw, NEW saw2,
         d.settled = c.settled + 1, d.overlaps = c.overlaps,
         d.state = "live" => c.state = "live" /\ d.tries = saw[p] + 1 /\ d.tries < Attempts,
         \A q \in S : saw[q] \in Nat, \A q \in T : saw2[q] = saw[q], Guessed(c, S, saw)
  PROVE  Guessed(d, T, saw2)
<1> DEFINE n == Cardinality(S)
           m == Cardinality(T)
<1>1. n \in Nat /\ m \in Nat /\ m + 1 <= n
  <2>1. IsFiniteSet(S \ {p}) /\ Cardinality(S \ {p}) = Cardinality(S) - 1 /\ Cardinality(S \ {p}) \in Nat /\ n \in Nat
    BY FS_RemoveElement, FS_CardinalityType
  <2>2. IsFiniteSet(T) /\ m <= Cardinality(S \ {p}) /\ m \in Nat
    BY <2>1, FS_Subset, FS_CardinalityType
  <2> QED BY <2>1, <2>2
<1>2. /\ c.settled \in Nat /\ c.overlaps \in Nat /\ Attempts \in Nat /\ saw[p] \in Nat
  BY AccountsAssumption DEF CodeRow
<1>3. c.settled + n <= Attempts + c.overlaps
  BY DEF Guessed
<1>4. c.state = "live" => \A q \in S : c.settled + n <= saw[q] + c.overlaps + 1
  BY DEF Guessed
<1> HIDE DEF n, m
<1>5. d.settled + m <= Attempts + d.overlaps
  BY <1>1, <1>2, <1>3
<1>6. ASSUME d.state = "live", NEW q \in T PROVE d.settled + m <= saw2[q] + d.overlaps + 1
  <2>1. q \in S /\ saw2[q] = saw[q] /\ saw[q] \in Nat
    OBVIOUS
  <2>2. c.settled + n <= saw[q] + c.overlaps + 1
    BY <1>4, <1>6, <2>1
  <2> QED BY <1>1, <1>2, <2>1, <2>2
<1>7. ASSUME d.state = "live" PROVE d.tries < Attempts /\ d.settled <= d.tries + d.overlaps
  <2>1. c.settled + n <= saw[p] + c.overlaps + 1 /\ d.tries = saw[p] + 1 /\ d.tries < Attempts
    BY <1>4, <1>7
  <2> QED BY <1>1, <1>2, <2>1
<1> QED BY <1>5, <1>6, <1>7 DEF Guessed, m

(* One that p, which has just read it, compares with too.                  *)
LEMMA GuessedRead ==
  ASSUME NEW c \in CodeRow, NEW d \in CodeRow, NEW S, IsFiniteSet(S), NEW p, p \notin S, NEW saw, NEW saw2,
         c.state = "live", d.settled = c.settled, d.tries = c.tries, d.overlaps = c.overlaps + Cardinality(S),
         saw2[p] = c.tries, \A q \in S : saw[q] \in Nat, \A q \in S : saw2[q] = saw[q], Guessed(c, S, saw)
  PROVE  Guessed(d, S \cup {p}, saw2)
<1> DEFINE n == Cardinality(S)
           m == Cardinality(S \cup {p})
<1>1. n \in Nat /\ m = n + 1
  BY FS_AddElement, FS_CardinalityType
<1>2. /\ c.settled \in Nat /\ c.overlaps \in Nat /\ c.tries \in Nat /\ Attempts \in Nat
  BY AccountsAssumption DEF CodeRow
<1>3. /\ c.tries < Attempts /\ c.settled <= c.tries + c.overlaps
      /\ \A q \in S : c.settled + n <= saw[q] + c.overlaps + 1
  BY DEF Guessed
<1>4. d.overlaps = c.overlaps + n
  OBVIOUS
<1>5. \A q \in S : n >= 1
  <2> SUFFICES ASSUME S # {} PROVE n # 0
    BY <1>1
  <2> QED BY FS_EmptySet
<1> HIDE DEF n, m
<1>6. d.settled + m <= Attempts + d.overlaps
  BY <1>1, <1>2, <1>3, <1>4
<1>7. ASSUME NEW q \in S \cup {p} PROVE d.settled + m <= saw2[q] + d.overlaps + 1
  <2>1. CASE q \in S
    <3>1. c.settled + n <= saw[q] + c.overlaps + 1 /\ saw2[q] = saw[q] /\ saw[q] \in Nat /\ n >= 1
      BY <1>3, <1>5, <2>1
    <3> QED BY <1>1, <1>2, <1>4, <3>1
  <2>2. CASE q = p
    BY <1>1, <1>2, <1>3, <1>4, <2>2
  <2> QED BY <2>1, <2>2
<1>8. d.tries < Attempts /\ d.settled <= d.tries + d.overlaps
  BY <1>1, <1>2, <1>3, <1>4
<1> QED BY <1>6, <1>7, <1>8 DEF Guessed, m

(* A new one.                                                              *)
LEMMA GuessedNew ==
  ASSUME NEW u, NEW saw
  PROVE  Guessed(Code(u), {}, saw)
<1>1. /\ Code(u).settled = 0 /\ Code(u).overlaps = 0 /\ Code(u).tries = 0
  BY DEF Code
<1>2. Cardinality({}) = 0 /\ Attempts \in Nat \ {0}
  BY FS_EmptySet, AccountsAssumption
<1> QED BY <1>1, <1>2 DEF Guessed

LEMMA SawNat ==
  ASSUME RefInv, NEW k
  PROVE  \A q \in Comparing(k) : q \in Handlers /\ SawBy[q] \in Nat
<1> SUFFICES ASSUME NEW q \in Comparing(k) PROVE q \in Handlers /\ SawBy[q] \in Nat
  OBVIOUS
<1>1. q \in Handlers /\ proc[q].op \in AccountOps
  BY ComparingIs, AddedOps
<1> QED BY <1>1 DEF RefInv, Refers, SawBy

LEMMA SawSame == \A q \in Handlers : proc'[q] = proc[q] => SawBy'[q] = SawBy[q]
  BY DEF SawBy

LEMMA QuietOne ==
  ASSUME RefInv, ComparingFits, NEW k \in DOMAIN codes, CodeOK(k), k \in DOMAIN codes', codes'[k] \in CodeRow,
         codes'[k].settled = codes[k].settled, codes'[k].overlaps = codes[k].overlaps, codes'[k].tries = codes[k].tries,
         codes'[k].state = "live" => codes[k].state = "live"
  PROVE  CodeOK(k)'
<1> DEFINE S == Comparing(k)
           T == Comparing(k)'
           saw == SawBy
           saw2 == SawBy'
           c == codes[k]
           d == codes'[k]
<1>1. c \in CodeRow
  BY CodeAt DEF RefInv
<1>2. IsFiniteSet(S) /\ T \subseteq S /\ \A q \in S : saw[q] \in Nat
  BY ComparingFinite, SawNat DEF ComparingFits
<1>3. \A q \in T : saw2[q] = saw[q]
  BY <1>2, SawNat, SawSame DEF ComparingFits
<1>4. Guessed(c, S, saw)
  BY DEF CodeOK
<1>5. /\ d \in CodeRow /\ d.settled = c.settled /\ d.overlaps = c.overlaps /\ d.tries = c.tries
      /\ d.state = "live" => c.state = "live"
  OBVIOUS
<1> HIDE DEF S, T, saw, saw2, c, d
<1>6. Guessed(d, T, saw2)
  BY <1>1, <1>2, <1>3, <1>4, <1>5, GuessedSame
<1> QED BY <1>6 DEF CodeOK, S, T, saw, saw2, c, d

LEMMA QuietCodes ==
  ASSUME RefInv, CodeInv, ComparingFits, CodesGrow,
         \A k \in DOMAIN codes' :
           /\ k \in DOMAIN codes /\ codes'[k].settled = codes[k].settled /\ codes'[k].overlaps = codes[k].overlaps
           /\ codes'[k].tries = codes[k].tries
           /\ codes'[k].state = "live" => codes[k].state = "live"
  PROVE  CodeInv'
<1>1. CodesOK
  BY CodeInvIs
<1>2. ASSUME NEW k \in DOMAIN codes' PROVE CodeOK(k)'
  <2>1. codes'[k] \in CodeRow
    BY SeqAt DEF CodesGrow
  <2>2. k \in DOMAIN codes /\ CodeOK(k)
    BY <1>1 DEF CodesOK
  <2>3. /\ codes'[k].settled = codes[k].settled /\ codes'[k].overlaps = codes[k].overlaps
        /\ codes'[k].tries = codes[k].tries
        /\ codes'[k].state = "live" => codes[k].state = "live"
    OBVIOUS
  <2> QED BY <2>1, <2>2, <2>3, QuietOne
<1>3. CodesOK'
  BY <1>2 DEF CodesOK
<1> QED BY <1>3, CodeInvNext

LEMMA SameCodes ==
  ASSUME RefInv, CodeInv, ComparingFits, codes' = codes
  PROVE  CodeInv'
<1>1. CodesGrow
  BY DEF CodesGrow, RefInv, RowInv
<1> QED BY <1>1, QuietCodes

LEMMA StoreCodeOK ==
  ASSUME ProcInv, RefInv, CodeInv, ComparingFits, NEW p \in Handlers, StoreCode(p)
  PROVE  CodeInv'
<1> SUFFICES ASSUME NEW n, n = Len(codes) + 1 PROVE CodeInv'
  OBVIOUS
<1> DEFINE c == Code(proc[p].who)
<1>1. codes' = Append(codes, c) /\ codes \in Seq(CodeRow)
  BY DEF StoreCode, RefInv, RowInv
<1>2. CodesGrow
  BY StoreCodeRows
<1>3. c \in CodeRow
  <2>1. Refers(p)
    BY StepWords1, AtRefers DEF StoreCode
  <2> QED BY <2>1 DEF Refers, Code, CodeRow
<1>4. DOMAIN codes' = DOMAIN codes \cup {n} /\ codes'[n] = c /\ n \notin DOMAIN codes /\ \A k \in DOMAIN codes : codes'[k] = codes[k]
  <2> HIDE DEF c
  <2> QED BY <1>1, <1>3, SeqAdd
<1>5. CodesOK
  BY CodeInvIs
<1>6. ASSUME NEW k \in DOMAIN codes PROVE CodeOK(k)'
  <2>1. codes'[k] = codes[k] /\ codes[k] \in CodeRow /\ k \in DOMAIN codes' /\ CodeOK(k)
    BY <1>4, <1>5, CodeAt DEF CodesOK, RefInv
  <2> QED BY <2>1, QuietOne
<1>7. Comparing(n)' = {}
  <2> SUFFICES ASSUME NEW q \in Comparing(n)' PROVE FALSE
    OBVIOUS
  <2>1. q \in Comparing(n)
    BY DEF ComparingFits
  <2>2. q \in Handlers /\ proc[q].op \in AccountOps /\ proc[q].id = n /\ (At(q, "count") \/ At(q, "spend"))
    BY <2>1, ComparingIs, AddedOps
  <2>3. proc[q].id \in DOMAIN codes
    BY <2>2 DEF RefInv, Refers
  <2> QED BY <1>4, <2>2, <2>3
<1>8. CodeOK(n)'
  BY <1>4, <1>7, GuessedNew DEF CodeOK
<1>9. CodesOK'
  BY <1>4, <1>6, <1>8 DEF CodesOK
<1> QED BY <1>9, CodeInvNext

(* Who has counted, or spent, compares no more.                            *)
LEMMA ComparedLeaves ==
  ASSUME ProcInv, RefInv, NEW p \in Handlers, NEW step \in {"count", "spend"}, At(p, step),
         proc' = Advance(p) \/ proc' = Ended(p) \/ proc' = Thrown(p)
  PROVE  /\ \A k : p \notin Comparing(k)'
         /\ p \in Comparing(proc[p].id) /\ proc[p].id \in DOMAIN codes
<1>1. step \in AccountSteps /\ step \in Steps
  BY HeldNamed, HeldSteps
<1>2. Follows(p, step) /\ May(proc[p].op, step) /\ Refers(p)
  BY <1>1, TurnOK, AtRefers
<1>3. ~At(p, "count")' /\ ~At(p, "spend")'
  <2>1. CASE proc'[p] = Idle
    BY <2>1, IdleNowhere
  <2>2. CASE \A s \in Steps : At(p, s)' => Then(step, s)
    <3>1. "count" \in Steps /\ "spend" \in Steps
      BY HeldNamed, HeldSteps
    <3> QED BY <2>2, <3>1, ThenNone
  <2> QED BY <1>2, <2>1, <2>2 DEF Follows
<1>4. proc[p].op = "verify"
  BY <1>2 DEF May
<1> QED BY <1>2, <1>3, <1>4, ComparingIs, ComparingIsNext DEF Refers

LEMMA SettledOne ==
  ASSUME ProcInv, RefInv, CodeInv, ComparingFits, NEW p \in Handlers, NEW k \in DOMAIN codes, p \in Comparing(k),
         p \notin Comparing(k)', CodesGrow, DOMAIN codes' = DOMAIN codes, \A j \in DOMAIN codes \ {k} : codes'[j] = codes[j],
         codes'[k].settled = codes[k].settled + 1, codes'[k].overlaps = codes[k].overlaps,
         codes'[k].state = "live" => codes[k].state = "live" /\ codes'[k].tries = proc[p].saw + 1 /\ codes'[k].tries < Attempts
  PROVE  CodeInv'
<1>1. CodesOK /\ \A j \in DOMAIN codes : codes[j] \in CodeRow /\ codes'[j] \in CodeRow
  BY CodeInvIs, CodeAt, SeqAt DEF RefInv, CodesGrow
<1>2. ASSUME NEW j \in DOMAIN codes, j # k PROVE CodeOK(j)'
  <2>1. CodeOK(j) /\ codes'[j] \in CodeRow /\ codes'[j] = codes[j] /\ j \in DOMAIN codes'
    BY <1>1, <1>2 DEF CodesOK
  <2> QED BY <2>1, QuietOne
<1>3. CodeOK(k)'
  <2> DEFINE S == Comparing(k)
             T == Comparing(k)'
             saw == SawBy
             saw2 == SawBy'
             c == codes[k]
             d == codes'[k]
  <2>1. c \in CodeRow /\ d \in CodeRow
    BY <1>1
  <2>2. IsFiniteSet(S) /\ p \in S /\ T \subseteq S \ {p} /\ \A q \in S : saw[q] \in Nat
    BY ComparingFinite, SawNat DEF ComparingFits
  <2>3. \A q \in T : saw2[q] = saw[q]
    BY <2>2, SawNat, SawSame DEF ComparingFits
  <2>4. Guessed(c, S, saw)
    BY <1>1 DEF CodesOK, CodeOK
  <2>5. /\ d.settled = c.settled + 1 /\ d.overlaps = c.overlaps
        /\ d.state = "live" => c.state = "live" /\ d.tries = saw[p] + 1 /\ d.tries < Attempts
    BY DEF SawBy
  <2> HIDE DEF S, T, saw, saw2, c, d
  <2>6. Guessed(d, T, saw2)
    BY <2>1, <2>2, <2>3, <2>4, <2>5, GuessedSettled
  <2> QED BY <2>6 DEF CodeOK, S, T, saw, saw2, c, d
<1>4. CodesOK'
  BY <1>2, <1>3 DEF CodesOK
<1> QED BY <1>4, CodeInvNext

LEMMA CountOK ==
  ASSUME ProcInv, RefInv, CodeInv, ComparingFits, NEW p \in Handlers, Count(p)
  PROVE  CodeInv'
<1> DEFINE k == proc[p].id
           tries == proc[p].saw + 1
           used == tries >= Attempts
<1>1. /\ \A j : p \notin Comparing(j)'
      /\ p \in Comparing(k) /\ k \in DOMAIN codes
  BY ComparedLeaves DEF Count
<1>2. CASE codes' = codes
  BY <1>2, SameCodes
<1>3. CASE codes' = [codes EXCEPT ![k].tries = tries, ![k].settled = @ + 1, ![k].state = IF used THEN "used" ELSE @]
  <2> DEFINE c == codes[k]
             d == [c EXCEPT !.tries = tries, !.settled = @ + 1, !.state = IF used THEN "used" ELSE @]
  <2>1. c \in CodeRow
    BY <1>1, CodeAt DEF RefInv
  <2>2. d.tries = tries /\ d.settled = c.settled + 1 /\ d.overlaps = c.overlaps /\ (d.state = "live" => c.state = "live" /\ ~used)
    <3> HIDE DEF c, tries, used
    <3> QED BY <2>1 DEF CodeRow
  <2>3. codes' = [codes EXCEPT ![k] = d]
    BY <1>3
  <2>4. d.state = "live" => d.tries < Attempts
    <3>1. tries \in Nat /\ Attempts \in Nat
      <4>1. SawBy[p] \in Nat /\ SawBy[p] = proc[p].saw
        BY <1>1, SawNat DEF SawBy
      <4> QED BY <4>1, AccountsAssumption
    <3>2. ~used => tries < Attempts
      BY <3>1
    <3> HIDE DEF d, tries, used
    <3> QED BY <2>2, <3>2
  <2>5. CodesGrow
    BY CountRows
  <2>6. d.state = "live" => d.tries = proc[p].saw + 1
    BY <2>2
  <2> HIDE DEF d
  <2>7. DOMAIN codes' = DOMAIN codes /\ codes'[k] = d /\ \A j \in DOMAIN codes \ {k} : codes'[j] = codes[j]
    BY <1>1, <2>3
  <2>8. codes'[k].settled = codes[k].settled + 1 /\ codes'[k].overlaps = codes[k].overlaps
    BY <2>2, <2>7
  <2>9. codes'[k].state = "live" => codes[k].state = "live" /\ codes'[k].tries = proc[p].saw + 1 /\ codes'[k].tries < Attempts
    BY <2>2, <2>4, <2>6, <2>7
  <2> HIDE DEF k, c, tries, used
  <2> QED BY <1>1, <2>5, <2>7, <2>8, <2>9, SettledOne
<1> QED BY <1>2, <1>3 DEF Count

LEMMA SpendOK ==
  ASSUME ProcInv, RefInv, CodeInv, ComparingFits, NEW p \in Handlers, Spend(p)
  PROVE  CodeInv'
<1> DEFINE k == proc[p].id
<1>1. /\ \A j : p \notin Comparing(j)'
      /\ p \in Comparing(k) /\ k \in DOMAIN codes
  BY ComparedLeaves DEF Spend
<1>2. CASE codes' = codes
  BY <1>2, SameCodes
<1>3. CASE codes' = [codes EXCEPT ![k].state = "used", ![k].settled = @ + 1]
  <2> DEFINE c == codes[k]
             d == [c EXCEPT !.state = "used", !.settled = @ + 1]
  <2>1. c \in CodeRow
    BY <1>1, CodeAt DEF RefInv
  <2>2. d.settled = c.settled + 1 /\ d.overlaps = c.overlaps /\ d.state # "live"
    <3> HIDE DEF c
    <3> QED BY <2>1 DEF CodeRow
  <2>3. codes' = [codes EXCEPT ![k] = d]
    BY <1>3
  <2>4. CodesGrow
    BY SpendRows
  <2> HIDE DEF d
  <2>5. DOMAIN codes' = DOMAIN codes /\ codes'[k] = d /\ \A j \in DOMAIN codes \ {k} : codes'[j] = codes[j]
    BY <1>1, <2>3
  <2>6. codes'[k].settled = codes[k].settled + 1 /\ codes'[k].overlaps = codes[k].overlaps /\ codes'[k].state # "live"
    BY <2>2, <2>5
  <2> HIDE DEF k, c
  <2> QED BY <1>1, <2>4, <2>5, <2>6, SettledOne
<1> QED BY <1>2, <1>3 DEF Spend

LEMMA SweepOK ==
  ASSUME ProcInv, RefInv, CodeInv, ComparingFits, NEW p \in Handlers, SweepCodes(p)
  PROVE  CodeInv'
<1>1. CodesGrow
  BY SweepCodesRows
<1>2. ASSUME NEW k \in DOMAIN codes'
      PROVE  /\ k \in DOMAIN codes /\ codes'[k].settled = codes[k].settled /\ codes'[k].overlaps = codes[k].overlaps
             /\ codes'[k].tries = codes[k].tries
             /\ codes'[k].state = "live" => codes[k].state = "live"
  <2>1. k \in DOMAIN codes /\ (codes'[k] = codes[k] \/ codes'[k] = [codes[k] EXCEPT !.state = "gone"])
    BY DEF SweepCodes
  <2>2. codes[k] \in CodeRow
    BY <2>1, CodeAt DEF RefInv
  <2> QED BY <2>1, <2>2 DEF CodeRow
<1> QED BY <1>1, <1>2, QuietCodes

LEMMA ExpiresOK ==
  ASSUME RefInv, CodeInv, ComparingFits, CodeExpires
  PROVE  CodeInv'
<1>1. CodesGrow
  BY CodeExpiresRows
<1>2. ASSUME NEW k \in DOMAIN codes'
      PROVE  /\ k \in DOMAIN codes /\ codes'[k].settled = codes[k].settled /\ codes'[k].overlaps = codes[k].overlaps
             /\ codes'[k].tries = codes[k].tries
             /\ codes'[k].state = "live" => codes[k].state = "live"
  <2>1. k \in DOMAIN codes /\ (codes'[k] = codes[k] \/ codes'[k] = [codes[k] EXCEPT !.late = TRUE])
    BY DEF CodeExpires
  <2>2. codes[k] \in CodeRow
    BY <2>1, CodeAt DEF RefInv
  <2> QED BY <2>1, <2>2 DEF CodeRow
<1> QED BY <1>1, <1>2, QuietCodes

LEMMA FindCodeOK ==
  ASSUME ProcInv, RefInv, CodeInv, NEW p \in Handlers, FindCode(p)
  PROVE  CodeInv'
<1> SUFFICES ASSUME NEW k, k = proc'[p].id PROVE CodeInv'
  BY Zenon
<1> DEFINE good == {j \in DOMAIN codes : codes[j].user = proc[p].who /\ codes[j].state = "live" /\ ~codes[j].late}
<1>1. At(p, "find code") /\ \A j : p \notin Comparing(j)
  <2>1. ~At(p, "count") /\ ~At(p, "spend")
    BY DEF FindCode, At
  <2> QED BY <2>1, ComparingIs, ZenonT(40) DEF FindCode
<1>2. /\ Only(p)
      /\ \/ proc'[p] = Idle /\ codes' = codes
         \/ /\ proc'[p].op = "verify" /\ k \in good /\ proc'[p].saw = codes[k].tries
            /\ (At(p, "count") \/ At(p, "spend"))'
            /\ codes' = [codes EXCEPT ![k].reads = @ + 1, ![k].overlaps = @ + Cardinality(Comparing(k) \ {p})]
  <2> HIDE DEF good
  <2> QED BY FindCodeMoves DEF good
<1>3. ASSUME NEW j, NEW q \in Comparing(j)', q # p PROVE q \in Comparing(j) /\ proc'[q] = proc[q]
  <2>1. q \in Handlers /\ proc'[q].op = "verify" /\ proc'[q].id = j /\ (At(q, "count") \/ At(q, "spend"))'
    BY ComparingIsNext
  <2>2. proc'[q] = proc[q]
    BY <1>2, <1>3, <2>1 DEF Only
  <2> QED BY <2>1, <2>2, ComparingIs DEF At
<1>4. CASE proc'[p] = Idle /\ codes' = codes
  <2>1. \A j : p \notin Comparing(j)'
    BY <1>4, IdleNowhere, ComparingIsNext
  <2>2. ComparingFits
    BY <1>3, <2>1 DEF ComparingFits
  <2> QED BY <1>4, <2>2, SameCodes
<1>5. CASE /\ proc'[p].op = "verify" /\ k \in good /\ proc'[p].saw = codes[k].tries
           /\ (At(p, "count") \/ At(p, "spend"))'
           /\ codes' = [codes EXCEPT ![k].reads = @ + 1, ![k].overlaps = @ + Cardinality(Comparing(k) \ {p})]
  <2> DEFINE S == Comparing(k)
             c == codes[k]
             a == c.reads + 1
             b == c.overlaps + Cardinality(S)
             d == [c EXCEPT !.reads = a, !.overlaps = b]
  <2>1. k \in DOMAIN codes /\ c.state = "live" /\ c \in CodeRow
    BY <1>5, CodeAt DEF RefInv
  <2>2. S \ {p} = S /\ p \notin S
    BY <1>1
  <2>3. codes' = [codes EXCEPT ![k] = d]
    BY <1>5, <2>2
  <2>4. d.settled = c.settled /\ d.tries = c.tries /\ d.overlaps = b
    <3> HIDE DEF c, a, b
    <3> QED BY <2>1 DEF CodeRow
  <2>5. CodesGrow
    BY FindCodeRows
  <2>6. \A q \in Handlers \ {p} : proc'[q] = proc[q]
    BY <1>2 DEF Only
  <2>7. Comparing(k)' = S \cup {p}
    <3>1. p \in Comparing(k)'
      BY <1>5, ComparingIsNext
    <3>2. ASSUME NEW q \in S PROVE q \in Comparing(k)'
      <4>1. q \in Handlers /\ proc'[q] = proc[q] /\ q # p
        BY <2>2, <2>6, <3>2, ComparingIs
      <4> QED BY <3>2, <4>1, ComparingIs, ComparingIsNext DEF At
    <3> QED BY <1>3, <3>1, <3>2
  <2> HIDE DEF d
  <2>8. DOMAIN codes' = DOMAIN codes /\ codes'[k] = d /\ \A j \in DOMAIN codes \ {k} : codes'[j] = codes[j]
    BY <2>1, <2>3
  <2>9. CodesOK
    BY CodeInvIs
  <2>10. CodeOK(k)'
    <3> DEFINE saw == SawBy
               saw2 == SawBy'
    <3>1. IsFiniteSet(S) /\ \A q \in S : q \in Handlers /\ saw[q] \in Nat
      BY ComparingFinite, SawNat
    <3>2. saw2[p] = c.tries
      BY <1>5 DEF SawBy
    <3>3. \A q \in S : saw2[q] = saw[q]
      BY <2>2, <2>6, <3>1, SawSame
    <3>4. Guessed(c, S, saw)
      BY <2>1, <2>9 DEF CodesOK, CodeOK
    <3>5. d \in CodeRow
      BY <2>1, <2>5, <2>8, SeqAt DEF CodesGrow
    <3>6. Guessed(d, S \cup {p}, saw2)
      <4>1. d.overlaps = c.overlaps + Cardinality(S)
        BY <2>4
      <4> HIDE DEF S, c, saw, saw2
      <4> QED BY <2>1, <2>2, <2>4, <3>1, <3>2, <3>3, <3>4, <3>5, <4>1, GuessedRead
    <3> QED BY <2>7, <2>8, <3>6 DEF CodeOK
  <2>11. ASSUME NEW j \in DOMAIN codes, j # k PROVE CodeOK(j)'
    <3>1. Comparing(j)' \subseteq Comparing(j) /\ \A q \in Comparing(j)' : proc'[q] = proc[q]
      <4>1. p \notin Comparing(j)'
        BY <2>11, ComparingIsNext
      <4> QED BY <1>3, <4>1
    <3> DEFINE T == Comparing(j)'
               R == Comparing(j)
               saw == SawBy
               saw2 == SawBy'
               e == codes[j]
    <3>2. IsFiniteSet(R) /\ T \subseteq R /\ \A q \in R : q \in Handlers /\ saw[q] \in Nat
      BY <3>1, ComparingFinite, SawNat
    <3>3. \A q \in T : saw2[q] = saw[q]
      BY <3>1, <3>2, SawSame
    <3>4. e \in CodeRow /\ codes'[j] = e
      BY <2>8, <2>11, CodeAt DEF RefInv
    <3>5. Guessed(e, R, saw)
      BY <2>9 DEF CodesOK, CodeOK
    <3> HIDE DEF T, R, saw, saw2, e
    <3>6. Guessed(e, T, saw2)
      BY <3>2, <3>3, <3>4, <3>5, GuessedSame
    <3> QED BY <3>4, <3>6 DEF CodeOK, T, R, saw, saw2, e
  <2>12. CodesOK'
    BY <2>8, <2>10, <2>11 DEF CodesOK
  <2> QED BY <2>12, CodeInvNext
<1> QED BY <1>2, <1>4, <1>5

LEMMA CalmFits == Calm => ComparingFits
  BY CalmNew, NobodyCompares, Zenon

LEMMA HeldFits ==
  ASSUME ProcInv, RefInv, NEW p \in Handlers, HeldStep(p), ~FindCode(p)
  PROVE  ComparingFits
<1>1. /\ "count" \notin {"subscribe"} /\ "spend" \notin {"subscribe"} /\ "count" \notin {"join"} /\ "spend" \notin {"join"}
      /\ "count" \notin {"sign"} /\ "spend" \notin {"sign"} /\ "count" \notin {"add"} /\ "spend" \notin {"add"}
      /\ "count" \notin {"drop"} /\ "spend" \notin {"drop"}
  OBVIOUS
<1>2. "count" \notin {"drop sub"} /\ "spend" \notin {"drop sub"} /\ "count" \notin {"drop members"} /\ "spend" \notin {"drop members"}
  BY Distinct
<1>3. CASE FindHome(p) \/ MakeOrg(p) \/ SubscribeOrg(p)
  BY <1>1, <1>3, FindHomeNew, MakeOrgNew, SubscribeNew, NobodyCompares, Zenon
<1>4. CASE Join(p) \/ CountSeats(p) \/ FindMember(p)
  BY <1>1, <1>4, JoinNew, SeatsNew, FindMemberNew, NobodyCompares, Zenon
<1>5. CASE CutOrg(p) \/ DropSub(p)
  BY <1>2, <1>5, CutNew, DropSubNew, NobodyCompares, Zenon
<1> QED BY <1>3, <1>4, <1>5 DEF HeldStep

LEMMA CodeNext ==
  ASSUME ProcInv, RefInv, menu \in Menus, CodeInv, Catalogued
  PROVE  CodeInv'
<1>1. CASE Still
  BY <1>1, CalmFits, SameCodes DEF Still, Stored
<1>2. CASE Ageing
  BY <1>2, CalmFits, ExpiresOK DEF Ageing
<1>3. CASE Steadily
  <2> PICK p \in Handlers : CodeStep(p) \/ OrgStep(p) \/ PeopleStep(p) \/ TokenStep(p)
    BY <1>3 DEF Steadily
  <2>1. ComparingFits
    BY <1>3, CalmFits DEF Steadily
  <2>2. CASE CodeStep(p)
    BY <2>1, <2>2, StoreCodeOK, CountOK, SpendOK, SweepOK DEF CodeStep
  <2>3. CASE OrgStep(p)
    BY <2>1, <2>3, OrgStepRows, SameCodes DEF RestOfOrgs
  <2>4. CASE PeopleStep(p)
    <3>1. codes' = codes
      BY <2>4, AddRows, DropRows, SetRoleRows, AdminCreateRows DEF PeopleStep
    <3> QED BY <2>1, <3>1, SameCodes
  <2>5. CASE TokenStep(p)
    <3>1. codes' = codes
      BY <2>5, SignRows, RevokeRows, ImpersonateRows DEF TokenStep, RestOfTokens
    <3> QED BY <2>1, <3>1, SameCodes
  <2> QED BY <2>2, <2>3, <2>4, <2>5
<1>4. ASSUME NEW p \in Handlers, HeldStep(p) PROVE CodeInv'
  <2>1. CASE FindCode(p)
    BY <2>1, FindCodeOK
  <2>2. CASE ~FindCode(p)
    <3>1. ComparingFits
      BY <1>4, <2>2, HeldFits
    <3>2. CASE FindHome(p) \/ Join(p) \/ CountSeats(p)
      BY <3>1, <3>2, HomeRows, JoinRows, SeatRows, SameCodes
    <3>3. CASE MakeOrg(p) \/ SubscribeOrg(p) \/ CutOrg(p) \/ DropSub(p)
      BY <3>1, <3>3, MakeOrgRows, SubscribeRows, CutRows, DropSubRows, SameCodes DEF RestOfOrgs
    <3>4. CASE FindMember(p)
      BY <3>1, <3>4, SameCodes DEF FindMember, FoundMember, accounts
    <3> QED BY <1>4, <2>2, <3>2, <3>3, <3>4 DEF HeldStep
  <2> QED BY <2>1, <2>2
<1> QED BY <1>1, <1>2, <1>3, <1>4 DEF Catalogued

LEMMA InitCode == Init => CodeInv
  BY DEF Init, AccountsInit, CodeInv

LEMMA CodeStable == Core /\ CodeInv /\ [Next]_vars => CodeInv'
<1> SUFFICES ASSUME Core, CodeInv, [Next]_vars PROVE CodeInv'
  OBVIOUS
<1>1. ProcInv /\ RefInv /\ menu \in Menus
  BY DEF Core
<1>2. Catalogued
  BY CoreNext
<1> QED BY <1>1, <1>2, CodeNext

LEMMA CodeSafe == Core /\ CodeInv => CodeGuesses
<1> SUFFICES ASSUME Core, CodeInv, NEW k \in DOMAIN codes
             PROVE  codes[k].reads <= Attempts + codes[k].overlaps + CutOff(k)
  BY DEF CodeGuesses
<1> DEFINE n == Cardinality(Comparing(k))
           c == codes[k]
<1>1. c \in CodeRow /\ n \in Nat /\ Attempts \in Nat
  BY CodeAt, ComparingFinite, AccountsAssumption DEF Core, RefInv
<1>2. c.settled + n <= Attempts + c.overlaps
  BY DEF CodeInv
<1>3. CutOff(k) = c.reads - c.settled - n
  BY DEF CutOff
<1>4. c.reads \in Nat /\ c.settled \in Nat /\ c.overlaps \in Nat
  BY <1>1 DEF CodeRow
<1> HIDE DEF n, c
<1>5. c.reads <= Attempts + c.overlaps + CutOff(k)
  BY <1>1, <1>2, <1>3, <1>4
<1> QED BY <1>5 DEF c

(* A code is compared with at most Attempts guesses, one more for every    *)
(* time two verifications of it overlapped, and one for every one cut off  *)
(* before it had counted.                                                  *)
THEOREM GuessesAreBounded == Spec => []CodeGuesses
<1>1. Init => CodeInv
  BY InitCode
<1>2. Core /\ CodeInv /\ [Next]_vars => CodeInv'
  BY CodeStable
<1>3. Core /\ CodeInv => CodeGuesses
  BY CodeSafe
<1> QED BY <1>1, <1>2, <1>3, CoreInvariant, PTL DEF Spec

-----------------------------------------------------------------------------
(* The organisations a person founds by signing in *)

LEMMA FoundersAre == \A u : FoundsFor(u) = {q \in Handlers : Joining(q) /\ proc[q].who = u}
<1> SUFFICES ASSUME NEW u PROVE FoundsFor(u) = {q \in Handlers : Joining(q) /\ proc[q].who = u}
  OBVIOUS
<1>1. \A q : Awaits(q, "join") => proc[q].todo # <<>>
  BY EmptySeq DEF Awaits
<1> QED BY <1>1 DEF FoundsFor, Busy, Joining
LEMMA FoundersNext == \A u : FoundsFor(u)' = {q \in Handlers : Joining(q)' /\ proc'[q].who = u}
<1> SUFFICES ASSUME NEW u PROVE FoundsFor(u)' = {q \in Handlers : Joining(q)' /\ proc'[q].who = u}
  OBVIOUS
<1>1. \A q : Awaits(q, "join")' => proc'[q].todo # <<>>
  BY EmptySeq DEF Awaits
<1> QED BY <1>1 DEF FoundsFor, Busy, Joining

LEMMA FoundersFinite == \A u : IsFiniteSet(FoundsFor(u)) /\ Cardinality(FoundsFor(u)) \in Nat
  BY HandlersFinite DEF FoundsFor, Busy
LEMMA FoundersFewer ==
  ASSUME JoinersKept
  PROVE  \A u : Cardinality(FoundsFor(u)') <= Cardinality(FoundsFor(u)) /\ Cardinality(FoundsFor(u)') \in Nat
<1> SUFFICES ASSUME NEW u PROVE Cardinality(FoundsFor(u)') <= Cardinality(FoundsFor(u)) /\ Cardinality(FoundsFor(u)') \in Nat
  OBVIOUS
<1>1. FoundsFor(u)' \subseteq FoundsFor(u)
  BY FoundersAre, FoundersNext DEF JoinersKept
<1> QED BY <1>1, FoundersFinite, FS_Subset, FS_CardinalityType

LEMMA MadeFinite ==
  ASSUME RowInv, NEW u
  PROVE  IsFiniteSet(MadeFor(u)) /\ Cardinality(MadeFor(u)) \in Nat
<1>1. MadeFor(u) \subseteq members /\ IsFiniteSet(members)
  BY DEF MadeFor, HomesOf, RowInv
<1> QED BY <1>1, FS_Subset, FS_CardinalityType

NoMoreMade == \A u \in Nat : Cardinality(MadeFor(u)') <= Cardinality(MadeFor(u)) /\ Cardinality(MadeFor(u)') \in Nat

LEMMA MadeFewer ==
  ASSUME RowInv, \A m \in members' : m.made => m \in members
  PROVE  NoMoreMade
<1> SUFFICES ASSUME NEW u \in Nat
             PROVE  Cardinality(MadeFor(u)') <= Cardinality(MadeFor(u)) /\ Cardinality(MadeFor(u)') \in Nat
  BY DEF NoMoreMade
<1>1. MadeFor(u)' \subseteq MadeFor(u)
  BY DEF MadeFor, HomesOf
<1> QED BY <1>1, MadeFinite, FS_Subset, FS_CardinalityType

LEMMA MadePromoted ==
  ASSUME RowInv, NEW p, RoleAsked(p) \in Roles, members' = {Promoted(p, m) : m \in members}
  PROVE  NoMoreMade
<1> SUFFICES ASSUME NEW u \in Nat
             PROVE  Cardinality(MadeFor(u)') <= Cardinality(MadeFor(u)) /\ Cardinality(MadeFor(u)') \in Nat
  BY DEF NoMoreMade
<1> DEFINE S == MadeFor(u)
           f == [m \in S |-> Promoted(p, m)]
           T == {f[m] : m \in S}
<1>1. IsFiniteSet(S) /\ Cardinality(S) \in Nat
  BY MadeFinite
<1>2. MadeFor(u)' \subseteq T
  <2> SUFFICES ASSUME NEW n \in MadeFor(u)' PROVE n \in T
    OBVIOUS
  <2>1. n \in members' /\ n.user = u /\ n.made
    BY DEF MadeFor, HomesOf
  <2>2. PICK m \in members : n = Promoted(p, m)
    BY <2>1
  <2>3. m \in S
    BY <2>1, <2>2, PromotedRow DEF MadeFor, HomesOf
  <2>4. f[m] = n
    BY <2>2, <2>3
  <2> HIDE DEF S, f
  <2> QED BY <2>3, <2>4
<1>3. f \in [S -> {f[m] : m \in S}]
  OBVIOUS
<1> HIDE DEF S, f
<1>4. IsFiniteSet(T) /\ Cardinality(T) <= Cardinality(S)
  BY <1>1, <1>3, ImageFinite
<1> HIDE DEF T
<1>5. Cardinality(MadeFor(u)') <= Cardinality(T) /\ Cardinality(MadeFor(u)') \in Nat /\ Cardinality(T) \in Nat
  BY <1>2, <1>4, FS_Subset, FS_CardinalityType
<1>6. Cardinality(MadeFor(u)') <= Cardinality(S)
  BY <1>1, <1>4, <1>5
<1> QED BY <1>5, <1>6 DEF S

LEMMA HomeQuiet ==
  ASSUME RowInv, RowInv', HomeInv, JoinersKept, NoMoreMade, slips'.home = slips.home
  PROVE  HomeInv'
<1> SUFFICES ASSUME NEW u \in Nat PROVE Cardinality(MadeFor(u)') + Cardinality(FoundsFor(u)') <= 1 + slips'.home
  BY DEF HomeInv
<1>1. Cardinality(MadeFor(u)) + Cardinality(FoundsFor(u)) <= 1 + slips.home
  BY DEF HomeInv
<1>2. Cardinality(MadeFor(u)') <= Cardinality(MadeFor(u)) /\ Cardinality(MadeFor(u)') \in Nat /\ Cardinality(MadeFor(u)) \in Nat
  BY MadeFinite DEF NoMoreMade
<1>3. /\ Cardinality(FoundsFor(u)') <= Cardinality(FoundsFor(u)) /\ Cardinality(FoundsFor(u)') \in Nat
      /\ Cardinality(FoundsFor(u)) \in Nat /\ slips.home \in Nat
  BY FoundersFewer, FoundersFinite DEF RowInv
<1> DEFINE a == Cardinality(MadeFor(u))
           b == Cardinality(FoundsFor(u))
           c == Cardinality(MadeFor(u)')
           d == Cardinality(FoundsFor(u)')
           h == slips.home
<1>4. a + b <= 1 + h /\ c <= a /\ d <= b /\ a \in Nat /\ b \in Nat /\ c \in Nat /\ d \in Nat /\ h \in Nat
  BY <1>1, <1>2, <1>3
<1> HIDE DEF a, b, c, d, h
<1>5. c + d <= 1 + h
  BY <1>4
<1> QED BY <1>5 DEF c, d, h

(* Somebody who has no membership yet.                                     *)
LEMMA FindHomeHomes ==
  ASSUME ProcInv, RefInv, RowInv', HomeInv, NEW p \in Handlers, FindHome(p)
  PROVE  HomeInv'
<1>1. /\ Only(p) /\ proc[p].who \in Nat /\ members' = members
      /\ \/ HomesOf(proc[p].who) = {} /\ proc'[p].who = proc[p].who
         \/ slips' = slips /\ ~Joining(p)'
  BY FindHomeMoves, HomeRows
<1>2. RowInv
  BY DEF RefInv
<1>3. NoMoreMade
  BY <1>1, <1>2, MadeFewer
<1>4. \A q \in Handlers \ {p} : Joining(q)' => Joining(q) /\ proc'[q].who = proc[q].who
  BY <1>1 DEF Only, Joining, Awaits
<1>5. CASE slips' = slips /\ ~Joining(p)'
  <2>1. JoinersKept
    BY <1>4, <1>5 DEF JoinersKept
  <2> QED BY <1>2, <1>3, <1>5, <2>1, HomeQuiet
<1>6. CASE HomesOf(proc[p].who) = {} /\ proc'[p].who = proc[p].who
  <2> SUFFICES ASSUME NEW u \in Nat PROVE Cardinality(MadeFor(u)') + Cardinality(FoundsFor(u)') <= 1 + slips'.home
    BY DEF HomeInv
  <2> DEFINE a == Cardinality(MadeFor(u))
             b == Cardinality(FoundsFor(u))
             w == Cardinality(FoundsFor(proc[p].who))
             c == Cardinality(MadeFor(u)')
             d == Cardinality(FoundsFor(u)')
             h == slips.home
             i == slips'.home
  <2>1. slips' = [slips EXCEPT !.home = @ + w] /\ slips \in [home : Nat, seat : Nat]
    BY <1>2, <1>6 DEF FindHome, Home, RowInv
  <2>2. a + b <= 1 + h /\ a \in Nat /\ b \in Nat /\ w \in Nat /\ h \in Nat /\ c \in Nat /\ c <= a
    BY <1>2, <1>3, MadeFinite, FoundersFinite DEF HomeInv, NoMoreMade, RowInv
  <2>3. i = h + w
    <3> HIDE DEF w
    <3> QED BY <2>1
  <2>4. CASE u = proc[p].who
    <3>1. MadeFor(u)' = {}
      BY <1>1, <1>6, <2>4 DEF MadeFor, HomesOf
    <3>2. c = 0
      BY <3>1, FS_EmptySet
    <3>3. FoundsFor(u)' \subseteq FoundsFor(u) \cup {p}
      BY <1>4, FoundersAre, FoundersNext
    <3>4. d \in Nat /\ d <= b + 1
      <4>1. IsFiniteSet(FoundsFor(u)) /\ IsFiniteSet(FoundsFor(u) \cup {p}) /\ b \in Nat
        BY FoundersFinite, FS_AddElement
      <4>2. Cardinality(FoundsFor(u) \cup {p}) \in {b, b + 1}
        BY <4>1, FS_AddElement
      <4>3. d <= Cardinality(FoundsFor(u) \cup {p}) /\ d \in Nat
        BY <3>3, <4>1, FS_Subset, FS_CardinalityType
      <4> HIDE DEF b, d
      <4> QED BY <4>1, <4>2, <4>3
    <3>5. w = b
      BY <2>4
    <3> HIDE DEF a, b, w, c, d, h, i
    <3>6. c + d <= 1 + i
      BY <2>2, <2>3, <3>2, <3>4, <3>5
    <3> QED BY <3>6 DEF c, d, i
  <2>5. CASE u # proc[p].who
    <3>1. FoundsFor(u)' \subseteq FoundsFor(u)
      BY <1>4, <1>6, <2>5, FoundersAre, FoundersNext
    <3>2. d <= b /\ d \in Nat
      BY <3>1, FoundersFinite, FS_Subset, FS_CardinalityType
    <3> HIDE DEF a, b, w, c, d, h, i
    <3>3. c + d <= 1 + i
      BY <2>2, <2>3, <3>2
    <3> QED BY <3>3 DEF c, d, i
  <2> QED BY <2>4, <2>5
<1> QED BY <1>1, <1>5, <1>6

(* After the membership a program only signs.                              *)
LEMMA NothingAfterSign ==
  ASSUME NEW op, NEW t, Program(op, t), t # <<>>, Head(t) = "sign"
  PROVE  \A i \in DOMAIN t : t[i] # "join"
<1>1. t \in Seq(Steps) /\ Len(t) \in Nat \ {0} /\ t[1] = "sign" /\ DOMAIN t = 1..Len(t)
  BY EmptySeq DEF Program
<1>2. Len(t) = 1
  <2> SUFFICES ASSUME Len(t) # 1 PROVE FALSE
    OBVIOUS
  <2>1. 1 \in 1..Len(t) - 1
    BY <1>1
  <2>2. Then(t[1], t[1 + 1])
    BY <2>1 DEF Program
  <2>3. \A x : ~Then("sign", x)
    BY DEF Then
  <2> QED BY <1>1, <2>2, <2>3
<1> QED BY <1>1, <1>2

LEMMA JoinLeaves ==
  ASSUME ProcInv, RefInv, NEW p \in Handlers, Join(p)
  PROVE  ~Joining(p)' /\ Joining(p)
<1>1. ProcInv' /\ Follows(p, "join") /\ Inside(proc[p]) /\ At(p, "join")
  BY JoinMoves DEF Join
<1>2. Joining(p)
  <2>1. proc[p].op \in {"verify", "google"}
    BY JoinRows
  <2>2. proc[p].todo \in Seq(Steps) /\ proc[p].todo # <<>> /\ Head(proc[p].todo) = "join"
    BY <1>1 DEF At, Inside, Program
  <2>3. 1 \in DOMAIN proc[p].todo /\ proc[p].todo[1] = "join"
    BY <2>2, EmptySeq
  <2> QED BY <2>1, <2>3 DEF Joining, Awaits
<1>3. CASE proc'[p] = Idle
  BY <1>2, <1>3, IdleNowhere
<1>4. CASE /\ \A f \in Fields \ {"todo"} : proc'[p][f] = proc[p][f]
           /\ proc'[p].todo = Tail(proc[p].todo) /\ \A s \in Steps : At(p, s)' => Then("join", s)
  <2> DEFINE t == proc'[p].todo
  <2>1. CASE t = <<>>
    <3>1. ~Awaits(p, "join")'
      BY <2>1, EmptySeq DEF Awaits
    <3> QED BY <1>2, <3>1 DEF Joining
  <2>2. CASE t # <<>>
    <3>1. Program(proc[p].op, Tail(proc[p].todo))
      BY <1>1, TailProgram DEF Inside, At
    <3>2. t = Tail(proc[p].todo) /\ t \in Seq(Steps)
      BY <1>4, <3>1 DEF Program
    <3>3. Head(t) \in Steps
      BY <2>2, <3>2
    <3>4. Head(t) = "sign"
      BY <1>4, <2>2, <3>3, ThenOnly DEF At
    <3>5. \A i \in DOMAIN t : t[i] # "join"
      BY <2>2, <3>1, <3>2, <3>4, NothingAfterSign
    <3>6. ~Awaits(p, "join")'
      BY <3>5 DEF Awaits
    <3> QED BY <1>2, <3>6 DEF Joining
  <2> QED BY <2>1, <2>2
<1> QED BY <1>1, <1>3, <1>4 DEF Follows

LEMMA JoinHomes ==
  ASSUME ProcInv, RefInv, RowInv', HomeInv, NEW p \in Handlers, Join(p)
  PROVE  HomeInv'
<1>1. RowInv /\ JoinersKept /\ slips' = slips /\ proc[p].who \in Nat
  BY JoinNew, JoinRows DEF RefInv
<1>2. CASE members' = members
  <2>1. NoMoreMade
    BY <1>1, <1>2, MadeFewer
  <2> QED BY <1>1, <2>1, HomeQuiet
<1>3. CASE Admits(p, "owner", TRUE)
  <2> PICK n : members' = members \cup {n} /\ n.user = proc[p].who
    BY <1>3 DEF Admits
  <2> SUFFICES ASSUME NEW u \in Nat PROVE Cardinality(MadeFor(u)') + Cardinality(FoundsFor(u)') <= 1 + slips'.home
    BY DEF HomeInv
  <2> DEFINE a == Cardinality(MadeFor(u))
             b == Cardinality(FoundsFor(u))
             c == Cardinality(MadeFor(u)')
             d == Cardinality(FoundsFor(u)')
             h == slips.home
  <2>1. a + b <= 1 + h /\ a \in Nat /\ b \in Nat /\ h \in Nat /\ slips'.home = h
    BY <1>1, MadeFinite, FoundersFinite DEF HomeInv, RowInv
  <2>2. d <= b /\ d \in Nat
    BY <1>1, FoundersFewer
  <2>3. CASE u = proc[p].who
    <3>1. MadeFor(u)' \subseteq MadeFor(u) \cup {n}
      BY DEF MadeFor, HomesOf
    <3>2. c <= a + 1 /\ c \in Nat
      <4>1. IsFiniteSet(MadeFor(u)) /\ IsFiniteSet(MadeFor(u) \cup {n}) /\ Cardinality(MadeFor(u) \cup {n}) \in {a, a + 1}
        BY <1>1, MadeFinite, FS_AddElement
      <4>2. c <= Cardinality(MadeFor(u) \cup {n}) /\ c \in Nat
        BY <3>1, <4>1, FS_Subset, FS_CardinalityType
      <4> HIDE DEF a, c
      <4> QED BY <2>1, <4>1, <4>2
    <3>3. FoundsFor(u)' \subseteq FoundsFor(u) \ {p} /\ p \in FoundsFor(u)
      BY <1>1, <2>3, JoinLeaves, FoundersAre, FoundersNext DEF JoinersKept
    <3>4. d + 1 <= b
      <4>1. IsFiniteSet(FoundsFor(u) \ {p}) /\ Cardinality(FoundsFor(u) \ {p}) = b - 1
        BY <3>3, FoundersFinite, FS_RemoveElement
      <4>2. d <= Cardinality(FoundsFor(u) \ {p})
        BY <3>3, <4>1, FS_Subset
      <4> HIDE DEF b, d
      <4> QED BY <2>1, <2>2, <4>1, <4>2
    <3> HIDE DEF a, b, c, d, h
    <3>5. c + d <= 1 + h
      BY <2>1, <2>2, <3>2, <3>4
    <3> QED BY <2>1, <3>5 DEF c, d, h
  <2>4. CASE u # proc[p].who
    <3>1. MadeFor(u)' \subseteq MadeFor(u)
      BY <2>4 DEF MadeFor, HomesOf
    <3>2. c <= a /\ c \in Nat
      BY <1>1, <3>1, MadeFinite, FS_Subset, FS_CardinalityType
    <3> HIDE DEF a, b, c, d, h
    <3>3. c + d <= 1 + h
      BY <2>1, <2>2, <3>2
    <3> QED BY <2>1, <3>3 DEF c, d, h
  <2> QED BY <2>3, <2>4
<1> QED BY <1>2, <1>3, JoinRows

(* People come, go or change without having founded anything.              *)
LEMMA PeopleMade ==
  ASSUME ProcInv, RefInv, menu \in Menus, NEW p \in Handlers, PeopleStep(p)
  PROVE  NoMoreMade /\ slips' = slips
<1>1. RowInv
  BY DEF RefInv
<1>2. CASE Add(p)
  <2>1. \A m \in members' : m.made => m \in members
    BY <1>2, AddRows DEF Admits
  <2> QED BY <1>1, <1>2, <2>1, AddRows, MadeFewer
<1>3. CASE Drop(p) \/ DropMembers(p)
  BY <1>1, <1>3, DropRows, MadeFewer
<1>4. CASE SetRole(p)
  <2>1. slips' = slips
    BY <1>4, SetRoleRows
  <2>2. members' = members \/ (RoleAsked(p) \in Roles /\ members' = {Promoted(p, m) : m \in members})
    BY <1>4, SetRoleRows
  <2> QED BY <1>1, <2>1, <2>2, MadeFewer, MadePromoted
<1>5. CASE AdminCreate(p)
  <2>1. slips' = slips /\ \A m \in members' : m.made => m \in members
    BY <1>5, AdminCreateRows
  <2> QED BY <1>1, <2>1, MadeFewer
<1> QED BY <1>2, <1>3, <1>4, <1>5 DEF PeopleStep

LEMMA HomeNext ==
  ASSUME ProcInv, RefInv, RowInv', menu \in Menus, HomeInv, Catalogued
  PROVE  HomeInv'
<1>1. RowInv
  BY DEF RefInv
<1>2. members' = members => NoMoreMade
  BY <1>1, MadeFewer
<1>3. ASSUME Calm, members' = members, slips' = slips PROVE HomeInv'
  BY <1>1, <1>2, <1>3, CalmNew, HomeQuiet
<1>4. CASE Still
  BY <1>3, <1>4 DEF Still, Stored
<1>5. CASE Ageing
  BY <1>3, <1>5, CodeExpiresRows DEF Ageing, RestOfCodes
<1>6. CASE Steadily
  <2> PICK p \in Handlers : CodeStep(p) \/ OrgStep(p) \/ PeopleStep(p) \/ TokenStep(p)
    BY <1>6 DEF Steadily
  <2>1. Calm
    BY <1>6 DEF Steadily
  <2>2. CASE CodeStep(p)
    BY <1>3, <2>1, <2>2, StoreCodeRows, CountRows, SpendRows, SweepCodesRows DEF CodeStep, RestOfCodes
  <2>3. CASE OrgStep(p)
    BY <1>3, <2>1, <2>3, OrgStepRows DEF RestOfOrgs
  <2>4. CASE PeopleStep(p)
    BY <1>1, <2>1, <2>4, PeopleMade, CalmNew, HomeQuiet
  <2>5. CASE TokenStep(p)
    BY <1>3, <2>1, <2>5, SignRows, RevokeRows, ImpersonateRows DEF TokenStep, RestOfTokens
  <2> QED BY <2>2, <2>3, <2>4, <2>5
<1>7. ASSUME NEW p \in Handlers, HeldStep(p) PROVE HomeInv'
  <2>1. CASE FindHome(p)
    BY <2>1, FindHomeHomes
  <2>2. CASE Join(p)
    BY <2>2, JoinHomes
  <2>3. ASSUME JoinersKept, members' = members, slips'.home = slips.home PROVE HomeInv'
    BY <1>1, <1>2, <2>3, HomeQuiet
  <2>4. CASE FindCode(p)
    BY <2>3, <2>4, FindCodeNew, FindCodeRows DEF RestOfCodes
  <2>5. CASE MakeOrg(p) \/ SubscribeOrg(p)
    BY <2>3, <2>5, MakeOrgNew, MakeOrgRows, SubscribeNew, SubscribeRows DEF RestOfOrgs
  <2>6. CASE CutOrg(p)
    BY <2>3, <2>6, CutNew, CutRows DEF RestOfOrgs
  <2>7. CASE DropSub(p)
    BY <2>3, <2>7, DropSubNew, DropSubRows DEF RestOfOrgs
  <2>8. CASE CountSeats(p)
    BY <2>3, <2>8, SeatsNew, SeatRows
  <2>9. CASE FindMember(p)
    BY <2>3, <2>9, FindMemberNew DEF FindMember, FoundMember, accounts
  <2> QED BY <1>7, <2>1, <2>2, <2>4, <2>5, <2>6, <2>7, <2>8, <2>9 DEF HeldStep
<1> QED BY <1>4, <1>5, <1>6, <1>7 DEF Catalogued

LEMMA InitHome == Init => HomeInv
<1> SUFFICES ASSUME Init, NEW u \in Nat PROVE Cardinality(MadeFor(u)) + Cardinality(FoundsFor(u)) <= 1 + slips.home
  BY DEF HomeInv
<1>1. slips.home = 0
  BY DEF Init, AccountsInit
<1>2. FoundsFor(u) = {}
  BY InitNowhere, FoundersAre
<1>3. MadeFor(u) \subseteq {FirstMember(u)}
  BY InitMembers DEF MadeFor, HomesOf
<1>4. Cardinality(MadeFor(u)) <= 1 /\ Cardinality(MadeFor(u)) \in Nat
  <2>1. IsFiniteSet({FirstMember(u)}) /\ Cardinality({FirstMember(u)}) = 1
    BY FS_Singleton
  <2> QED BY <1>3, <2>1, FS_Subset, FS_CardinalityType
<1>5. Cardinality(FoundsFor(u)) = 0
  BY <1>2, FS_EmptySet
<1> DEFINE a == Cardinality(MadeFor(u))
           b == Cardinality(FoundsFor(u))
<1> HIDE DEF a, b
<1>6. a + b <= 1 + 0
  BY <1>4, <1>5 DEF a, b
<1> QED BY <1>1, <1>6 DEF a, b

LEMMA HomeSafe == Core /\ HomeInv => OneHome
<1> SUFFICES ASSUME Core, HomeInv, NEW u PROVE Cardinality(MadeFor(u)) <= 1 + slips.home
  BY DEF OneHome, MadeFor
<1>1. RowInv /\ slips.home \in Nat
  BY DEF Core, RefInv, RowInv
<1>2. CASE u \in Nat
  <2> DEFINE a == Cardinality(MadeFor(u))
             b == Cardinality(FoundsFor(u))
             h == slips.home
  <2>1. a + b <= 1 + h /\ a \in Nat /\ b \in Nat /\ h \in Nat
    BY <1>1, <1>2, MadeFinite, FoundersFinite DEF HomeInv
  <2> HIDE DEF a, b, h
  <2>2. a <= 1 + h
    BY <2>1
  <2> QED BY <2>2 DEF a, h
<1>3. CASE u \notin Nat
  <2>1. MadeFor(u) = {}
    BY <1>1, <1>3, MemberAt DEF MadeFor, HomesOf
  <2> QED BY <1>1, <2>1, FS_EmptySet
<1> QED BY <1>2, <1>3

-----------------------------------------------------------------------------
(* Members, seats and owners *)

MemberInv == FreshInv /\ CompleteInv /\ SeatInv /\ UniqueInv /\ OwnerInv

NoneTo(s) == \A q \in Handlers : At(q, s)' => proc'[q] = proc[q]
FoundsKept == \A q \in Handlers : Founds(q)' => Founds(q) /\ proc'[q].org = proc[q].org
Clears(q) == At(q, "drop sub") \/ At(q, "drop members")
ClearsKept == \A q \in Handlers : Clears(q)' => proc'[q] = proc[q]

LEMMA NewNone ==
  ASSUME NEW S, NewOnly(S), NEW s \in Claims, s \notin S
  PROVE  NoneTo(s)
  BY DEF NewOnly, NoneTo

LEMMA CalmNone == Calm => \A s \in Claims : NoneTo(s)
  BY DEF Calm, NoneTo

LEMMA NoneFounds ==
  ASSUME NoneTo("subscribe"), NoneTo("join")
  PROVE  FoundsKept
  BY DEF NoneTo, FoundsKept, Founds, At

LEMMA NoneClears ==
  ASSUME NoneTo("drop sub"), NoneTo("drop members")
  PROVE  ClearsKept
  BY Zenon DEF NoneTo, ClearsKept, Clears

(* Nobody comes into an organisation nobody had come into, but for some.   *)
SettledKept(X) == \A o \in DOMAIN orgs : Settled(o)' => Settled(o) \/ o \in X

LEMMA SettledBy ==
  /\ \A m \in members : Settled(m.org)
  /\ \A s \in DOMAIN sessions : Settled(sessions[s].org)
  /\ \A q \in Handlers : At(q, "sign") => Settled(proc[q].org)
<1>1. ASSUME NEW m \in members PROVE Settled(m.org)
  <2>1. m \in MembersOf(m.org)
    BY DEF MembersOf
  <2> QED BY <2>1 DEF Settled
<1>2. ASSUME NEW s \in DOMAIN sessions PROVE Settled(sessions[s].org)
  <2>1. s \in SessionsOf(sessions[s].org)
    BY DEF SessionsOf
  <2> QED BY <2>1 DEF Settled
<1>3. \A q \in Handlers : At(q, "sign") => Settled(proc[q].org)
  BY DEF Settled
<1> QED BY <1>1, <1>2, <1>3

LEMMA SettledFrom ==
  ASSUME NEW X, \A m \in members' : m.org \in DOMAIN orgs => Settled(m.org) \/ m.org \in X,
         \A s \in DOMAIN sessions' : Settled(sessions'[s].org) \/ sessions'[s].org \in X,
         \A q \in Handlers : At(q, "sign")' => Settled(proc'[q].org) \/ proc'[q].org \in X
  PROVE  SettledKept(X)
<1> SUFFICES ASSUME NEW o \in DOMAIN orgs, Settled(o)' PROVE Settled(o) \/ o \in X
  BY DEF SettledKept
<1>1. \/ \E m \in members' : m.org = o
      \/ \E s \in DOMAIN sessions' : sessions'[s].org = o
      \/ \E q \in Handlers : At(q, "sign")' /\ proc'[q].org = o
  BY DEF Settled, MembersOf, SessionsOf
<1> QED BY <1>1

LEMMA SignsNone ==
  ASSUME NoneTo("sign")
  PROVE  \A q \in Handlers : At(q, "sign")' => Settled(proc'[q].org)
<1> SUFFICES ASSUME NEW q \in Handlers, At(q, "sign")' PROVE Settled(proc'[q].org)
  OBVIOUS
<1>1. proc'[q] = proc[q]
  BY DEF NoneTo
<1>2. At(q, "sign")
  BY <1>1 DEF At
<1> QED BY <1>1, <1>2, SettledBy

(* Nobody and nothing comes into an organisation.                          *)
LEMMA SettledSame ==
  ASSUME NoneTo("sign"), \A m \in members' : m.org \in DOMAIN orgs => Settled(m.org), sessions' = sessions
  PROVE  SettledKept({})
<1>1. \A s \in DOMAIN sessions' : Settled(sessions'[s].org)
  BY SettledBy
<1> QED BY <1>1, SignsNone, SettledFrom

(* A token is signed in one that somebody had come into.                   *)
LEMMA SettledSigned ==
  ASSUME RowInv, NoneTo("sign"), members' = members, NEW o \in DOMAIN orgs, Settled(o), SignsOne(o)
  PROVE  SettledKept({})
<1>1. DOMAIN sessions' = DOMAIN sessions \cup {Len(sessions) + 1} /\ sessions'[Len(sessions) + 1].org = o
  BY TokenNew
<1>2. \A s \in DOMAIN sessions : sessions'[s] = sessions[s]
  BY TokenNew
<1>3. \A s \in DOMAIN sessions' : Settled(sessions'[s].org)
  BY <1>1, <1>2, SettledBy
<1>4. \A m \in members' : Settled(m.org)
  BY SettledBy
<1> QED BY <1>3, <1>4, SignsNone, SettledFrom

(* What an owner asks is about an organisation somebody has come into.     *)
LEMMA OwnersSettled ==
  ASSUME ProcInv, RefInv, NEW p \in Handlers, NEW step \in {"not a member", "seats", "add", "find member", "drop", "set role"},
         At(p, step)
  PROVE  Settled(proc[p].org) /\ proc[p].org \in DOMAIN orgs
  BY OwnersOrg, SettledBy

(* Each part of the invariant, when nothing of what it is about changes.   *)
FreshAt(p, o) == Founds(p) /\ proc[p].org = o =>
  /\ ~Settled(o)
  /\ \A q \in Handlers \ {p} : Founds(q) => proc[q].org # o
AllFresh == \A p \in Handlers, o \in Nat : FreshAt(p, o)

LEMMA FoundsIn ==
  ASSUME ProcInv, RefInv, NEW p \in Handlers, Founds(p)
  PROVE  proc[p].org \in DOMAIN orgs /\ proc[p].org \in Nat /\ proc[p].op \in AccountOps
<1>1. At(p, "subscribe") \/ At(p, "join")
  BY DEF Founds
<1>2. proc[p].op \in AccountOps
  BY <1>1, HeldNamed, HeldSteps, AtRefers DEF Inside
<1>3. proc[p].org \in DOMAIN orgs /\ RowInv
  BY <1>2 DEF RefInv, Refers
<1> QED BY <1>2, <1>3, OrgNat

LEMMA FreshIs == ProcInv /\ RefInv => (FreshInv <=> AllFresh)
<1> SUFFICES ASSUME ProcInv, RefInv PROVE FreshInv <=> AllFresh
  OBVIOUS
<1>1. \A p \in Handlers : Founds(p) => proc[p].org \in Nat
  BY FoundsIn
<1> QED BY <1>1 DEF FreshInv, AllFresh, FreshAt
LEMMA FreshIsNext == (ProcInv /\ RefInv)' => (FreshInv' <=> AllFresh')
  BY FreshIs, PTL

LEMMA FreshQuiet ==
  ASSUME ProcInv, RefInv, ProcInv', RefInv', FreshInv, FoundsKept, SettledKept({})
  PROVE  FreshInv'
<1>1. ASSUME NEW p \in Handlers, NEW o \in Nat PROVE FreshAt(p, o)'
  <2> SUFFICES ASSUME Founds(p)', proc'[p].org = o
               PROVE  ~Settled(o)' /\ \A q \in Handlers \ {p} : Founds(q)' => proc'[q].org # o
    BY DEF FreshAt
  <2>1. Founds(p) /\ proc[p].org = o
    BY DEF FoundsKept
  <2>2. o \in DOMAIN orgs /\ ~Settled(o)
    BY <2>1, FoundsIn DEF FreshInv
  <2>3. ~Settled(o)'
    BY <2>2 DEF SettledKept
  <2>4. ASSUME NEW q \in Handlers \ {p}, Founds(q)' PROVE proc'[q].org # o
    <3>1. Founds(q) /\ proc'[q].org = proc[q].org
      BY <2>4 DEF FoundsKept
    <3> QED BY <2>1, <3>1 DEF FreshInv
  <2> QED BY <2>3, <2>4
<1>2. AllFresh'
  BY <1>1 DEF AllFresh
<1> QED BY <1>2, FreshIsNext

(* An organisation keeps what it had, and a new one is sound.              *)
OrgsFaithful ==
  /\ DOMAIN orgs \subseteq DOMAIN orgs'
  /\ \A o \in DOMAIN orgs : /\ orgs[o].sub \/ orgs[o].doomed => orgs'[o].sub \/ orgs'[o].doomed
                            /\ orgs[o].doomed => orgs'[o].doomed
                            /\ orgs[o].demoted => orgs'[o].demoted
Governed(o) == \E m \in Owners(o) : ~Dropping(m)
NewSound ==
  \A o \in DOMAIN orgs' \ DOMAIN orgs : /\ ~Settled(o)' \/ (orgs'[o].sub /\ Governed(o)')
                                        /\ Cardinality(MembersOf(o)') \in {0, 1}
LEMMA NoNew == DOMAIN orgs' = DOMAIN orgs => NewSound
  BY DEF NewSound

JoinsSound == \A q \in Handlers : At(q, "join") => orgs[proc[q].org].sub \/ orgs[proc[q].org].doomed
ClearsSound == \A q \in Handlers : Clears(q) => orgs[proc[q].org].doomed
SettledSound == \A o \in DOMAIN orgs : Settled(o) => orgs[o].sub \/ orgs[o].doomed

LEMMA CompleteIs == CompleteInv <=> JoinsSound /\ ClearsSound /\ SettledSound
  BY Zenon DEF CompleteInv, JoinsSound, ClearsSound, SettledSound, Clears
LEMMA CompleteIsNext == CompleteInv' <=> JoinsSound' /\ ClearsSound' /\ SettledSound'
  BY CompleteIs, PTL

LEMMA JoinsIn ==
  ASSUME ProcInv, RefInv, NEW q \in Handlers
  PROVE  /\ At(q, "join") => proc[q].org \in DOMAIN orgs
         /\ Clears(q) => proc[q].org \in DOMAIN orgs
<1>1. At(q, "join") => proc[q].org \in DOMAIN orgs
  BY FoundsIn DEF Founds
<1>2. Clears(q) => proc[q].org \in DOMAIN orgs
  BY AdminsOrg, Zenon DEF Clears
<1> QED BY <1>1, <1>2

LEMMA JoinsQuiet ==
  ASSUME ProcInv, RefInv, JoinsSound, NoneTo("join"), OrgsFaithful
  PROVE  JoinsSound'
<1> SUFFICES ASSUME NEW q \in Handlers, At(q, "join")' PROVE orgs'[proc'[q].org].sub \/ orgs'[proc'[q].org].doomed
  BY DEF JoinsSound
<1>1. proc'[q] = proc[q]
  BY DEF NoneTo
<1>2. At(q, "join") /\ proc[q].org \in DOMAIN orgs
  BY <1>1, JoinsIn DEF At
<1> QED BY <1>1, <1>2 DEF JoinsSound, OrgsFaithful

LEMMA ClearsQuiet ==
  ASSUME ProcInv, RefInv, ClearsSound, ClearsKept, OrgsFaithful
  PROVE  ClearsSound'
<1> SUFFICES ASSUME NEW q \in Handlers, Clears(q)' PROVE orgs'[proc'[q].org].doomed
  BY DEF ClearsSound
<1>1. proc'[q] = proc[q]
  BY DEF ClearsKept
<1>2. Clears(q)
  BY <1>1, Zenon DEF Clears, At
<1>3. proc[q].org \in DOMAIN orgs
  BY <1>2, JoinsIn
<1> QED BY <1>1, <1>2, <1>3 DEF ClearsSound, OrgsFaithful

LEMMA CompleteQuiet ==
  ASSUME ProcInv, RefInv, CompleteInv, NoneTo("join"), ClearsKept, OrgsFaithful, NewSound, SettledKept({})
  PROVE  CompleteInv'
<1>1. JoinsSound /\ ClearsSound /\ SettledSound
  BY CompleteIs
<1>2. SettledSound'
  BY <1>1 DEF SettledSound, SettledKept, OrgsFaithful, NewSound
<1> QED BY <1>1, <1>2, JoinsQuiet, ClearsQuiet, CompleteIsNext

LEMMA AddingFinite == \A o : IsFiniteSet(Adding(o)) /\ Cardinality(Adding(o)) \in Nat
  BY HandlersFinite DEF Adding
LEMMA AddingFewer ==
  ASSUME NoneTo("add"), NEW o
  PROVE  Adding(o)' \subseteq Adding(o)
  BY DEF NoneTo, Adding, At
LEMMA MembersFinite ==
  ASSUME RowInv, NEW o
  PROVE  IsFiniteSet(MembersOf(o)) /\ Cardinality(MembersOf(o)) \in Nat
<1>1. MembersOf(o) \subseteq members /\ IsFiniteSet(members)
  BY DEF MembersOf, RowInv
<1> QED BY <1>1, FS_Subset, FS_CardinalityType

NoMoreMembers(o) == Cardinality(MembersOf(o)') <= Cardinality(MembersOf(o)) /\ Cardinality(MembersOf(o)') \in Nat
SeatsFit(o) == Cardinality(MembersOf(o)) + Cardinality(Adding(o)) <= Seats + slips.seat

LEMMA SeatIs == SeatInv <=> \A o \in DOMAIN orgs : ~orgs[o].doomed => SeatsFit(o)
  BY DEF SeatInv, SeatsFit

LEMMA FitsQuiet ==
  ASSUME RowInv, NEW o, SeatsFit(o), NoMoreMembers(o), Adding(o)' \subseteq Adding(o), slips'.seat \in Nat, slips'.seat >= slips.seat
  PROVE  SeatsFit(o)'
<1> DEFINE a == Cardinality(MembersOf(o))
           b == Cardinality(Adding(o))
           c == Cardinality(MembersOf(o)')
           d == Cardinality(Adding(o)')
           h == slips.seat
           i == slips'.seat
<1>1. a + b <= Seats + h /\ Seats \in Nat /\ a \in Nat /\ b \in Nat /\ h \in Nat /\ c \in Nat /\ c <= a /\ i \in Nat /\ h <= i
  BY MembersFinite, AddingFinite, AccountsAssumption DEF SeatsFit, NoMoreMembers, RowInv
<1>2. d <= b /\ d \in Nat
  BY AddingFinite, FS_Subset, FS_CardinalityType
<1> HIDE DEF a, b, c, d, h, i
<1>3. c + d <= Seats + i
  BY <1>1, <1>2
<1> QED BY <1>3 DEF c, d, i, SeatsFit

LEMMA FewerMembers ==
  ASSUME RowInv, members' \subseteq members, NEW o
  PROVE  NoMoreMembers(o)
<1>1. MembersOf(o)' \subseteq MembersOf(o)
  BY DEF MembersOf
<1> QED BY <1>1, MembersFinite, FS_Subset, FS_CardinalityType DEF NoMoreMembers

(* Nobody has counted the seats of a new one.                              *)
LEMMA NewFits ==
  ASSUME ProcInv, RefInv, NoneTo("add"), NewSound, NEW o \in DOMAIN orgs', o \notin DOMAIN orgs, slips'.seat \in Nat
  PROVE  SeatsFit(o)'
<1> DEFINE a == Cardinality(MembersOf(o)')
           b == Cardinality(Adding(o)')
           h == slips'.seat
<1>1. Adding(o)' = {}
  <2> SUFFICES ASSUME NEW q \in Adding(o)' PROVE FALSE
    OBVIOUS
  <2>1. q \in Adding(o)
    BY AddingFewer
  <2>2. q \in Handlers /\ At(q, "add") /\ proc[q].org = o
    BY <2>1 DEF Adding
  <2> QED BY <2>2, OwnersOrg
<1>2. a \in {0, 1} /\ b = 0 /\ h \in Nat /\ Seats \in Nat \ {0}
  BY <1>1, FS_EmptySet, AccountsAssumption DEF NewSound
<1> HIDE DEF a, b, h
<1>3. a + b <= Seats + h
  BY <1>2
<1> QED BY <1>3 DEF a, b, h, SeatsFit

LEMMA SeatQuiet ==
  ASSUME ProcInv, RefInv, SeatInv, NoneTo("add"), OrgsFaithful, NewSound,
         slips'.seat = slips.seat, \A o \in DOMAIN orgs : NoMoreMembers(o)
  PROVE  SeatInv'
<1> SUFFICES ASSUME NEW o \in DOMAIN orgs', ~orgs'[o].doomed PROVE SeatsFit(o)'
  BY DEF SeatInv, SeatsFit
<1>1. RowInv
  BY DEF RefInv
<1>2. slips'.seat \in Nat /\ slips'.seat >= slips.seat
  BY <1>1 DEF RowInv
<1>3. CASE o \in DOMAIN orgs
  <2>1. SeatsFit(o) /\ NoMoreMembers(o)
    BY <1>3, SeatIs DEF OrgsFaithful
  <2> QED BY <1>1, <1>2, <2>1, AddingFewer, FitsQuiet
<1>4. CASE o \notin DOMAIN orgs
  BY <1>2, <1>4, NewFits
<1> QED BY <1>3, <1>4

DropsKept == \A m : Dropping(m)' => Dropping(m)
LEMMA NoneDrops ==
  ASSUME NoneTo("drop")
  PROVE  DropsKept
<1> SUFFICES ASSUME NEW m, Dropping(m)' PROVE Dropping(m)
  BY DEF DropsKept
<1>1. PICK q \in Handlers : At(q, "drop")' /\ proc'[q].org = m.org /\ proc'[q].who = m.user /\ proc'[q].id = m.id
  BY DEF Dropping
<1>2. proc'[q] = proc[q]
  BY <1>1 DEF NoneTo
<1> QED BY <1>1, <1>2 DEF Dropping, At

LEMMA OwnerIs == OwnerInv <=> \A o \in DOMAIN orgs : Settled(o) /\ ~orgs[o].demoted /\ ~orgs[o].doomed => Governed(o)
  BY DEF OwnerInv, Governed

LEMMA GovernedQuiet ==
  ASSUME NEW o, Governed(o), DropsKept, \A m \in Owners(o) : ~Dropping(m) => m \in members'
  PROVE  Governed(o)'
<1> PICK m \in Owners(o) : ~Dropping(m)
  BY DEF Governed
<1>1. m \in members' /\ m.org = o /\ m.role = "owner"
  BY DEF Owners, MembersOf
<1>2. m \in Owners(o)'
  BY <1>1 DEF Owners, MembersOf
<1>3. ~Dropping(m)'
  BY DEF DropsKept
<1> QED BY <1>2, <1>3 DEF Governed

LEMMA OwnerQuiet ==
  ASSUME ProcInv, RefInv, OwnerInv, SettledKept({}), DropsKept, OrgsFaithful, NewSound,
         \A o \in DOMAIN orgs : \A m \in Owners(o) : ~Dropping(m) /\ ~orgs[o].doomed => m \in members'
  PROVE  OwnerInv'
<1> SUFFICES ASSUME NEW o \in DOMAIN orgs', Settled(o)', ~orgs'[o].demoted, ~orgs'[o].doomed PROVE Governed(o)'
  BY DEF OwnerInv, Governed
<1>1. CASE o \in DOMAIN orgs
  <2>1. Settled(o) /\ ~orgs[o].demoted /\ ~orgs[o].doomed
    BY <1>1 DEF SettledKept, OrgsFaithful
  <2>2. Governed(o)
    BY <1>1, <2>1, OwnerIs
  <2> QED BY <1>1, <2>1, <2>2, GovernedQuiet
<1>2. CASE o \notin DOMAIN orgs
  BY <1>2 DEF NewSound
<1> QED BY <1>1, <1>2

LEMMA UniqueQuiet ==
  ASSUME UniqueInv, members' \subseteq members
  PROVE  UniqueInv'
  BY DEF UniqueInv

LEMMA OrgsAsTheyWere == orgs' = orgs => OrgsFaithful /\ NewSound
  BY NoNew DEF OrgsFaithful

(* Steps that bring nobody to one of the steps that count here, and leave  *)
(* the members alone.                                                      *)
LEMMA Apart ==
  /\ \A s \in {"subscribe", "join", "add", "drop"} : s \in Claims /\ s \notin {"count", "spend", "sign"}
  /\ "drop sub" \in Claims /\ "drop sub" \notin {"count", "spend", "sign"}
  /\ "drop members" \in Claims /\ "drop members" \notin {"count", "spend", "sign"}
  BY DEF Claims

LEMMA ApartNone ==
  ASSUME NEW S, NewOnly(S), S \subseteq {"count", "spend", "sign"}
  PROVE  /\ NoneTo("subscribe") /\ NoneTo("join") /\ NoneTo("add") /\ NoneTo("drop")
         /\ FoundsKept /\ ClearsKept /\ DropsKept
<1>1. NoneTo("subscribe") /\ NoneTo("join") /\ NoneTo("add") /\ NoneTo("drop")
  BY Apart, NewNone
<1>2. NoneTo("drop sub") /\ NoneTo("drop members")
  BY Apart, NewNone
<1> QED BY <1>1, <1>2, NoneFounds, NoneClears, NoneDrops

LEMMA MemberPlain ==
  ASSUME ProcInv, RefInv, ProcInv', RefInv', MemberInv, NEW S, NewOnly(S), S \subseteq {"count", "spend", "sign"},
         SettledKept({}), OrgsFaithful, NewSound, members' = members, slips'.seat = slips.seat
  PROVE  MemberInv'
<1>1. FreshInv /\ CompleteInv /\ SeatInv /\ UniqueInv /\ OwnerInv
  BY DEF MemberInv
<1>2. RowInv
  BY DEF RefInv
<1>3. /\ NoneTo("subscribe") /\ NoneTo("join") /\ NoneTo("add") /\ NoneTo("drop")
      /\ FoundsKept /\ ClearsKept /\ DropsKept
  BY ApartNone
<1>4. FreshInv'
  BY <1>1, <1>3, FreshQuiet
<1>5. CompleteInv'
  BY <1>1, <1>3, CompleteQuiet
<1>6. SeatInv'
  BY <1>1, <1>2, <1>3, FewerMembers, SeatQuiet
<1>7. UniqueInv'
  BY <1>1, UniqueQuiet
<1>8. OwnerInv'
  BY <1>1, <1>3, OwnerQuiet DEF Owners, MembersOf
<1> QED BY <1>4, <1>5, <1>6, <1>7, <1>8 DEF MemberInv

LEMMA CalmSettled ==
  ASSUME Calm, members' = members, sessions' = sessions
  PROVE  SettledKept({})
<1>1. NoneTo("sign")
  BY CalmNone, HeldNamed
<1> QED BY <1>1, SettledBy, SettledSame

LEMMA MemberCalm ==
  ASSUME ProcInv, RefInv, ProcInv', RefInv', MemberInv, Calm, SettledKept({}), OrgsFaithful, NewSound,
         members' = members, slips'.seat = slips.seat
  PROVE  MemberInv'
<1>1. NewOnly({})
  BY CalmNew
<1> QED BY <1>1, MemberPlain

LEMMA MemberOrgs ==
  ASSUME ProcInv, RefInv, ProcInv', RefInv', MemberInv, Calm, NEW p \in Handlers, OrgStep(p)
  PROVE  MemberInv'
<1>1. DOMAIN orgs' = DOMAIN orgs /\ (\A i \in DOMAIN orgs : Alike(i)) /\ members' = members /\ sessions' = sessions /\ slips' = slips
  BY OrgStepRows DEF RestOfOrgs
<1>2. OrgsFaithful /\ NewSound
  BY <1>1, NoNew DEF OrgsFaithful, Alike
<1> QED BY <1>1, <1>2, CalmSettled, MemberCalm

LEMMA MemberTokens ==
  ASSUME ProcInv, RefInv, ProcInv', RefInv', MemberInv, Calm, NEW p \in Handlers, TokenStep(p)
  PROVE  MemberInv'
<1>1. RowInv /\ NoneTo("sign")
  BY CalmNone, HeldNamed DEF RefInv
<1>2. orgs' = orgs /\ members' = members /\ slips' = slips
  BY SignRows, RevokeRows, ImpersonateRows DEF TokenStep, RestOfTokens
<1>3. SettledKept({})
  <2>1. CASE Sign(p)
    <3>1. proc[p].org \in DOMAIN orgs /\ Settled(proc[p].org) /\ SignsOne(proc[p].org)
      BY <2>1, SignRows, SettledBy
    <3> QED BY <1>1, <1>2, <3>1, SettledSigned
  <2>2. CASE ImpersonateMember(p)
    <3>1. CASE sessions' = sessions
      BY <1>2, <3>1, CalmSettled
    <3>2. CASE proc[p].org \in DOMAIN orgs /\ MembersOf(proc[p].org) # {} /\ SignsOne(proc[p].org)
      <4>1. Settled(proc[p].org)
        BY <3>2 DEF Settled
      <4> QED BY <1>1, <1>2, <3>2, <4>1, SettledSigned
    <3> QED BY <2>2, <3>1, <3>2, ImpersonateRows
  <2>3. CASE RevokeToken(p)
    <3>1. DOMAIN sessions' = DOMAIN sessions /\ \A s \in DOMAIN sessions : sessions'[s].org = sessions[s].org
      BY <2>3, RevokeRows DEF TokensGrow
    <3>2. \A s \in DOMAIN sessions' : Settled(sessions'[s].org)
      BY <3>1, SettledBy
    <3> QED BY <1>1, <1>2, <3>2, SettledBy, SignsNone, SettledFrom
  <2> QED BY <2>1, <2>2, <2>3 DEF TokenStep
<1> QED BY <1>2, <1>3, OrgsAsTheyWere, MemberCalm

LEMMA MemberFindHome ==
  ASSUME ProcInv, RefInv, ProcInv', RefInv', MemberInv, NEW p \in Handlers, FindHome(p)
  PROVE  MemberInv'
<1>1. NewOnly({"sign"}) /\ orgs' = orgs /\ members' = members /\ slips'.seat = slips.seat /\ RowInv
  BY FindHomeNew, HomeRows DEF RefInv
<1>2. \A s \in DOMAIN sessions' : Settled(sessions'[s].org)
  <2>1. CASE sessions' = sessions
    BY <2>1, SettledBy
  <2>2. ASSUME NEW m \in members, m.org \in DOMAIN orgs, SignsOne(m.org) PROVE \A s \in DOMAIN sessions' : Settled(sessions'[s].org)
    <3>1. /\ DOMAIN sessions' = DOMAIN sessions \cup {Len(sessions) + 1} /\ sessions'[Len(sessions) + 1].org = m.org
          /\ \A s \in DOMAIN sessions : sessions'[s] = sessions[s]
      BY <1>1, <2>2, TokenNew
    <3> QED BY <3>1, SettledBy
  <2> QED BY <2>1, <2>2, HomeRows
<1>3. \A q \in Handlers : At(q, "sign")' => Settled(proc'[q].org)
  <2> SUFFICES ASSUME NEW q \in Handlers, At(q, "sign")' PROVE Settled(proc'[q].org)
    OBVIOUS
  <2>1. CASE q # p
    <3>1. proc'[q] = proc[q]
      BY <2>1, FindHomeMoves DEF Only
    <3>2. At(q, "sign")
      BY <3>1 DEF At
    <3> QED BY <3>1, <3>2, SettledBy
  <2>2. CASE q = p
    <3>1. \E m \in HomesOf(proc[p].who) : proc'[p] = Idle \/ proc'[p].org = m.org
      BY <2>2, FindHomeMoves, HeldNamed
    <3>2. proc'[p] # Idle
      BY <2>2, IdleNowhere
    <3> QED BY <2>2, <3>1, <3>2, SettledBy DEF HomesOf
  <2> QED BY <2>1, <2>2
<1>4. SettledKept({})
  BY <1>1, <1>2, <1>3, SettledBy, SettledFrom
<1> QED BY <1>1, <1>4, OrgsAsTheyWere, MemberPlain

(* Members come, go and change.                                            *)
LEMMA CalmAll ==
  ASSUME Calm
  PROVE  /\ NoneTo("join") /\ NoneTo("add") /\ NoneTo("sign") /\ FoundsKept /\ ClearsKept /\ DropsKept
<1>1. NewOnly({}) /\ {} \subseteq {"count", "spend", "sign"}
  BY CalmNew
<1>2. NoneTo("sign")
  BY CalmNone, HeldNamed
<1> QED BY <1>1, <1>2, ApartNone

LEMMA StepLeaves ==
  ASSUME NEW p \in Handlers, NEW step, Follows(p, step), NEW s \in Steps, ~Then(step, s)
  PROVE  ~At(p, s)'
  BY IdleNowhere DEF Follows

LEMMA ThenNotAgain == ~Then("add", "add") /\ ~Then("join", "join") /\ ~Then("join", "subscribe") /\ ~Then("subscribe", "subscribe")
  BY DEF Then

LEMMA AddLeaves ==
  ASSUME ProcInv, RefInv, NEW p \in Handlers, Add(p)
  PROVE  ~At(p, "add")' /\ At(p, "add")
<1>1. At(p, "add") /\ "add" \in AccountSteps /\ "add" \in Steps /\ (proc' = Advance(p) \/ proc' = Thrown(p))
  BY HeldNamed, HeldSteps DEF Add
<1>2. Follows(p, "add")
  BY <1>1, TurnOK
<1> QED BY <1>1, <1>2, StepLeaves, ThenNotAgain

LEMMA MoreFit ==
  ASSUME RowInv, NEW o, SeatsFit(o), NEW n, MembersOf(o)' \subseteq MembersOf(o) \cup {n}, NEW p \in Adding(o),
         Adding(o)' \subseteq Adding(o) \ {p}, slips'.seat = slips.seat
  PROVE  SeatsFit(o)'
<1> DEFINE a == Cardinality(MembersOf(o))
           b == Cardinality(Adding(o))
           c == Cardinality(MembersOf(o)')
           d == Cardinality(Adding(o)')
           h == slips.seat
<1>1. a + b <= Seats + h /\ Seats \in Nat /\ a \in Nat /\ b \in Nat /\ h \in Nat
  BY MembersFinite, AddingFinite, AccountsAssumption DEF SeatsFit, RowInv
<1>2. c <= a + 1 /\ c \in Nat
  <2>1. IsFiniteSet(MembersOf(o)) /\ IsFiniteSet(MembersOf(o) \cup {n}) /\ Cardinality(MembersOf(o) \cup {n}) \in {a, a + 1}
    BY MembersFinite, FS_AddElement
  <2>2. c <= Cardinality(MembersOf(o) \cup {n}) /\ c \in Nat
    BY <2>1, FS_Subset, FS_CardinalityType
  <2> HIDE DEF a, c
  <2> QED BY <1>1, <2>1, <2>2
<1>3. d + 1 <= b /\ d \in Nat
  <2>1. IsFiniteSet(Adding(o) \ {p}) /\ Cardinality(Adding(o) \ {p}) = b - 1
    BY AddingFinite, FS_RemoveElement
  <2>2. d <= Cardinality(Adding(o) \ {p}) /\ d \in Nat
    BY <2>1, FS_Subset, FS_CardinalityType
  <2> HIDE DEF b, d
  <2> QED BY <1>1, <2>1, <2>2
<1> HIDE DEF a, b, c, d, h
<1>4. c + d <= Seats + h
  BY <1>1, <1>2, <1>3
<1> QED BY <1>4 DEF c, d, h, SeatsFit

LEMMA MemberAdd ==
  ASSUME ProcInv, RefInv, ProcInv', RefInv', MemberInv, Calm, NEW p \in Handlers, Add(p)
  PROVE  MemberInv'
<1>1. orgs' = orgs /\ sessions' = sessions /\ slips' = slips /\ At(p, "add")
  BY AddRows, AddLeaves
<1>2. CASE members' = members
  BY <1>1, <1>2, CalmSettled, OrgsAsTheyWere, MemberCalm
<1>3. CASE RowOf(proc[p].org, proc[p].who) = {} /\ Admits(p, "admin", FALSE)
  <2> PICK n : members' = members \cup {n} /\ n.org = proc[p].org /\ n.user = proc[p].who
    BY <1>3 DEF Admits
  <2>1. FreshInv /\ CompleteInv /\ SeatInv /\ UniqueInv /\ OwnerInv /\ RowInv
    BY DEF MemberInv, RefInv
  <2>2. /\ NoneTo("join") /\ NoneTo("add") /\ NoneTo("sign") /\ FoundsKept /\ ClearsKept /\ DropsKept
        /\ OrgsFaithful /\ NewSound
    BY <1>1, CalmAll, OrgsAsTheyWere
  <2>3. SettledKept({})
    <3>1. Settled(proc[p].org)
      BY <1>1, OwnersSettled
    <3>2. \A m \in members' : Settled(m.org)
      BY <3>1, SettledBy
    <3> QED BY <1>1, <2>2, <3>2, SettledSame
  <2>4. FreshInv' /\ CompleteInv'
    BY <2>1, <2>2, <2>3, FreshQuiet, CompleteQuiet
  <2>5. SeatInv'
    <3> SUFFICES ASSUME NEW o \in DOMAIN orgs', ~orgs'[o].doomed PROVE SeatsFit(o)'
      BY DEF SeatInv, SeatsFit
    <3>1. SeatsFit(o)
      BY <1>1, <2>1, SeatIs
    <3>2. Adding(o)' \subseteq Adding(o)
      BY <2>2, AddingFewer
    <3>3. CASE o = proc[p].org
      <4>1. MembersOf(o)' \subseteq MembersOf(o) \cup {n}
        BY DEF MembersOf
      <4>2. p \in Adding(o) /\ p \notin Adding(o)'
        BY <1>1, <3>3, AddLeaves DEF Adding
      <4> QED BY <1>1, <2>1, <3>1, <3>2, <4>1, <4>2, MoreFit
    <3>4. CASE o # proc[p].org
      <4>1. MembersOf(o)' = MembersOf(o)
        BY <3>4 DEF MembersOf
      <4>2. NoMoreMembers(o) /\ slips'.seat \in Nat /\ slips'.seat >= slips.seat
        BY <1>1, <2>1, <4>1, MembersFinite DEF NoMoreMembers, RowInv
      <4> QED BY <2>1, <3>1, <3>2, <4>2, FitsQuiet
    <3> QED BY <3>3, <3>4
  <2>6. UniqueInv'
    <3>1. \A m \in members : ~(m.org = n.org /\ m.user = n.user)
      BY <1>3 DEF RowOf, MembersOf
    <3> QED BY <2>1, <3>1 DEF UniqueInv
  <2>7. OwnerInv'
    <3>1. \A o \in DOMAIN orgs : \A m \in Owners(o) : m \in members'
      BY DEF Owners, MembersOf
    <3> QED BY <2>1, <2>2, <2>3, <3>1, OwnerQuiet
  <2> QED BY <2>4, <2>5, <2>6, <2>7 DEF MemberInv
<1> QED BY <1>2, <1>3, AddRows

(* Who is removed was not an owner, or goes with the organisation.         *)
LEMMA MemberFewer ==
  ASSUME ProcInv, RefInv, ProcInv', RefInv', MemberInv, Calm, members' \subseteq members,
         orgs' = orgs, sessions' = sessions, slips' = slips,
         \A o \in DOMAIN orgs : \A m \in Owners(o) : ~Dropping(m) /\ ~orgs[o].doomed => m \in members'
  PROVE  MemberInv'
<1>1. FreshInv /\ CompleteInv /\ SeatInv /\ UniqueInv /\ OwnerInv /\ RowInv
  BY DEF MemberInv, RefInv
<1>2. /\ NoneTo("join") /\ NoneTo("add") /\ NoneTo("sign") /\ FoundsKept /\ ClearsKept /\ DropsKept
      /\ OrgsFaithful /\ NewSound
  BY CalmAll, OrgsAsTheyWere
<1>3. SettledKept({})
  <2>1. \A m \in members' : Settled(m.org)
    BY SettledBy
  <2> QED BY <1>2, <2>1, SettledSame
<1>4. FreshInv' /\ CompleteInv'
  BY <1>1, <1>2, <1>3, FreshQuiet, CompleteQuiet
<1>5. SeatInv'
  BY <1>1, <1>2, FewerMembers, SeatQuiet
<1>6. UniqueInv' /\ OwnerInv'
  BY <1>1, <1>2, <1>3, UniqueQuiet, OwnerQuiet
<1> QED BY <1>4, <1>5, <1>6 DEF MemberInv

LEMMA MemberDrop ==
  ASSUME ProcInv, RefInv, ProcInv', RefInv', MemberInv, Calm, NEW p \in Handlers, Drop(p)
  PROVE  MemberInv'
<1>1. orgs' = orgs /\ sessions' = sessions /\ slips' = slips /\ members' \subseteq members
  BY DropRows
<1>2. ASSUME NEW o \in DOMAIN orgs, NEW m \in Owners(o), ~Dropping(m) PROVE m \in members'
  <2>1. m \in members
    BY DEF Owners, MembersOf
  <2>2. At(p, "drop") /\ ~(m.id = proc[p].id /\ m.org = proc[p].org /\ m.user = proc[p].who)
    BY <1>2 DEF Drop, Dropping
  <2>3. \/ members' = members
        \/ members' = members \ {i \in members : i.id = proc[p].id /\ i.org = proc[p].org /\ i.user = proc[p].who}
    BY DEF Drop
  <2> QED BY <2>1, <2>2, <2>3
<1> QED BY <1>1, <1>2, MemberFewer

LEMMA DropMembersAt == \A p : DropMembers(p) => Clears(p) /\ members' = members \ MembersOf(proc[p].org)
  BY Zenon DEF DropMembers, Clears

LEMMA MemberDropMembers ==
  ASSUME ProcInv, RefInv, ProcInv', RefInv', MemberInv, Calm, NEW p \in Handlers, DropMembers(p)
  PROVE  MemberInv'
<1>1. orgs' = orgs /\ sessions' = sessions /\ slips' = slips /\ members' \subseteq members
  BY DropRows
<1>2. Clears(p) /\ members' = members \ MembersOf(proc[p].org)
  BY DropMembersAt
<1>3. orgs[proc[p].org].doomed
  BY <1>2, CompleteIs DEF MemberInv, ClearsSound
<1>4. ASSUME NEW o \in DOMAIN orgs, NEW m \in Owners(o), ~orgs[o].doomed PROVE m \in members'
  BY <1>2, <1>3, <1>4 DEF Owners, MembersOf
<1> QED BY <1>1, <1>4, MemberFewer

LEMMA PromotedFewer ==
  ASSUME RowInv, NEW p, RoleAsked(p) \in Roles, members' = {Promoted(p, m) : m \in members}, NEW o
  PROVE  NoMoreMembers(o)
<1> DEFINE S == MembersOf(o)
           f == [m \in S |-> Promoted(p, m)]
           T == {f[m] : m \in S}
<1>1. IsFiniteSet(S) /\ Cardinality(S) \in Nat
  BY MembersFinite
<1>2. MembersOf(o)' \subseteq T
  <2> SUFFICES ASSUME NEW n \in MembersOf(o)' PROVE n \in T
    OBVIOUS
  <2>1. n \in members' /\ n.org = o
    BY DEF MembersOf
  <2>2. PICK m \in members : n = Promoted(p, m)
    BY <2>1
  <2>3. m \in S
    BY <2>1, <2>2, PromotedRow DEF MembersOf
  <2>4. f[m] = n
    BY <2>2, <2>3
  <2> HIDE DEF S, f
  <2> QED BY <2>3, <2>4
<1>3. f \in [S -> {f[m] : m \in S}]
  OBVIOUS
<1> HIDE DEF S, f
<1>4. IsFiniteSet(T) /\ Cardinality(T) <= Cardinality(S)
  BY <1>1, <1>3, ImageFinite
<1> HIDE DEF T
<1>5. Cardinality(MembersOf(o)') <= Cardinality(T) /\ Cardinality(MembersOf(o)') \in Nat /\ Cardinality(T) \in Nat
  BY <1>2, <1>4, FS_Subset, FS_CardinalityType
<1>6. Cardinality(MembersOf(o)') <= Cardinality(S)
  BY <1>1, <1>4, <1>5
<1> QED BY <1>5, <1>6 DEF S, NoMoreMembers

(* An owner who stays one, unless the change of role is marked.            *)
LEMMA OwnerPromoted ==
  ASSUME RowInv, NEW p, RoleAsked(p) \in Roles, members' = {Promoted(p, m) : m \in members}, DropsKept,
         NEW o \in DOMAIN orgs, Governed(o),
         o = proc[p].org => RoleAsked(p) = "owner" \/ RowOf(o, proc[p].who) \cap Owners(o) = {}
  PROVE  Governed(o)'
<1> PICK m \in Owners(o) : ~Dropping(m)
  BY DEF Governed
<1>1. m \in members /\ m.org = o /\ m.role = "owner"
  BY DEF Owners, MembersOf
<1> DEFINE n == Promoted(p, m)
<1>2. n.org = m.org /\ n.user = m.user /\ n.id = m.id /\ n \in members'
  BY <1>1, PromotedRow
<1>3. n.role = "owner"
  <2>1. CASE m \in RowOf(proc[p].org, proc[p].who)
    <3>1. o = proc[p].org
      BY <1>1, <2>1 DEF RowOf, MembersOf
    <3>2. RoleAsked(p) = "owner"
      BY <2>1, <3>1
    <3> QED BY <1>1, <2>1, <3>2, PromotedRow
  <2>2. CASE m \notin RowOf(proc[p].org, proc[p].who)
    BY <1>1, <2>2, PromotedRow
  <2> QED BY <2>1, <2>2
<1> SUFFICES ASSUME NEW k, k = n PROVE Governed(o)'
  OBVIOUS
<1>4. k \in Owners(o)'
  BY <1>1, <1>2, <1>3 DEF Owners, MembersOf
<1>5. ~Dropping(k)'
  <2>1. ~Dropping(k)
    BY <1>2 DEF Dropping
  <2> QED BY <2>1 DEF DropsKept
<1> QED BY <1>4, <1>5 DEF Governed

LEMMA MemberSetRole ==
  ASSUME ProcInv, RefInv, ProcInv', RefInv', MemberInv, Calm, NEW p \in Handlers, SetRole(p)
  PROVE  MemberInv'
<1> DEFINE x == proc[p].org
           row == RowOf(x, proc[p].who)
<1>1. /\ sessions' = sessions /\ slips' = slips /\ DOMAIN orgs' = DOMAIN orgs
      /\ \A i \in DOMAIN orgs : orgs'[i].sub = orgs[i].sub /\ orgs'[i].doomed = orgs[i].doomed
      /\ \A i \in DOMAIN orgs \ {x} : orgs'[i].demoted = orgs[i].demoted
  BY SetRoleRows
<1>2. CASE members' = members /\ orgs' = orgs
  BY <1>1, <1>2, CalmSettled, OrgsAsTheyWere, MemberCalm
<1>3. CASE /\ RoleAsked(p) \in Roles /\ members' = {Promoted(p, m) : m \in members}
           /\ orgs'[x].demoted = (orgs[x].demoted \/ (RoleAsked(p) # "owner" /\ row \cap Owners(x) # {}))
  <2>1. FreshInv /\ CompleteInv /\ SeatInv /\ UniqueInv /\ OwnerInv /\ RowInv
    BY DEF MemberInv, RefInv
  <2>2. /\ NoneTo("join") /\ NoneTo("add") /\ NoneTo("sign") /\ FoundsKept /\ ClearsKept /\ DropsKept
    BY CalmAll
  <2>3. OrgsFaithful /\ NewSound
    <3>1. \A i \in DOMAIN orgs : orgs[i].demoted => orgs'[i].demoted
      BY <1>1, <1>3
    <3> QED BY <1>1, <3>1, NoNew DEF OrgsFaithful
  <2>4. SettledKept({})
    <3>1. \A m \in members' : Settled(m.org)
      <4> SUFFICES ASSUME NEW n \in members' PROVE Settled(n.org)
        OBVIOUS
      <4>1. PICK m \in members : n = Promoted(p, m)
        BY <1>3
      <4>2. n.org = m.org
        BY <1>3, <2>1, <4>1, PromotedRow
      <4> QED BY <4>2, SettledBy
    <3> QED BY <1>1, <2>2, <3>1, SettledSame
  <2>5. FreshInv' /\ CompleteInv'
    BY <2>1, <2>2, <2>3, <2>4, FreshQuiet, CompleteQuiet
  <2>6. SeatInv'
    <3>1. \A o \in DOMAIN orgs : NoMoreMembers(o)
      BY <1>3, <2>1, PromotedFewer
    <3> QED BY <1>1, <2>1, <2>2, <2>3, <3>1, SeatQuiet
  <2>7. UniqueInv'
    <3> SUFFICES ASSUME NEW a \in members', NEW b \in members', a.org = b.org, a.user = b.user PROVE a = b
      BY DEF UniqueInv
    <3>1. PICK m \in members : a = Promoted(p, m)
      BY <1>3
    <3>2. PICK n \in members : b = Promoted(p, n)
      BY <1>3
    <3>3. a.org = m.org /\ a.user = m.user /\ b.org = n.org /\ b.user = n.user
      BY <1>3, <2>1, <3>1, <3>2, PromotedRow
    <3>4. m = n
      BY <2>1, <3>3 DEF UniqueInv
    <3> QED BY <3>1, <3>2, <3>4
  <2>8. OwnerInv'
    <3> SUFFICES ASSUME NEW o \in DOMAIN orgs', Settled(o)', ~orgs'[o].demoted, ~orgs'[o].doomed PROVE Governed(o)'
      BY DEF OwnerInv, Governed
    <3>1. o \in DOMAIN orgs /\ Settled(o) /\ ~orgs[o].demoted /\ ~orgs[o].doomed
      BY <1>1, <2>3, <2>4 DEF SettledKept, OrgsFaithful
    <3>2. Governed(o)
      BY <2>1, <3>1, OwnerIs
    <3>3. o = proc[p].org => RoleAsked(p) = "owner" \/ RowOf(o, proc[p].who) \cap Owners(o) = {}
      BY <1>3
    <3> QED BY <1>3, <2>1, <2>2, <3>1, <3>2, <3>3, OwnerPromoted
  <2> QED BY <2>5, <2>6, <2>7, <2>8 DEF MemberInv
<1> QED BY <1>2, <1>3, SetRoleRows

(* Nobody is about to remove a member of an organisation that is not there. *)
LEMMA NotDropping ==
  ASSUME ProcInv, RefInv, NEW m, m.org \notin DOMAIN orgs
  PROVE  ~Dropping(m)
<1> SUFFICES ASSUME NEW q \in Handlers, At(q, "drop"), proc[q].org = m.org PROVE FALSE
  BY DEF Dropping
<1>1. proc[q].org \in DOMAIN orgs
  BY OwnersOrg
<1> QED BY <1>1

LEMMA MemberAdminCreate ==
  ASSUME ProcInv, RefInv, ProcInv', RefInv', MemberInv, menu \in Menus, Calm, NEW p \in Handlers, AdminCreate(p)
  PROVE  MemberInv'
<1> SUFFICES ASSUME NEW x, x = Len(orgs) + 1 PROVE MemberInv'
  OBVIOUS
<1>1. /\ sessions' = sessions /\ slips' = slips /\ x \notin DOMAIN orgs /\ DOMAIN orgs' = DOMAIN orgs \cup {x}
      /\ orgs'[x] = NewOrg(TRUE) /\ \A i \in DOMAIN orgs : orgs'[i] = orgs[i]
  BY AdminCreateRows
<1>2. PICK n : members' = members \cup {n} /\ n.org = x /\ n.role = "owner"
  BY AdminCreateRows
<1>3. FreshInv /\ CompleteInv /\ SeatInv /\ UniqueInv /\ OwnerInv /\ RowInv
  BY DEF MemberInv, RefInv
<1>4. /\ NoneTo("join") /\ NoneTo("add") /\ NoneTo("sign") /\ FoundsKept /\ ClearsKept /\ DropsKept
  BY CalmAll
<1>5. \A m \in members : m.org \in DOMAIN orgs
  BY <1>3 DEF RowInv
<1>6. MembersOf(x)' = {n}
  BY <1>1, <1>2, <1>5 DEF MembersOf
<1>7. Governed(x)'
  <2>1. ~Dropping(n)'
    BY <1>1, <1>2, <1>4, NotDropping DEF DropsKept
  <2>2. n \in Owners(x)'
    BY <1>2, <1>6 DEF Owners
  <2> QED BY <2>1, <2>2 DEF Governed
<1>8. OrgsFaithful /\ NewSound
  <2>1. orgs'[x].sub = TRUE
    BY <1>1, NewOrgFields
  <2>2. Cardinality(MembersOf(x)') = 1
    BY <1>6, FS_Singleton
  <2>3. NewSound
    BY <1>1, <1>7, <2>1, <2>2 DEF NewSound
  <2> QED BY <1>1, <2>3 DEF OrgsFaithful
<1>9. SettledKept({})
  <2>1. \A m \in members' : m.org \in DOMAIN orgs => Settled(m.org)
    BY <1>1, <1>2, SettledBy
  <2> QED BY <1>1, <1>4, <2>1, SettledSame
<1>10. FreshInv' /\ CompleteInv'
  BY <1>3, <1>4, <1>8, <1>9, FreshQuiet, CompleteQuiet
<1>11. SeatInv'
  <2>1. \A o \in DOMAIN orgs : NoMoreMembers(o)
    <3> SUFFICES ASSUME NEW o \in DOMAIN orgs PROVE NoMoreMembers(o)
      OBVIOUS
    <3>1. MembersOf(o)' = MembersOf(o)
      BY <1>1, <1>2 DEF MembersOf
    <3> QED BY <1>3, <3>1, MembersFinite DEF NoMoreMembers
  <2> QED BY <1>1, <1>3, <1>4, <1>8, <2>1, SeatQuiet
<1>12. UniqueInv'
  BY <1>1, <1>2, <1>3, <1>5 DEF UniqueInv
<1>13. OwnerInv'
  <2>1. \A o \in DOMAIN orgs : \A m \in Owners(o) : m \in members'
    BY <1>2 DEF Owners, MembersOf
  <2> QED BY <1>3, <1>4, <1>8, <1>9, <2>1, OwnerQuiet
<1> QED BY <1>10, <1>11, <1>12, <1>13 DEF MemberInv

(* Steps somebody comes to a step by that counts.                          *)
LEMMA NewElse == \A s \in Claims : NewOnly({s}) => \A t \in Claims : t # s => NoneTo(t)
  BY DEF NewOnly, NoneTo

LEMMA Unlike ==
  /\ \A s \in {"subscribe", "join", "add", "drop"} : s \in Claims /\ s # "sign" /\ s # "drop sub" /\ s # "drop members"
  /\ "subscribe" # "join" /\ "subscribe" # "add" /\ "subscribe" # "drop" /\ "join" # "add" /\ "join" # "drop" /\ "add" # "drop"
  /\ "sign" \in Claims /\ "drop sub" \in Claims /\ "drop members" \in Claims /\ "drop sub" # "drop members"
  /\ "sign" # "drop sub" /\ "sign" # "drop members"
  BY HeldNamed

LEMMA NewNothing ==
  ASSUME NEW s \in {"subscribe", "join", "add", "drop", "sign"}, NewOnly({s})
  PROVE  /\ s # "sign" => NoneTo("sign")
         /\ s # "join" => NoneTo("join")
         /\ s # "subscribe" => NoneTo("subscribe")
         /\ s # "add" => NoneTo("add")
         /\ s # "drop" => NoneTo("drop") /\ DropsKept
         /\ ClearsKept
<1>1. s \in Claims /\ s # "drop sub" /\ s # "drop members"
  BY Unlike
<1>2. \A t \in Claims : t # s => NoneTo(t)
  BY <1>1, NewElse
<1>3. ClearsKept
  BY <1>1, <1>2, NoneClears, Unlike, Zenon
<1> QED BY <1>2, <1>3, NoneDrops, Unlike

LEMMA NewClearing ==
  ASSUME NewOnly({"drop sub"}) \/ NewOnly({"drop members"})
  PROVE  /\ NoneTo("sign") /\ NoneTo("join") /\ NoneTo("subscribe") /\ NoneTo("add") /\ NoneTo("drop")
         /\ DropsKept /\ FoundsKept
<1>1. /\ NoneTo("sign") /\ NoneTo("join") /\ NoneTo("subscribe") /\ NoneTo("add") /\ NoneTo("drop")
  BY NewElse, Unlike, Zenon
<1> QED BY <1>1, NoneDrops, NoneFounds

LEMMA StandingSettled ==
  ASSUME NoneTo("sign"), members' = members, sessions' = sessions
  PROVE  SettledKept({})
  BY SettledBy, SettledSame

LEMMA MemberMakeOrg ==
  ASSUME ProcInv, RefInv, ProcInv', RefInv', MemberInv, NEW p \in Handlers, MakeOrg(p)
  PROVE  MemberInv'
<1> SUFFICES ASSUME NEW x, x = Len(orgs) + 1 PROVE MemberInv'
  OBVIOUS
<1>1. /\ members' = members /\ sessions' = sessions /\ slips' = slips
      /\ x \notin DOMAIN orgs /\ DOMAIN orgs' = DOMAIN orgs \cup {x} /\ \A i \in DOMAIN orgs : orgs'[i] = orgs[i]
  BY MakeOrgRows DEF RestOfOrgs
<1>2. FreshInv /\ CompleteInv /\ SeatInv /\ UniqueInv /\ OwnerInv /\ RowInv
  BY DEF MemberInv, RefInv
<1>3. NoneTo("sign") /\ NoneTo("join") /\ NoneTo("add") /\ NoneTo("drop") /\ DropsKept /\ ClearsKept
  BY MakeOrgNew, NewNothing
<1>4. Only(p) /\ proc'[p].org = x /\ ~At(p, "join")'
  <2>1. ~At(p, "join")'
    BY MakeOrgMoves, HeldNamed
  <2> QED BY <2>1, MakeOrgMoves
<1>5. ~Settled(x)'
  <2> SUFFICES ASSUME Settled(x)' PROVE FALSE
    OBVIOUS
  <2>1. \/ \E m \in members' : m.org = x
        \/ \E s \in DOMAIN sessions' : sessions'[s].org = x
        \/ \E q \in Handlers : At(q, "sign")' /\ proc'[q].org = x
    BY DEF Settled, MembersOf, SessionsOf
  <2>2. CASE \E q \in Handlers : At(q, "sign")' /\ proc'[q].org = x
    <3> PICK q \in Handlers : At(q, "sign")' /\ proc'[q].org = x
      BY <2>2
    <3>1. proc'[q] = proc[q] /\ At(q, "sign")
      BY <1>3 DEF NoneTo, At
    <3>2. proc[q].op \in AccountOps
      BY <3>1, HeldNamed, HeldSteps, AtRefers DEF Inside
    <3> QED BY <1>1, <3>1, <3>2 DEF RefInv, Refers
  <2> QED BY <1>1, <1>2, <2>1, <2>2 DEF RowInv
<1>6. MembersOf(x)' = {}
  BY <1>5 DEF Settled
<1>7. OrgsFaithful /\ NewSound
  <2>1. Cardinality(MembersOf(x)') = 0
    BY <1>6, FS_EmptySet
  <2>2. NewSound
    BY <1>1, <1>5, <2>1 DEF NewSound
  <2> QED BY <1>1, <2>2 DEF OrgsFaithful
<1>8. SettledKept({})
  BY <1>1, <1>3, StandingSettled
<1>9. FreshInv'
  <2>1. ASSUME NEW q \in Handlers \ {p}, Founds(q)' PROVE Founds(q) /\ proc'[q].org = proc[q].org /\ proc'[q].org # x
    <3>1. proc'[q] = proc[q]
      BY <1>4 DEF Only
    <3>2. Founds(q)
      BY <2>1, <3>1 DEF Founds, At
    <3> QED BY <1>1, <3>1, <3>2, FoundsIn
  <2>2. ASSUME NEW q \in Handlers, NEW o \in Nat PROVE FreshAt(q, o)'
    <3> SUFFICES ASSUME Founds(q)', proc'[q].org = o
                 PROVE  ~Settled(o)' /\ \A r \in Handlers \ {q} : Founds(r)' => proc'[r].org # o
      BY DEF FreshAt
    <3>1. CASE q = p
      <4>1. o = x
        BY <1>4, <3>1
      <4> QED BY <1>5, <2>1, <3>1, <4>1
    <3>2. CASE q # p
      <4>1. Founds(q) /\ proc[q].org = o /\ o # x
        BY <2>1, <3>2
      <4>2. o \in DOMAIN orgs /\ ~Settled(o)
        BY <1>2, <4>1, FoundsIn DEF FreshInv
      <4>3. ~Settled(o)'
        BY <1>8, <4>2 DEF SettledKept
      <4>4. ASSUME NEW r \in Handlers \ {q}, Founds(r)' PROVE proc'[r].org # o
        <5>1. CASE r = p
          BY <1>4, <4>1, <5>1
        <5>2. CASE r # p
          <6>1. Founds(r) /\ proc'[r].org = proc[r].org
            BY <2>1, <4>4, <5>2
          <6> QED BY <1>2, <4>1, <6>1 DEF FreshInv
        <5> QED BY <5>1, <5>2
      <4> QED BY <4>3, <4>4
    <3> QED BY <3>1, <3>2
  <2>3. AllFresh'
    BY <2>2 DEF AllFresh
  <2> QED BY <2>3, FreshIsNext
<1>10. CompleteInv'
  BY <1>2, <1>3, <1>7, <1>8, CompleteQuiet
<1>11. SeatInv'
  BY <1>1, <1>2, <1>3, <1>7, FewerMembers, SeatQuiet
<1>12. UniqueInv' /\ OwnerInv'
  BY <1>1, <1>2, <1>3, <1>7, <1>8, UniqueQuiet, OwnerQuiet DEF Owners, MembersOf
<1> QED BY <1>9, <1>10, <1>11, <1>12 DEF MemberInv

(* A step of one handler that founds, with what it founds.                 *)
LEMMA FollowsFounds ==
  ASSUME NEW p \in Handlers, NEW step \in {"subscribe", "join"}, At(p, step), Follows(p, step)
  PROVE  FoundsKept /\ \A q \in Handlers \ {p} : \A s : At(q, s)' => proc'[q] = proc[q]
<1>1. ASSUME NEW q \in Handlers \ {p}, NEW s, At(q, s)' PROVE proc'[q] = proc[q]
  BY <1>1, IdleNowhere DEF Follows
<1>2. ASSUME NEW q \in Handlers \ {p}, Founds(q)' PROVE Founds(q) /\ proc'[q].org = proc[q].org
  <2>1. proc'[q] = proc[q]
    BY <1>1, <1>2 DEF Founds
  <2> QED BY <1>2, <2>1 DEF Founds, At
<1>3. Founds(p)
  BY DEF Founds
<1>4. Founds(p)' => proc'[p].org = proc[p].org
  <2> SUFFICES ASSUME Founds(p)' PROVE proc'[p].org = proc[p].org
    OBVIOUS
  <2>1. proc'[p] # Idle
    BY IdleNowhere DEF Founds
  <2>2. "org" \in Fields \ {"todo"}
    BY DEF Fields
  <2> QED BY <2>1, <2>2 DEF Follows
<1> QED BY <1>1, <1>2, <1>3, <1>4 DEF FoundsKept

LEMMA ThrownIdle ==
  ASSUME ProcInv, NEW p \in Handlers, proc' = Thrown(p)
  PROVE  proc'[p] = Idle
  BY DEF Thrown, Died, Ended, ProcInv

LEMMA MemberSubscribe ==
  ASSUME ProcInv, RefInv, ProcInv', RefInv', MemberInv, NEW p \in Handlers, SubscribeOrg(p)
  PROVE  MemberInv'
<1>1. members' = members /\ sessions' = sessions /\ slips' = slips
  BY SubscribeRows DEF RestOfOrgs
<1>2. FreshInv /\ CompleteInv /\ SeatInv /\ UniqueInv /\ OwnerInv /\ RowInv
  BY DEF MemberInv, RefInv
<1>3. NoneTo("sign") /\ NoneTo("add") /\ NoneTo("drop") /\ DropsKept /\ ClearsKept
  BY SubscribeNew, NewNothing
<1>4. At(p, "subscribe") /\ Follows(p, "subscribe")
  BY SubscribeOrgMoves
<1>5. FoundsKept /\ \A q \in Handlers \ {p} : \A s : At(q, s)' => proc'[q] = proc[q]
  BY <1>4, FollowsFounds
<1>6. OrgsFaithful /\ NewSound
  <2>1. CASE orgs' = orgs
    BY <2>1, OrgsAsTheyWere
  <2>2. CASE SubBecomes(proc[p].org, TRUE)
    BY <2>2, NoNew DEF OrgsFaithful, SubBecomes
  <2> QED BY <2>1, <2>2, SubscribeRows
<1>7. SettledKept({})
  BY <1>1, <1>3, StandingSettled
<1>8. CompleteInv'
  <2>1. JoinsSound /\ ClearsSound /\ SettledSound
    BY <1>2, CompleteIs
  <2>2. SettledSound'
    BY <1>6, <1>7, <2>1 DEF SettledSound, SettledKept, OrgsFaithful, NewSound
  <2>3. JoinsSound'
    <3> SUFFICES ASSUME NEW q \in Handlers, At(q, "join")' PROVE orgs'[proc'[q].org].sub \/ orgs'[proc'[q].org].doomed
      BY DEF JoinsSound
    <3>1. CASE q # p
      <4>1. proc'[q] = proc[q]
        BY <1>5, <3>1
      <4>2. At(q, "join") /\ proc[q].org \in DOMAIN orgs
        BY <4>1, JoinsIn DEF At
      <4> QED BY <1>6, <2>1, <4>1, <4>2 DEF JoinsSound, OrgsFaithful
    <3>2. CASE q = p
      <4>1. Founds(p)'
        BY <3>2 DEF Founds
      <4>2. proc'[p].org = proc[p].org /\ proc'[p] # Idle
        BY <1>5, <4>1, IdleNowhere DEF FoundsKept, Founds
      <4>3. proc' # Thrown(p)
        BY <4>2, ThrownIdle
      <4>4. orgs' = [orgs EXCEPT ![proc[p].org].sub = TRUE] /\ proc[p].org \in DOMAIN orgs
        BY <4>3 DEF SubscribeOrg, Exists
      <4>5. orgs'[proc[p].org].sub = TRUE
        <5>1. orgs[proc[p].org] \in OrgRow
          BY <1>2, <4>4, OrgAt
        <5> QED BY <4>4, <5>1 DEF OrgRow
      <4> QED BY <3>2, <4>2, <4>5
    <3> QED BY <3>1, <3>2
  <2> QED BY <1>3, <1>6, <2>1, <2>2, <2>3, ClearsQuiet, CompleteIsNext
<1>9. FreshInv'
  BY <1>2, <1>5, <1>7, FreshQuiet
<1>10. SeatInv'
  BY <1>1, <1>2, <1>3, <1>6, FewerMembers, SeatQuiet
<1>11. UniqueInv' /\ OwnerInv'
  BY <1>1, <1>2, <1>3, <1>6, <1>7, UniqueQuiet, OwnerQuiet DEF Owners, MembersOf
<1> QED BY <1>8, <1>9, <1>10, <1>11 DEF MemberInv

(* Who joins and admits nobody has failed.                                 *)
LEMMA JoinThrown ==
  ASSUME ProcInv, RefInv, NEW p \in Handlers, Join(p), MembersOf(proc[p].org) = {}, members' = members
  PROVE  proc'[p] = Idle /\ sessions' = sessions
<1>1. ASSUME Exists(proc[p].org) PROVE FALSE
  <2> DEFINE n == Member(p, proc[p].org, proc[p].who, "owner", TRUE)
  <2>1. n \in members'
    BY <1>1 DEF Join
  <2>2. n.org = proc[p].org
    BY DEF Member
  <2> HIDE DEF n
  <2> QED BY <2>1, <2>2 DEF MembersOf
<1>2. proc' = Thrown(p) /\ sessions' = sessions
  BY <1>1 DEF Join
<1> QED BY <1>2, ThrownIdle

(* The first member comes into an organisation nobody had come into.       *)
LEMMA MemberJoin ==
  ASSUME ProcInv, RefInv, ProcInv', RefInv', MemberInv, NEW p \in Handlers, Join(p)
  PROVE  MemberInv'
<1> SUFFICES ASSUME NEW x, x = proc[p].org PROVE MemberInv'
  OBVIOUS
<1>1. orgs' = orgs /\ slips' = slips /\ x \in DOMAIN orgs
  BY JoinRows
<1>2. FreshInv /\ CompleteInv /\ SeatInv /\ UniqueInv /\ OwnerInv /\ RowInv
  BY DEF MemberInv, RefInv
<1>3. NoneTo("subscribe") /\ NoneTo("join") /\ NoneTo("add") /\ NoneTo("drop") /\ DropsKept /\ ClearsKept /\ FoundsKept
  BY JoinNew, NewNothing, NoneFounds
<1>4. At(p, "join") /\ Follows(p, "join") /\ Founds(p)
  BY JoinMoves DEF Founds
<1>5. ~Settled(x) /\ \A q \in Handlers \ {p} : Founds(q) => proc[q].org # x
  BY <1>2, <1>4 DEF FreshInv
<1>6. ~Founds(p)'
  <2>1. "join" \in Steps /\ "subscribe" \in Steps
    BY HeldNamed, HeldSteps
  <2>2. ~At(p, "join")' /\ ~At(p, "subscribe")'
    BY <1>4, <2>1, StepLeaves, ThenNotAgain
  <2> QED BY <2>2 DEF Founds
<1>7. OrgsFaithful /\ NewSound
  BY <1>1, OrgsAsTheyWere
<1>8. \A s \in DOMAIN sessions : Settled(sessions[s].org)
  BY SettledBy
<1>9. \A s \in DOMAIN sessions' : Settled(sessions'[s].org) \/ sessions'[s].org \in {x}
  <2>1. CASE sessions' = sessions
    BY <1>8, <2>1
  <2>2. CASE SignsOne(x)
    <3>1. /\ DOMAIN sessions' = DOMAIN sessions \cup {Len(sessions) + 1} /\ sessions'[Len(sessions) + 1].org = x
          /\ \A s \in DOMAIN sessions : sessions'[s] = sessions[s]
      BY <1>1, <1>2, <2>2, TokenNew
    <3> QED BY <1>8, <3>1
  <2> QED BY <2>1, <2>2, JoinRows
<1>10. \A m \in members' : Settled(m.org) \/ m.org \in {x}
  <2>1. CASE members' = members
    BY <2>1, SettledBy
  <2>2. CASE Admits(p, "owner", TRUE)
    BY <2>2, SettledBy DEF Admits
  <2> QED BY <2>1, <2>2, JoinRows
<1>11. \A q \in Handlers : At(q, "sign")' => Settled(proc'[q].org) \/ proc'[q].org \in {x}
  <2> SUFFICES ASSUME NEW q \in Handlers, At(q, "sign")' PROVE Settled(proc'[q].org) \/ proc'[q].org \in {x}
    OBVIOUS
  <2>1. CASE q # p
    <3>1. proc'[q] = proc[q]
      BY <1>4, <2>1, FollowsFounds
    <3>2. At(q, "sign")
      BY <3>1 DEF At
    <3> QED BY <3>1, <3>2, SettledBy
  <2>2. CASE q = p
    <3>1. proc'[p] # Idle
      BY <2>2, IdleNowhere
    <3>2. "org" \in Fields \ {"todo"}
      BY DEF Fields
    <3>3. proc'[p].org = proc[p].org
      BY <1>4, <3>1, <3>2 DEF Follows
    <3> QED BY <2>2, <3>3
  <2> QED BY <2>1, <2>2
<1>12. SettledKept({x})
  BY <1>9, <1>10, <1>11, SettledFrom
<1>13. FreshInv'
  <2> SUFFICES ASSUME NEW q \in Handlers, NEW o \in Nat PROVE FreshAt(q, o)'
    BY FreshIsNext DEF AllFresh
  <2> SUFFICES ASSUME Founds(q)', proc'[q].org = o
               PROVE  ~Settled(o)' /\ \A r \in Handlers \ {q} : Founds(r)' => proc'[r].org # o
    BY DEF FreshAt
  <2>1. Founds(q) /\ proc[q].org = o /\ q # p
    BY <1>3, <1>6 DEF FoundsKept
  <2>2. o \in DOMAIN orgs /\ ~Settled(o) /\ o # x
    BY <1>2, <1>5, <2>1, FoundsIn DEF FreshInv
  <2>3. ~Settled(o)'
    BY <1>12, <2>2 DEF SettledKept
  <2>4. ASSUME NEW r \in Handlers \ {q}, Founds(r)' PROVE proc'[r].org # o
    <3>1. Founds(r) /\ proc'[r].org = proc[r].org
      BY <2>4, <1>3 DEF FoundsKept
    <3> QED BY <1>2, <2>1, <3>1 DEF FreshInv
  <2> QED BY <2>3, <2>4
<1>14. CompleteInv'
  <2>1. JoinsSound /\ ClearsSound /\ SettledSound
    BY <1>2, CompleteIs
  <2>2. orgs[x].sub \/ orgs[x].doomed
    BY <1>4, <2>1 DEF JoinsSound
  <2>3. SettledSound'
    BY <1>1, <1>12, <2>1, <2>2 DEF SettledSound, SettledKept
  <2> QED BY <1>3, <1>7, <2>1, <2>3, JoinsQuiet, ClearsQuiet, CompleteIsNext
<1>15. MembersOf(x) = {} /\ \A q \in Handlers : ~(At(q, "add") /\ proc[q].org = x) /\ ~(At(q, "drop") /\ proc[q].org = x)
  BY <1>5, OwnersSettled DEF Settled
<1>16. CASE members' = members
  <2>1. SeatInv'
    BY <1>1, <1>2, <1>3, <1>7, <1>16, FewerMembers, SeatQuiet
  <2>2. UniqueInv'
    BY <1>2, <1>16, UniqueQuiet
  <2>3. OwnerInv'
    <3>1. sessions' = sessions /\ proc'[p] = Idle
      BY <1>15, <1>16, JoinThrown
    <3>2. NoneTo("sign")
      BY <1>4, <3>1, FollowsFounds, IdleNowhere DEF NoneTo
    <3>3. SettledKept({})
      BY <1>16, <3>1, <3>2, StandingSettled
    <3> QED BY <1>2, <1>3, <1>7, <1>16, <3>3, OwnerQuiet DEF Owners, MembersOf
  <2> QED BY <1>13, <1>14, <2>1, <2>2, <2>3 DEF MemberInv
<1>17. CASE Admits(p, "owner", TRUE)
  <2> PICK n : members' = members \cup {n} /\ n.org = x /\ n.role = "owner"
    BY <1>17 DEF Admits
  <2>1. MembersOf(x)' = {n} /\ \A o : o # x => MembersOf(o)' = MembersOf(o)
    BY <1>15 DEF MembersOf
  <2>2. SeatInv'
    <3> SUFFICES ASSUME NEW o \in DOMAIN orgs', ~orgs'[o].doomed PROVE SeatsFit(o)'
      BY DEF SeatInv, SeatsFit
    <3>1. SeatsFit(o) /\ o \in DOMAIN orgs
      BY <1>1, <1>2, SeatIs
    <3>2. Adding(o)' \subseteq Adding(o) /\ slips'.seat \in Nat /\ slips'.seat >= slips.seat
      BY <1>1, <1>2, <1>3, AddingFewer DEF RowInv
    <3>3. CASE o = x
      <4> DEFINE a == Cardinality(MembersOf(o)')
                 b == Cardinality(Adding(o)')
                 h == slips'.seat
      <4>1. Adding(o) = {}
        BY <1>15, <3>3 DEF Adding
      <4>2. Adding(o)' = {}
        BY <3>2, <4>1
      <4>3. MembersOf(o)' = {n}
        BY <2>1, <3>3
      <4>4. a = 1 /\ b = 0 /\ h \in Nat /\ Seats \in Nat \ {0}
        BY <3>2, <4>2, <4>3, FS_EmptySet, FS_Singleton, AccountsAssumption
      <4> HIDE DEF a, b, h
      <4>5. a + b <= Seats + h
        BY <4>4
      <4> QED BY <4>5 DEF a, b, h, SeatsFit
    <3>4. CASE o # x
      <4>1. MembersOf(o)' = MembersOf(o)
        BY <2>1, <3>4
      <4>2. NoMoreMembers(o)
        BY <1>2, <4>1, MembersFinite DEF NoMoreMembers
      <4> QED BY <1>2, <3>1, <3>2, <4>2, FitsQuiet
    <3> QED BY <3>3, <3>4
  <2>3. UniqueInv'
    <3>1. \A m \in members : m.org # x
      BY <1>15 DEF MembersOf
    <3> QED BY <1>2, <3>1 DEF UniqueInv
  <2>4. OwnerInv'
    <3> SUFFICES ASSUME NEW o \in DOMAIN orgs', Settled(o)', ~orgs'[o].demoted, ~orgs'[o].doomed PROVE Governed(o)'
      BY DEF OwnerInv, Governed
    <3>1. CASE o = x
      <4>1. ~Dropping(n)
        BY <1>15 DEF Dropping
      <4>2. ~Dropping(n)' /\ n \in Owners(o)'
        BY <1>3, <2>1, <3>1, <4>1 DEF DropsKept, Owners
      <4> QED BY <4>2 DEF Governed
    <3>2. CASE o # x
      <4>1. Governed(o)
        BY <1>1, <1>2, <1>12, <3>2, OwnerIs DEF SettledKept
      <4>2. \A m \in Owners(o) : m \in members'
        BY DEF Owners, MembersOf
      <4> QED BY <1>3, <4>1, <4>2, GovernedQuiet
    <3> QED BY <3>1, <3>2
  <2> QED BY <1>13, <1>14, <2>2, <2>3, <2>4 DEF MemberInv
<1> QED BY <1>16, <1>17, JoinRows

LEMMA MemberSeats ==
  ASSUME ProcInv, RefInv, ProcInv', RefInv', MemberInv, NEW p \in Handlers, CountSeats(p)
  PROVE  MemberInv'
<1> SUFFICES ASSUME NEW x, x = proc[p].org PROVE MemberInv'
  OBVIOUS
<1>1. /\ orgs' = orgs /\ members' = members /\ sessions' = sessions /\ x \in DOMAIN orgs /\ slips'.seat \in Nat
      /\ At(p, "seats")
  BY SeatRows DEF CountSeats
<1>2. FreshInv /\ CompleteInv /\ SeatInv /\ UniqueInv /\ OwnerInv /\ RowInv
  BY DEF MemberInv, RefInv
<1>3. NoneTo("sign") /\ NoneTo("subscribe") /\ NoneTo("join") /\ NoneTo("drop") /\ DropsKept /\ ClearsKept /\ FoundsKept
  BY SeatsNew, NewNothing, NoneFounds
<1>4. OrgsFaithful /\ NewSound /\ SettledKept({})
  BY <1>1, <1>3, OrgsAsTheyWere, StandingSettled
<1>5. FreshInv' /\ CompleteInv' /\ UniqueInv' /\ OwnerInv'
  BY <1>1, <1>2, <1>3, <1>4, FreshQuiet, CompleteQuiet, UniqueQuiet, OwnerQuiet DEF Owners, MembersOf
<1>6. Follows(p, "seats")
  BY CountSeatsMoves
<1>7. \A q \in Handlers \ {p} : At(q, "add")' => proc'[q] = proc[q]
  BY <1>6, IdleNowhere DEF Follows
<1>8. ASSUME NEW o, NEW q \in Adding(o)', q # p PROVE q \in Adding(o)
  <2>1. q \in Handlers /\ At(q, "add")' /\ proc'[q].org = o
    BY <1>8 DEF Adding
  <2>2. proc'[q] = proc[q]
    BY <1>7, <1>8, <2>1
  <2> QED BY <2>1, <2>2 DEF Adding, At
<1>9. p \in Handlers /\ (At(p, "add")' => proc'[p].org = x)
  <2>1. "org" \in Fields \ {"todo"}
    BY DEF Fields
  <2> QED BY <1>6, <2>1, IdleNowhere DEF Follows
<1>10. ASSUME NEW o \in DOMAIN orgs, ~orgs[o].doomed PROVE SeatsFit(o)'
  <2> DEFINE a == Cardinality(MembersOf(o))
             b == Cardinality(Adding(o))
             c == Cardinality(MembersOf(o)')
             d == Cardinality(Adding(o)')
             h == slips.seat
             i == slips'.seat
  <2>1. a + b <= Seats + h /\ Seats \in Nat /\ a \in Nat /\ b \in Nat /\ h \in Nat /\ i \in Nat
    BY <1>1, <1>2, <1>10, SeatIs, MembersFinite, AddingFinite, AccountsAssumption DEF SeatsFit, RowInv
  <2>2. c = a
    BY <1>1 DEF MembersOf
  <2>3. CASE p \notin Adding(o)'
    <3>1. Adding(o)' \subseteq Adding(o)
      BY <1>8, <2>3
    <3>2. d <= b /\ d \in Nat
      BY <3>1, AddingFinite, FS_Subset, FS_CardinalityType
    <3>3. h <= i
      <4>1. CASE slips' = slips
        BY <2>1, <4>1
      <4>2. CASE i = slips.seat + Cardinality(Adding(x))
        <5>1. Cardinality(Adding(x)) \in Nat
          BY AddingFinite
        <5> HIDE DEF i
        <5> QED BY <2>1, <4>2, <5>1
      <4> QED BY <4>1, <4>2, SeatRows
    <3> HIDE DEF a, b, c, d, h, i
    <3>4. c + d <= Seats + i
      BY <2>1, <2>2, <3>2, <3>3
    <3> QED BY <3>4 DEF c, d, i, SeatsFit
  <2>4. CASE p \in Adding(o)'
    <3>1. o = x /\ proc'[p] # Idle
      BY <1>9, <2>4, IdleNowhere DEF Adding
    <3>2. ~(orgs[x].sub /\ Cardinality(MembersOf(x)) >= Seats) /\ slips'.seat = slips.seat + Cardinality(Adding(x))
      <4>1. proc' # Ended(p)
        BY <3>1 DEF Ended, ProcInv
      <4> QED BY <4>1, SeatRows
    <3>3. orgs[x].sub
      <4>1. Settled(x)
        BY <1>1, OwnersSettled
      <4> QED BY <1>2, <1>10, <3>1, <4>1 DEF CompleteInv
    <3>4. a < Seats /\ i = h + b
      BY <2>1, <3>1, <3>2, <3>3
    <3>5. d <= b + 1 /\ d \in Nat
      <4>1. Adding(o)' \subseteq Adding(o) \cup {p}
        BY <1>8
      <4>2. IsFiniteSet(Adding(o)) /\ IsFiniteSet(Adding(o) \cup {p}) /\ Cardinality(Adding(o) \cup {p}) \in {b, b + 1}
        BY AddingFinite, FS_AddElement
      <4>3. d <= Cardinality(Adding(o) \cup {p}) /\ d \in Nat
        BY <4>1, <4>2, FS_Subset, FS_CardinalityType
      <4> HIDE DEF b, d
      <4> QED BY <2>1, <4>2, <4>3
    <3> HIDE DEF a, b, c, d, h, i
    <3>6. c + d <= Seats + i
      BY <2>1, <2>2, <3>4, <3>5
    <3> QED BY <3>6 DEF c, d, i, SeatsFit
  <2> QED BY <2>3, <2>4
<1>11. SeatInv'
  BY <1>1, <1>10 DEF SeatInv, SeatsFit
<1> QED BY <1>5, <1>11 DEF MemberInv

(* Nobody but one who is not an owner is about to be removed.              *)
LEMMA MemberFindMember ==
  ASSUME ProcInv, RefInv, ProcInv', RefInv', MemberInv, NEW p \in Handlers, FindMember(p)
  PROVE  MemberInv'
<1>1. orgs' = orgs /\ members' = members /\ sessions' = sessions /\ slips' = slips
  BY DEF FindMember, FoundMember, accounts
<1>2. FreshInv /\ CompleteInv /\ SeatInv /\ UniqueInv /\ OwnerInv /\ RowInv
  BY DEF MemberInv, RefInv
<1>3. NoneTo("sign") /\ NoneTo("subscribe") /\ NoneTo("join") /\ NoneTo("add") /\ ClearsKept /\ FoundsKept
  BY FindMemberNew, NewNothing, NoneFounds
<1>4. OrgsFaithful /\ NewSound /\ SettledKept({})
  BY <1>1, <1>3, OrgsAsTheyWere, StandingSettled
<1>5. FreshInv' /\ CompleteInv' /\ UniqueInv'
  BY <1>1, <1>2, <1>3, <1>4, FreshQuiet, CompleteQuiet, UniqueQuiet
<1>6. SeatInv'
  BY <1>1, <1>2, <1>3, <1>4, FewerMembers, SeatQuiet
<1>7. ASSUME NEW w \in members, w.role = "owner", Dropping(w)' PROVE Dropping(w)
  <2>1. PICK q \in Handlers : At(q, "drop")' /\ proc'[q].org = w.org /\ proc'[q].who = w.user /\ proc'[q].id = w.id
    BY <1>7 DEF Dropping
  <2>2. CASE q # p
    <3>1. proc'[q] = proc[q]
      BY <2>2, FindMemberMoves DEF Only
    <3> QED BY <2>1, <3>1 DEF Dropping, At
  <2>3. CASE q = p
    <3>1. proc'[p] # Idle
      BY <2>1, <2>3, IdleNowhere
    <3>2. PICK m \in NotSelf(p) : /\ m.role # "owner" /\ proc'[p].id = m.id
                                  /\ proc'[p].org = proc[p].org /\ proc'[p].who = proc[p].who
      BY <3>1, FindMemberMoves
    <3>3. m \in members /\ m.org = proc[p].org /\ m.user = proc[p].who
      BY DEF NotSelf, RowOf, MembersOf
    <3>4. w = m
      BY <1>2, <2>1, <2>3, <3>2, <3>3 DEF UniqueInv
    <3> QED BY <1>7, <3>2, <3>4
  <2> QED BY <2>2, <2>3
<1>8. OwnerInv'
  <2> SUFFICES ASSUME NEW o \in DOMAIN orgs', Settled(o)', ~orgs'[o].demoted, ~orgs'[o].doomed PROVE Governed(o)'
    BY DEF OwnerInv, Governed
  <2>1. Governed(o)
    BY <1>1, <1>2, <1>4, OwnerIs DEF SettledKept
  <2> PICK m \in Owners(o) : ~Dropping(m)
    BY <2>1 DEF Governed
  <2>2. m \in members /\ m.role = "owner" /\ m.org = o
    BY DEF Owners, MembersOf
  <2>3. ~Dropping(m)'
    BY <1>7, <2>2
  <2>4. m \in Owners(o)'
    BY <1>1, <2>2 DEF Owners, MembersOf
  <2> QED BY <2>3, <2>4 DEF Governed
<1> QED BY <1>5, <1>6, <1>8 DEF MemberInv

(* Only a deletion goes on to take the subscription and the members away.  *)
LEMMA CutClears ==
  ASSUME ProcInv, RefInv, NEW p \in Handlers, CutOrg(p), Clears(p)'
  PROVE  proc[p].op = "delete" /\ proc'[p].org = proc[p].org
<1>1. ProcInv' /\ Follows(p, "cut") /\ Inside(proc[p])
  BY CutOrgMoves
<1>2. proc'[p] # Idle
  BY IdleNowhere, Zenon DEF Clears
<1>3. "op" \in Fields \ {"todo"} /\ "org" \in Fields \ {"todo"}
  BY DEF Fields
<1>4. proc'[p].op = proc[p].op /\ proc'[p].org = proc[p].org
  BY <1>1, <1>2, <1>3 DEF Follows
<1>5. \A s : s = "drop sub" \/ s = "drop members" => \A op : May(op, s) => op = "delete"
  BY DEF May
<1>6. \A s \in AccountSteps : At(p, s)' => May(proc'[p].op, s)
  <2>1. proc'[p].op \in AccountOps
    BY <1>1, <1>4 DEF Inside
  <2>2. Inside(proc'[p])
    BY <1>1, <2>1 DEF ProcInv, Away
  <2>3. ASSUME NEW s \in AccountSteps, At(p, s)' PROVE May(proc'[p].op, s)
    <3>1. proc'[p].todo # <<>> /\ Head(proc'[p].todo) = s
      BY <2>3 DEF At
    <3> QED BY <2>2, <3>1, TailProgram DEF Inside
  <2> QED BY <2>3
<1>7. \A s \in Claims : s \in AccountSteps
  BY HeldSteps
<1>8. proc'[p].op = "delete"
  BY <1>5, <1>6, <1>7, HeldNamed, Zenon DEF Clears
<1> QED BY <1>4, <1>8

LEMMA MemberCut ==
  ASSUME ProcInv, RefInv, ProcInv', RefInv', MemberInv, NEW p \in Handlers, CutOrg(p)
  PROVE  MemberInv'
<1> SUFFICES ASSUME NEW x, x = proc[p].org PROVE MemberInv'
  OBVIOUS
<1>1. /\ members' = members /\ sessions' = sessions /\ slips' = slips /\ x \in DOMAIN orgs /\ DOMAIN orgs' = DOMAIN orgs
      /\ \A i \in DOMAIN orgs \ {x} : orgs'[i] = orgs[i]
      /\ orgs'[x].sub = orgs[x].sub /\ orgs'[x].demoted = orgs[x].demoted
      /\ orgs'[x].doomed = (orgs[x].doomed \/ proc[p].op = "delete")
  BY CutRows DEF RestOfOrgs
<1>2. FreshInv /\ CompleteInv /\ SeatInv /\ UniqueInv /\ OwnerInv /\ RowInv
  BY DEF MemberInv, RefInv
<1>3. NoneTo("sign") /\ NoneTo("join") /\ NoneTo("add") /\ DropsKept /\ FoundsKept
  BY CutNew, NewClearing
<1>4. OrgsFaithful /\ NewSound /\ SettledKept({})
  <2>1. \A o \in DOMAIN orgs : /\ orgs[o].sub \/ orgs[o].doomed => orgs'[o].sub \/ orgs'[o].doomed
                               /\ orgs[o].doomed => orgs'[o].doomed
                               /\ orgs[o].demoted => orgs'[o].demoted
    BY <1>1
  <2> QED BY <1>1, <1>3, <2>1, NoNew, StandingSettled DEF OrgsFaithful
<1>5. FreshInv' /\ UniqueInv' /\ OwnerInv'
  BY <1>1, <1>2, <1>3, <1>4, FreshQuiet, UniqueQuiet, OwnerQuiet DEF Owners, MembersOf
<1>6. SeatInv'
  BY <1>1, <1>2, <1>3, <1>4, FewerMembers, SeatQuiet
<1>7. CompleteInv'
  <2>1. JoinsSound /\ ClearsSound /\ SettledSound
    BY <1>2, CompleteIs
  <2>2. SettledSound'
    BY <1>4, <2>1 DEF SettledSound, SettledKept, OrgsFaithful, NewSound
  <2>3. ClearsSound'
    <3> SUFFICES ASSUME NEW q \in Handlers, Clears(q)' PROVE orgs'[proc'[q].org].doomed
      BY DEF ClearsSound
    <3>1. CASE q # p
      <4>1. proc'[q] = proc[q]
        <5>1. proc'[q] # Idle
          BY IdleNowhere, Zenon DEF Clears
        <5>2. Follows(p, "cut")
          BY CutOrgMoves
        <5> QED BY <3>1, <5>1, <5>2 DEF Follows
      <4>2. Clears(q)
        BY <4>1, Zenon DEF Clears, At
      <4>3. proc[q].org \in DOMAIN orgs
        BY <4>2, JoinsIn
      <4> QED BY <1>4, <2>1, <4>1, <4>2, <4>3 DEF ClearsSound, OrgsFaithful
    <3>2. CASE q = p
      BY <1>1, <3>2, CutClears
    <3> QED BY <3>1, <3>2
  <2> QED BY <1>3, <1>4, <2>1, <2>2, <2>3, JoinsQuiet, CompleteIsNext
<1> QED BY <1>5, <1>6, <1>7 DEF MemberInv

LEMMA DropSubClears ==
  ASSUME ProcInv, RefInv, NEW p \in Handlers, DropSub(p)
  PROVE  /\ Clears(p)
         /\ \A q \in Handlers : Clears(q)' => Clears(q) /\ proc'[q].org = proc[q].org
<1>1. Clears(p)
  BY Zenon DEF DropSub, Clears
<1>2. \A q \in Handlers \ {p} : proc'[q] = proc[q] \/ proc'[q] = Idle
  BY DropSubMoves DEF Follows
<1>3. proc'[p] = Idle \/ \A f \in Fields \ {"todo"} : proc'[p][f] = proc[p][f]
  BY DropSubMoves DEF Follows
<1>4. ASSUME NEW q \in Handlers, Clears(q)' PROVE Clears(q) /\ proc'[q].org = proc[q].org
  <2>1. proc'[q] # Idle
    BY <1>4, IdleNowhere, Zenon DEF Clears
  <2>2. CASE q # p
    <3>1. proc'[q] = proc[q]
      BY <1>2, <2>1, <2>2
    <3>2. Clears(q)
      BY <1>4, <3>1, Zenon DEF Clears, At
    <3> QED BY <3>1, <3>2
  <2>3. CASE q = p
    <3>1. "org" \in Fields \ {"todo"}
      BY DEF Fields
    <3> QED BY <1>1, <1>3, <2>1, <2>3, <3>1
  <2> QED BY <2>2, <2>3
<1> QED BY <1>1, <1>4

LEMMA MemberDropSub ==
  ASSUME ProcInv, RefInv, ProcInv', RefInv', MemberInv, NEW p \in Handlers, DropSub(p)
  PROVE  MemberInv'
<1> SUFFICES ASSUME NEW x, x = proc[p].org PROVE MemberInv'
  OBVIOUS
<1>1. /\ members' = members /\ sessions' = sessions /\ slips' = slips /\ x \in DOMAIN orgs /\ SubBecomes(x, FALSE)
  BY DropSubRows DEF RestOfOrgs
<1>2. FreshInv /\ CompleteInv /\ SeatInv /\ UniqueInv /\ OwnerInv /\ RowInv
  BY DEF MemberInv, RefInv
<1>3. NoneTo("sign") /\ NoneTo("join") /\ NoneTo("add") /\ DropsKept /\ FoundsKept
  BY DropSubNew, NewClearing
<1>4. JoinsSound /\ ClearsSound /\ SettledSound
  BY <1>2, CompleteIs
<1>5. orgs[x].doomed
  BY <1>4, DropSubClears DEF ClearsSound
<1>6. OrgsFaithful /\ NewSound /\ SettledKept({})
  <2>1. DOMAIN orgs' = DOMAIN orgs
    BY <1>1 DEF SubBecomes
  <2>2. \A o \in DOMAIN orgs : /\ orgs[o].sub \/ orgs[o].doomed => orgs'[o].sub \/ orgs'[o].doomed
                               /\ orgs[o].doomed => orgs'[o].doomed
                               /\ orgs[o].demoted => orgs'[o].demoted
    BY <1>1, <1>5 DEF SubBecomes
  <2> QED BY <1>1, <1>3, <2>1, <2>2, NoNew, StandingSettled DEF OrgsFaithful
<1>7. FreshInv' /\ UniqueInv' /\ OwnerInv'
  BY <1>1, <1>2, <1>3, <1>6, FreshQuiet, UniqueQuiet, OwnerQuiet DEF Owners, MembersOf
<1>8. SeatInv'
  BY <1>1, <1>2, <1>3, <1>6, FewerMembers, SeatQuiet
<1>9. CompleteInv'
  <2>1. SettledSound'
    BY <1>4, <1>6 DEF SettledSound, SettledKept, OrgsFaithful, NewSound
  <2>2. ClearsSound'
    <3> SUFFICES ASSUME NEW q \in Handlers, Clears(q)' PROVE orgs'[proc'[q].org].doomed
      BY DEF ClearsSound
    <3>1. Clears(q) /\ proc'[q].org = proc[q].org
      BY DropSubClears
    <3>2. proc[q].org \in DOMAIN orgs
      BY <3>1, JoinsIn
    <3> QED BY <1>4, <1>6, <3>1, <3>2 DEF ClearsSound, OrgsFaithful
  <2> QED BY <1>3, <1>4, <1>6, <2>1, <2>2, JoinsQuiet, CompleteIsNext
<1> QED BY <1>7, <1>8, <1>9 DEF MemberInv

LEMMA MemberNext ==
  ASSUME ProcInv, RefInv, ProcInv', RefInv', menu \in Menus, MemberInv, Catalogued
  PROVE  MemberInv'
<1>1. ASSUME Calm, orgs' = orgs, members' = members, sessions' = sessions, slips' = slips PROVE MemberInv'
  BY <1>1, CalmSettled, OrgsAsTheyWere, MemberCalm
<1>2. CASE Still
  BY <1>1, <1>2 DEF Still, Stored
<1>3. CASE Ageing
  BY <1>1, <1>3, CodeExpiresRows DEF Ageing, RestOfCodes
<1>4. CASE Steadily
  <2> PICK p \in Handlers : CodeStep(p) \/ OrgStep(p) \/ PeopleStep(p) \/ TokenStep(p)
    BY <1>4 DEF Steadily
  <2>1. Calm
    BY <1>4 DEF Steadily
  <2>2. CASE CodeStep(p)
    BY <1>1, <2>1, <2>2, StoreCodeRows, CountRows, SpendRows, SweepCodesRows DEF CodeStep, RestOfCodes
  <2>3. CASE OrgStep(p)
    BY <2>1, <2>3, MemberOrgs
  <2>4. CASE PeopleStep(p)
    BY <2>1, <2>4, MemberAdd, MemberDrop, MemberSetRole, MemberDropMembers, MemberAdminCreate DEF PeopleStep
  <2>5. CASE TokenStep(p)
    BY <2>1, <2>5, MemberTokens
  <2> QED BY <2>2, <2>3, <2>4, <2>5
<1>5. ASSUME NEW p \in Handlers, HeldStep(p) PROVE MemberInv'
  <2>1. CASE FindCode(p)
    <3>1. NewOnly({"count", "spend"}) /\ orgs' = orgs /\ members' = members /\ sessions' = sessions /\ slips' = slips
      BY <2>1, FindCodeNew, FindCodeRows DEF RestOfCodes
    <3>2. "sign" \in Claims /\ "sign" \notin {"count", "spend"}
      BY HeldNamed
    <3>3. NoneTo("sign")
      BY <3>1, <3>2, NewNone, Zenon
    <3> QED BY <3>1, <3>3, StandingSettled, OrgsAsTheyWere, MemberPlain
  <2> QED BY <1>5, <2>1, MemberFindHome, MemberMakeOrg, MemberSubscribe, MemberJoin, MemberSeats, MemberFindMember,
             MemberCut, MemberDropSub DEF HeldStep
<1> QED BY <1>2, <1>3, <1>4, <1>5 DEF Catalogued

(* The first persons have seats, and each organisation an owner.           *)
LEMMA InitMember == Init => MemberInv
<1> SUFFICES ASSUME Init PROVE MemberInv
  OBVIOUS
<1>1. \A p \in Handlers : \A s : ~At(p, s)
  BY InitNowhere
<1>2. \A o \in DOMAIN orgs : orgs[o].sub
  BY InitOrgs, NewOrgFields
<1>3. FreshInv
  BY <1>1 DEF FreshInv, Founds
<1>4. CompleteInv
  <2>1. JoinsSound
    BY <1>1 DEF JoinsSound
  <2>2. ClearsSound
    BY <1>1, Zenon DEF ClearsSound, Clears
  <2>3. SettledSound
    BY <1>2 DEF SettledSound
  <2> QED BY <2>1, <2>2, <2>3, CompleteIs
<1>5. SeatInv
  <2> SUFFICES ASSUME NEW o \in DOMAIN orgs PROVE SeatsFit(o)
    BY SeatIs
  <2> DEFINE S == {u \in DOMAIN menu.owners : menu.owners[u] = o}
             f == [u \in S |-> FirstMember(u)]
             T == {f[u] : u \in S}
             a == Cardinality(MembersOf(o))
             b == Cardinality(Adding(o))
             h == slips.seat
  <2>1. IsFiniteSet(S) /\ Cardinality(S) \in Nat
    BY InitMenu, FS_Subset, FS_CardinalityType
  <2>2. Cardinality(S) <= Seats
    BY InitMenu, InitOrgs, AccountsAssumption
  <2>3. MembersOf(o) \subseteq T
    <3> SUFFICES ASSUME NEW m \in members, m.org = o PROVE m \in T
      BY DEF MembersOf
    <3>1. PICK u \in DOMAIN menu.owners : m = FirstMember(u)
      BY InitMembers
    <3>2. u \in S
      BY <3>1, InitMembers
    <3>3. f[u] = m
      BY <3>1, <3>2
    <3> HIDE DEF S, f
    <3> QED BY <3>2, <3>3
  <2>4. f \in [S -> {f[u] : u \in S}]
    OBVIOUS
  <2> HIDE DEF S, f
  <2>5. IsFiniteSet(T) /\ Cardinality(T) <= Cardinality(S)
    BY <2>1, <2>4, ImageFinite
  <2> HIDE DEF T
  <2>6. a <= Cardinality(T) /\ a \in Nat /\ Cardinality(T) \in Nat
    BY <2>3, <2>5, FS_Subset, FS_CardinalityType
  <2>7. b = 0
    <3>1. Adding(o) = {}
      BY <1>1 DEF Adding
    <3> QED BY <3>1, FS_EmptySet
  <2>8. h \in Nat /\ Seats \in Nat
    BY AccountsAssumption DEF Init, AccountsInit
  <2> HIDE DEF a, b, h
  <2>9. a + b <= Seats + h
    BY <2>1, <2>2, <2>5, <2>6, <2>7, <2>8
  <2> QED BY <2>9 DEF a, b, h, SeatsFit
<1>6. UniqueInv
  BY InitMembers DEF UniqueInv
<1>7. OwnerInv
  <2> SUFFICES ASSUME NEW o \in DOMAIN orgs PROVE Governed(o)
    BY OwnerIs
  <2>1. PICK u \in DOMAIN menu.owners : menu.owners[u] = o
    BY InitMenu, InitOrgs
  <2>2. FirstMember(u) \in Owners(o)
    BY <2>1, InitMembers DEF Owners, MembersOf
  <2>3. ~Dropping(FirstMember(u))
    BY <1>1 DEF Dropping
  <2> QED BY <2>2, <2>3 DEF Governed
<1> QED BY <1>3, <1>4, <1>5, <1>6, <1>7 DEF MemberInv

LEMMA MemberStable == Core /\ HomeInv /\ MemberInv /\ [Next]_vars => HomeInv' /\ MemberInv'
<1> SUFFICES ASSUME Core, HomeInv, MemberInv, [Next]_vars PROVE HomeInv' /\ MemberInv'
  OBVIOUS
<1>1. ProcInv /\ RefInv /\ menu \in Menus /\ Catalogued /\ ProcInv' /\ RefInv'
  BY CoreNext DEF Core
<1>2. RowInv'
  BY <1>1 DEF RefInv
<1> QED BY <1>1, <1>2, HomeNext, MemberNext

LEMMA MemberSafe == Core /\ HomeInv /\ MemberInv => MembershipsSound
<1> SUFFICES ASSUME Core, HomeInv, MemberInv PROVE MembershipsSound
  OBVIOUS
<1>1. CompleteInv /\ SeatInv /\ OwnerInv /\ RowInv
  BY DEF MemberInv, Core, RefInv
<1>2. OneHome
  BY HomeSafe
<1>3. HomesComplete
  BY <1>1, SettledBy DEF HomesComplete, CompleteInv, RowInv
<1>4. SeatBound
  <2> SUFFICES ASSUME NEW o \in DOMAIN orgs, ~orgs[o].doomed PROVE Cardinality(MembersOf(o)) <= Seats + slips.seat
    BY DEF SeatBound
  <2> DEFINE a == Cardinality(MembersOf(o))
             b == Cardinality(Adding(o))
             h == slips.seat
  <2>1. a + b <= Seats + h /\ a \in Nat /\ b \in Nat /\ h \in Nat /\ Seats \in Nat
    BY <1>1, MembersFinite, AddingFinite, AccountsAssumption DEF SeatInv, RowInv
  <2> HIDE DEF a, b, h
  <2>2. a <= Seats + h
    BY <2>1
  <2> QED BY <2>2 DEF a, h
<1>5. OwnerRemains
  <2> SUFFICES ASSUME NEW o \in DOMAIN orgs, MembersOf(o) # {}, ~orgs[o].demoted, ~orgs[o].doomed PROVE Owners(o) # {}
    BY DEF OwnerRemains
  <2>1. Governed(o)
    BY <1>1, OwnerIs DEF Settled
  <2> QED BY <2>1 DEF Governed
<1> QED BY <1>2, <1>3, <1>4, <1>5 DEF MembershipsSound

(* Signing in founds one organisation for a person but for first sign-ins  *)
(* that overlapped, nobody is in a half-made organisation, the members fit *)
(* the plan but for invitations that overlapped, and an organisation keeps *)
(* an owner unless a change of role took it away: whatever crashes, and    *)
(* whichever sign-ins, invitations, removals and deletions overlap.        *)
THEOREM MembershipsStaySound == Spec => []MembershipsSound
<1>1. Init => HomeInv /\ MemberInv
  BY InitHome, InitMember
<1>2. Core /\ HomeInv /\ MemberInv /\ [Next]_vars => HomeInv' /\ MemberInv'
  BY MemberStable
<1>3. Core /\ HomeInv /\ MemberInv => MembershipsSound
  BY MemberSafe
<1> QED BY <1>1, <1>2, <1>3, CoreInvariant, PTL DEF Spec
=============================================================================
