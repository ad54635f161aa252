------------------------------ MODULE Accounts ------------------------------
(***************************************************************************)
(* Who is who: codes by mail and Google sign-in, the organisation a first  *)
(* sign-in founds, memberships, sessions and their revocation.  Names,     *)
(* slugs and Google ids are left out; plans are one number of seats.       *)
(***************************************************************************)
EXTENDS Requests

CONSTANTS Attempts, \* wrong codes, 5, before a code is dead
          Seats,    \* seats of the plan
          MaxNow,   \* bound: the end of time, in half seconds
          Staff     \* the people who are super-admins

VARIABLES
  users,     \* the people who have a row in users
  codes,     \* otp_tokens, by id; state "gone" when deleted
  orgs,      \* orgs, by id, with their subscription and the revocation key in Redis
  members,   \* org_memberships
  sessions,  \* the tokens signed, with the revocation key of each
  now,       \* the time
  slips      \* ghost: what overlapping requests have read in the same state

accounts == <<users, codes, orgs, members, sessions, now, slips>>

\* The first persons of a menu have seats, in organisations numbered from 1.
ASSUME AccountsAssumption ==
  /\ Attempts \in Nat \ {0} /\ Seats \in Nat \ {0} /\ MaxNow \in Nat
  /\ \A m \in Menus : /\ m.people \subseteq Nat /\ m.owners \in Seq(Nat) /\ m.calls \in Nat
                      /\ Range(m.owners) = 1..Cardinality(Range(m.owners))
                      /\ \A o \in Range(m.owners) : Cardinality({u \in DOMAIN m.owners : m.owners[u] = o}) <= Seats

Roles == {"owner", "admin"}
Week == 6     \* stand for 7 days and 1 hour; a second is 2
Hour == 2
Second(t) == t - (t % 2)

Code(u) == [user |-> u, state |-> "live", late |-> FALSE, tries |-> 0,
            reads |-> 0, overlaps |-> 0, settled |-> 0]
NewOrg(sub) == [status |-> "open", sub |-> sub, cutAt |-> 0, cutUntil |-> 0, doomed |-> FALSE, demoted |-> FALSE]
Member(p, o, u, role, made) == [id |-> proc[p].no, org |-> o, user |-> u, role |-> role, made |-> made]
\* at: when it was signed; denied: until when its key in Redis revokes it; ghost out: it logged out.
Session(u, o, role, at, life) ==
  [user |-> u, org |-> o, role |-> role, staff |-> u \in Staff, at |-> at, exp |-> Second(at) + life, denied |-> 0, out |-> FALSE]

MembersOf(o) == {m \in members : m.org = o}
Owners(o) == {m \in MembersOf(o) : m.role = "owner"}
RowOf(o, u) == {m \in MembersOf(o) : m.user = u}
Exists(o) == o \in DOMAIN orgs /\ orgs[o].status # "gone"

\* The people, organisations and sessions the menu begins with: the first person of an
\* organisation founded it, the others were invited and made owners.
AccountsInit ==
  LET owners == menu.owners
      made(u) == \A v \in 1..u - 1 : owners[v] # owners[u] IN
  /\ users = DOMAIN owners /\ codes = <<>> /\ now = 1
  /\ orgs = [o \in Range(owners) |-> NewOrg(TRUE)]
  /\ members = {[id |-> 0, org |-> owners[u], user |-> u, role |-> "owner", made |-> made(u)] : u \in DOMAIN owners}
  /\ sessions = [u \in DOMAIN owners |-> Session(u, owners[u], "owner", 0, Week)]
  /\ slips = [home |-> 0, seat |-> 0]

(***************************************************************************)
(* Admission: verifyToken, the two revocation keys, and the organisation.  *)
(***************************************************************************)
Accepted(s) ==
  LET t == sessions[s]
      o == orgs[t.org] IN
  /\ Second(now) < t.exp
  /\ t.denied <= now
  /\ ~(now < o.cutUntil /\ Second(t.at) < o.cutAt)
Entitled(o) == orgs[o].sub /\ orgs[o].status = "open"

Ask(p, kind, request) == Begin(p, kind, request) /\ UNCHANGED accounts
Enter(p) ==
  LET s == proc[p].by IN
  /\ At(p, "enter")
  /\ proc' = IF Accepted(s) /\ Entitled(sessions[s].org) THEN Advance(p) ELSE Ended(p)
  /\ Going /\ UNCHANGED accounts
OwnersOnly == {"invite", "remove", "role"}
Context(p) ==
  LET s == proc[p].by IN
  /\ At(p, "context")
  /\ proc' = IF Accepted(s) /\ (proc[p].op \in OwnersOnly => sessions[s].role = "owner")
               THEN Advance(p) ELSE Ended(p)
  /\ Going /\ UNCHANGED accounts

(***************************************************************************)
(* Sign-in by code.                                                        *)
(***************************************************************************)
Send(p) == \E u \in menu.people :
  Ask(p, "send", [Idle EXCEPT !.op = "send", !.who = u, !.todo = <<"upsert user", "store code">>])
UpsertUser(p) ==
  /\ At(p, "upsert user")
  /\ users' = users \cup {proc[p].who} /\ proc' = Advance(p)
  /\ Going /\ UNCHANGED <<codes, orgs, members, sessions, now, slips>>
StoreCode(p) ==
  /\ At(p, "store code")
  /\ codes' = Append(codes, Code(proc[p].who)) /\ proc' = Advance(p)
  /\ Going /\ UNCHANGED <<users, orgs, members, sessions, now, slips>>

Verify(p) == \E u \in menu.people :
  Ask(p, "verify", [Idle EXCEPT !.op = "verify", !.who = u, !.todo = <<"find code">>])
\* reads, overlaps, settled: ghosts, the comparisons with a code, those that began during
\* another one, and those that came to their end.
Comparing(k) == {p \in Busy : proc[p].op = "verify" /\ proc[p].id = k /\ (At(p, "count") \/ At(p, "spend"))}
\* The newest code still good, compared with the one typed.
FindCode(p) ==
  LET good == {k \in DOMAIN codes : codes[k].user = proc[p].who /\ codes[k].state = "live" /\ ~codes[k].late}
      k == Max(good) IN
  /\ At(p, "find code")
  /\ \/ good = {} /\ proc' = Ended(p) /\ UNCHANGED codes
     \/ /\ good # {}
        /\ \E program \in {<<"spend", "sweep codes", "home">>, <<"count">>} :
             proc' = [proc EXCEPT ![p].todo = program, ![p].id = k, ![p].saw = codes[k].tries]
        /\ codes' = [codes EXCEPT ![k].reads = @ + 1,
                       ![k].overlaps = @ + Cardinality(Comparing(k) \ {p})]
  /\ Going /\ UNCHANGED <<users, orgs, members, sessions, now, slips>>
\* Mutant: the sixth wrong code is the first refused.
CountOneMore(p) ==
  LET k == proc[p].id
      tries == proc[p].saw + 1 IN
  /\ At(p, "count")
  /\ codes' = [codes EXCEPT ![k].tries = tries, ![k].settled = @ + 1,
                      ![k].state = IF tries > Attempts THEN "used" ELSE @]
  /\ proc' = Advance(p)
  /\ Going /\ UNCHANGED <<users, orgs, members, sessions, now, slips>>
\* update by id of the row read before: it throws when another sign-in deleted it.
Count(p) ==
  LET k == proc[p].id
      tries == proc[p].saw + 1 IN
  /\ At(p, "count")
  /\ IF codes[k].state = "gone" THEN proc' = Thrown(p) /\ UNCHANGED codes
     ELSE /\ codes' = [codes EXCEPT ![k].tries = tries, ![k].settled = @ + 1,
                      ![k].state = IF tries >= Attempts THEN "used" ELSE @]
          /\ proc' = Advance(p)
  /\ Going /\ UNCHANGED <<users, orgs, members, sessions, now, slips>>
Spend(p) ==
  LET k == proc[p].id IN
  /\ At(p, "spend")
  /\ IF codes[k].state = "gone" THEN proc' = Thrown(p) /\ UNCHANGED codes
     ELSE codes' = [codes EXCEPT ![k].state = "used", ![k].settled = @ + 1] /\ proc' = Advance(p)
  /\ Going /\ UNCHANGED <<users, orgs, members, sessions, now, slips>>
SweepCodes(p) ==
  /\ At(p, "sweep codes")
  /\ codes' = [k \in DOMAIN codes |->
       IF codes[k].user = proc[p].who /\ k # proc[p].id /\ (codes[k].state = "used" \/ codes[k].late)
         THEN [codes[k] EXCEPT !.state = "gone"] ELSE codes[k]]
  /\ proc' = Advance(p)
  /\ Going /\ UNCHANGED <<users, orgs, members, sessions, now, slips>>

(***************************************************************************)
(* Sign-in by Google, and what both ways share: the membership, or a new   *)
(* organisation on trial, written by three separate statements.            *)
(***************************************************************************)
Google(p) == \E u \in menu.people :
  Ask(p, "google", [Idle EXCEPT !.op = "google", !.who = u, !.todo = <<"find user">>])
FindUser(p) ==
  /\ At(p, "find user")
  /\ proc' = Goes(p, IF proc[p].who \in users THEN <<"home">> ELSE <<"make user", "home">>)
  /\ Going /\ UNCHANGED accounts
MakeUser(p) ==
  /\ At(p, "make user")
  /\ users' = users \cup {proc[p].who}
  /\ proc' = IF proc[p].who \in users THEN Thrown(p) ELSE Advance(p)
  /\ Going /\ UNCHANGED <<codes, orgs, members, sessions, now, slips>>

\* What is left to do for a token: a verify writes lastLoginAt first.
Signs(p) == IF proc[p].op = "verify" THEN <<"sign">> ELSE <<>>
SignedNow(p, o, role) ==
  sessions' = IF proc[p].op = "verify" THEN sessions
              ELSE Append(sessions, Session(proc[p].who, o, role, now, Week))
Founding == <<"make org", "subscribe", "join">>
FoundsFor(u) == {q \in Busy : proc[q].op \in {"verify", "google"} /\ proc[q].who = u /\ Awaits(q, "join")}
Home(p, program, homes) ==
  /\ At(p, "home")
  /\ \/ /\ homes = {}
        /\ proc' = Goes(p, program \o Signs(p))
        /\ slips' = [slips EXCEPT !.home = @ + Cardinality(FoundsFor(proc[p].who))]
        /\ UNCHANGED sessions
     \/ \E m \in homes :
          /\ proc' = IF Signs(p) = <<>> THEN Ended(p)
                     ELSE [proc EXCEPT ![p].todo = Signs(p), ![p].org = m.org, ![p].saw = IF m.role = "owner" THEN 1 ELSE 0]
          /\ SignedNow(p, m.org, m.role) /\ UNCHANGED slips
  /\ Going /\ UNCHANGED <<users, codes, orgs, members, now>>
HomesOf(u) == {m \in members : m.user = u}
\* Mutant: a suspended organisation does not count.
FindHomeOpen(p) == Home(p, Founding, {m \in HomesOf(proc[p].who) : orgs[m.org].status # "suspended"})
\* Mutant: the membership is created before the subscription.
FindHomeJoinFirst(p) == Home(p, <<"make org", "join", "subscribe">>, HomesOf(proc[p].who))
FindHome(p) == Home(p, Founding, HomesOf(proc[p].who))
MakeOrg(p) ==
  /\ At(p, "make org")
  /\ orgs' = Append(orgs, NewOrg(FALSE))
  /\ proc' = [proc EXCEPT ![p].todo = Tail(@), ![p].org = Len(orgs) + 1, ![p].saw = 1]
  /\ Going /\ UNCHANGED <<users, codes, members, sessions, now, slips>>
\* The foreign key restricts: an organisation deleted in between is an error.
SubscribeOrg(p) ==
  LET o == proc[p].org IN
  /\ At(p, "subscribe")
  /\ IF Exists(o) THEN orgs' = [orgs EXCEPT ![o].sub = TRUE] /\ proc' = Advance(p)
     ELSE proc' = Thrown(p) /\ UNCHANGED orgs
  /\ Going /\ UNCHANGED <<users, codes, members, sessions, now, slips>>
Join(p) ==
  LET o == proc[p].org
      u == proc[p].who IN
  /\ At(p, "join")
  /\ IF Exists(o) THEN /\ members' = members \cup {Member(p, o, u, "owner", TRUE)}
                       /\ proc' = Advance(p) /\ SignedNow(p, o, "owner")
     ELSE proc' = Thrown(p) /\ UNCHANGED <<members, sessions>>
  /\ Going /\ UNCHANGED <<users, codes, orgs, now, slips>>
Sign(p) ==
  /\ At(p, "sign")
  /\ sessions' = Append(sessions, Session(proc[p].who, proc[p].org, IF proc[p].saw = 1 THEN "owner" ELSE "admin", now, Week))
  /\ proc' = Advance(p)
  /\ Going /\ UNCHANGED <<users, codes, orgs, members, now, slips>>

(***************************************************************************)
(* The owner's mutations of the memberships.                               *)
(***************************************************************************)
OwnersAsk(p, kind, u, saw, program) == \E s \in DOMAIN sessions :
  Ask(p, kind, [Idle EXCEPT !.op = kind, !.by = s, !.who = u, !.org = sessions[s].org, !.saw = saw,
                            !.todo = <<"enter", "context">> \o program])
Invite(p) == \E u \in menu.people :
  OwnersAsk(p, "invite", u, 0, <<"upsert user", "not a member", "seats", "add">>)
NotAMember(p) ==
  /\ At(p, "not a member")
  /\ proc' = IF RowOf(proc[p].org, proc[p].who) = {} THEN Advance(p) ELSE Ended(p)
  /\ Going /\ UNCHANGED accounts
Adding(o) == {q \in Handlers : At(q, "add") /\ proc[q].org = o}
\* Mutant: one seat too many.
CountSeatsLoosely(p) ==
  LET o == proc[p].org IN
  /\ At(p, "seats")
  /\ IF Cardinality(MembersOf(o)) > Seats THEN proc' = Ended(p) /\ UNCHANGED slips
     ELSE proc' = Advance(p) /\ slips' = [slips EXCEPT !.seat = @ + Cardinality(Adding(o))]
  /\ Going /\ UNCHANGED <<users, codes, orgs, members, sessions, now>>
\* Without a subscription there is no limit.
CountSeats(p) ==
  LET o == proc[p].org IN
  /\ At(p, "seats")
  /\ IF orgs[o].sub /\ Cardinality(MembersOf(o)) >= Seats THEN proc' = Ended(p) /\ UNCHANGED slips
     ELSE proc' = Advance(p) /\ slips' = [slips EXCEPT !.seat = @ + Cardinality(Adding(o))]
  /\ Going /\ UNCHANGED <<users, codes, orgs, members, sessions, now>>
Add(p) ==
  LET o == proc[p].org
      u == proc[p].who IN
  /\ At(p, "add")
  /\ IF Exists(o) /\ RowOf(o, u) = {}
       THEN members' = members \cup {Member(p, o, u, "admin", FALSE)} /\ proc' = Advance(p)
       ELSE proc' = Thrown(p) /\ UNCHANGED members
  /\ Going /\ UNCHANGED <<users, codes, orgs, sessions, now, slips>>

Remove(p) == \E u \in menu.people : OwnersAsk(p, "remove", u, 0, <<"find member", "drop">>)
FoundMember(p, removable) ==
  /\ At(p, "find member")
  /\ \/ removable = {} /\ proc' = Ended(p)
     \/ \E m \in removable : proc' = [proc EXCEPT ![p].todo = Tail(@), ![p].id = m.id]
  /\ Going /\ UNCHANGED accounts
NotSelf(p) == {m \in RowOf(proc[p].org, proc[p].who) : m.user # sessions[proc[p].by].user}
\* Mutant: an owner may be removed.
FindMemberAnyRole(p) == FoundMember(p, NotSelf(p))
FindMember(p) == FoundMember(p, {m \in NotSelf(p) : m.role # "owner"})
\* delete by id: nobody's membership but the one that was read.
Drop(p) ==
  LET row == {m \in members : m.id = proc[p].id /\ m.org = proc[p].org /\ m.user = proc[p].who} IN
  /\ At(p, "drop")
  /\ IF row = {} THEN proc' = Thrown(p) /\ UNCHANGED members
     ELSE members' = members \ row /\ proc' = Advance(p)
  /\ Going /\ UNCHANGED <<users, codes, orgs, sessions, now, slips>>

\* saw: the role asked for; 1 owner, 0 admin, 2 anything else.
ChangeRole(p) == \E u \in menu.people, r \in 0..2 : OwnersAsk(p, "role", u, r, <<"set role">>)
RoleAsked(p) == CASE proc[p].saw = 1 -> "owner" [] proc[p].saw = 0 -> "admin" [] OTHER -> "other"
RoleSet(p, valid) ==
  LET o == proc[p].org
      row == RowOf(o, proc[p].who) IN
  /\ At(p, "set role")
  /\ IF row = {} \/ RoleAsked(p) \notin valid
       THEN proc' = Thrown(p) /\ UNCHANGED <<members, orgs>>
       ELSE /\ members' = {IF m \in row THEN [m EXCEPT !.role = RoleAsked(p)] ELSE m : m \in members}
            /\ orgs' = [orgs EXCEPT ![o].demoted = @ \/ (RoleAsked(p) # "owner" /\ row \cap Owners(o) # {})]
            /\ proc' = Advance(p)
  /\ Going /\ UNCHANGED <<users, codes, sessions, now, slips>>
\* Mutant: any text is taken for a role.
SetRoleUnchecked(p) == RoleSet(p, Roles \cup {"other"})
SetRole(p) == RoleSet(p, Roles)

(***************************************************************************)
(* Revocation: logout, suspension, deletion; impersonation; the clock.     *)
(***************************************************************************)
Logout(p) == \E s \in DOMAIN sessions :
  Ask(p, "logout", [Idle EXCEPT !.op = "logout", !.by = s, !.todo = <<"leave", "revoke token">>])
Leave(p) ==
  /\ At(p, "leave")
  /\ proc' = IF Accepted(proc[p].by) THEN Advance(p) ELSE Ended(p)
  /\ Going /\ UNCHANGED accounts
Left(s) == IF sessions[s].exp > Second(now) THEN sessions[s].exp - Second(now) ELSE 0
Revoked(p, life) ==
  LET s == proc[p].by IN
  /\ At(p, "revoke token")
  /\ sessions' = [sessions EXCEPT ![s].denied = now + life, ![s].out = TRUE]
  /\ proc' = Advance(p)
  /\ Going /\ UNCHANGED <<users, codes, orgs, members, now, slips>>
\* Mutant: Math.min for Math.max.
RevokeTokenAtMostASecond(p) == Revoked(p, Min({2, Left(proc[p].by)}))
RevokeToken(p) == Revoked(p, Max({2, Left(proc[p].by)}))

AdminAsks(p, kind, program) == \E o \in DOMAIN orgs :
  Ask(p, kind, [Idle EXCEPT !.op = kind, !.org = o, !.todo = program])
Suspend(p) == AdminAsks(p, "suspend", <<"suspend", "cut">>)
Reset(p) == AdminAsks(p, "reset", <<"reset">>)
Delete(p) == AdminAsks(p, "delete", <<"cut", "drop sub", "drop members", "drop org">>)
Impersonate(p) == AdminAsks(p, "impersonate", <<"impersonate">>)

\* An update of a row that is not there is an error; a deleteMany is not.
OrgUpdate(p, step, o, row) ==
  /\ At(p, step)
  /\ IF Exists(o) THEN orgs' = [orgs EXCEPT ![o] = row] /\ proc' = Advance(p)
     ELSE proc' = Thrown(p) /\ UNCHANGED orgs
  /\ Going /\ UNCHANGED <<users, codes, members, sessions, now, slips>>
SuspendOrg(p) == LET o == proc[p].org IN
  OrgUpdate(p, "suspend", o, [orgs[o] EXCEPT !.status = "suspended"])
ResetOrg(p) == LET o == proc[p].org IN
  OrgUpdate(p, "reset", o, [orgs[o] EXCEPT !.status = IF orgs[o].sub THEN "open" ELSE @])
Cut(p, life) ==
  LET o == proc[p].org IN
  /\ At(p, "cut")
  /\ orgs' = [orgs EXCEPT ![o].cutAt = now, ![o].cutUntil = now + life,
                          ![o].doomed = @ \/ proc[p].op = "delete"]
  /\ proc' = Advance(p)
  /\ Going /\ UNCHANGED <<users, codes, members, sessions, now, slips>>
\* Mutant: the key of the organisation is kept for less than a token lives.
CutBriefly(p) == Cut(p, Hour)
CutOrg(p) == Cut(p, Week)
DropSub(p) ==
  /\ At(p, "drop sub")
  /\ orgs' = [orgs EXCEPT ![proc[p].org].sub = FALSE] /\ proc' = Advance(p)
  /\ Going /\ UNCHANGED <<users, codes, members, sessions, now, slips>>
DropMembers(p) ==
  /\ At(p, "drop members")
  /\ members' = members \ MembersOf(proc[p].org) /\ proc' = Advance(p)
  /\ Going /\ UNCHANGED <<users, codes, orgs, sessions, now, slips>>
\* Restricted by any row of the organisation: a member, a subscription, its data.
DropOrg(p) ==
  LET o == proc[p].org IN
  /\ At(p, "drop org")
  /\ \/ ~Exists(o) /\ proc' = Thrown(p) /\ UNCHANGED orgs
     \/ Exists(o) /\ proc' = Thrown(p) /\ UNCHANGED orgs
     \/ /\ Exists(o) /\ MembersOf(o) = {} /\ ~orgs[o].sub
        /\ orgs' = [orgs EXCEPT ![o].status = "gone"] /\ proc' = Advance(p)
  /\ Going /\ UNCHANGED <<users, codes, members, sessions, now, slips>>
\* A token for one hour, in the name of some member.
ImpersonateMember(p) ==
  LET o == proc[p].org IN
  /\ At(p, "impersonate")
  /\ \/ MembersOf(o) = {} /\ UNCHANGED sessions
     \/ \E m \in MembersOf(o) :
          IF m.user \in Staff THEN UNCHANGED sessions
          ELSE sessions' = Append(sessions, Session(m.user, o, m.role, now, Hour))
  /\ proc' = Ended(p)
  /\ Going /\ UNCHANGED <<users, codes, orgs, members, now, slips>>
\* One transaction: the organisation, its owner and the subscription.
AdminCreate(p) == \E u \in menu.people :
  /\ Begin(p, "found", [Idle EXCEPT !.op = "found", !.org = Len(orgs) + 1, !.who = u])
  /\ orgs' = Append(orgs, NewOrg(TRUE)) /\ users' = users \cup {u}
  /\ members' = members \cup {[id |-> calls + 1, org |-> Len(orgs) + 1, user |-> u, role |-> "owner", made |-> FALSE]}
  /\ UNCHANGED <<codes, sessions, now, slips>>

Tick ==
  /\ "tick" \in menu.kinds /\ now < MaxNow /\ now' = now + 1
  /\ UNCHANGED <<requests, users, codes, orgs, members, sessions, slips>>
\* Five minutes pass for a code.
CodeExpires ==
  /\ "late" \in menu.kinds
  /\ \E k \in DOMAIN codes : ~codes[k].late /\ codes' = [codes EXCEPT ![k].late = TRUE]
  /\ UNCHANGED <<requests, users, orgs, members, sessions, now, slips>>

AccountsStep(p) ==
  \/ Send(p) \/ UpsertUser(p) \/ StoreCode(p)
  \/ Verify(p) \/ FindCode(p) \/ Count(p) \/ Spend(p) \/ SweepCodes(p)
  \/ Google(p) \/ FindUser(p) \/ MakeUser(p)
  \/ FindHome(p) \/ MakeOrg(p) \/ SubscribeOrg(p) \/ Join(p) \/ Sign(p)
  \/ Invite(p) \/ NotAMember(p) \/ CountSeats(p) \/ Add(p)
  \/ Remove(p) \/ FindMember(p) \/ Drop(p) \/ ChangeRole(p) \/ SetRole(p)
  \/ Logout(p) \/ Leave(p) \/ RevokeToken(p)
  \/ Suspend(p) \/ SuspendOrg(p) \/ Reset(p) \/ ResetOrg(p) \/ Delete(p) \/ CutOrg(p)
  \/ DropSub(p) \/ DropMembers(p) \/ DropOrg(p)
  \/ Impersonate(p) \/ ImpersonateMember(p) \/ AdminCreate(p)

-----------------------------------------------------------------------------
\* A code is compared with at most Attempts guesses, and with one more for every time two
\* verifications of it overlapped, or one was cut off before it had counted.
CutOff(k) == codes[k].reads - codes[k].settled - Cardinality(Comparing(k))
CodeGuesses == \A k \in DOMAIN codes : codes[k].reads <= Attempts + codes[k].overlaps + CutOff(k)

\* Signing in founds one organisation for a person, and one more for every time two
\* first sign-ins overlapped, whatever crashes and whoever else invites the person.
OneHome == \A u \in users : Cardinality({m \in HomesOf(u) : m.made}) <= 1 + slips.home

\* An organisation with members has a subscription, unless it is being deleted: a crash
\* between the statements of a first sign-in leaves nobody in a half-made organisation.
HomesComplete == \A m \in members : orgs[m.org].sub \/ orgs[m.org].doomed

\* The members fit the plan's seats, but for the invitations that overlapped.
SeatBound == \A o \in DOMAIN orgs : ~orgs[o].doomed => Cardinality(MembersOf(o)) <= Seats + slips.seat

\* An organisation with members has an owner, unless a change of role took it
\* away or the organisation is being deleted.
OwnerRemains == \A o \in DOMAIN orgs :
  MembersOf(o) # {} /\ ~orgs[o].demoted /\ ~orgs[o].doomed => Owners(o) # {}

\* A token signed before its organisation was suspended or deleted is refused from then
\* on, also when the revocation key has expired or the organisation is open again.
RevokedStayOut == \A s \in DOMAIN sessions :
  sessions[s].at < orgs[sessions[s].org].cutAt => ~Accepted(s)

\* A token that logged out is never accepted again.
LoggedOutStaysOut == \A s \in DOMAIN sessions : sessions[s].out => ~Accepted(s)

\* Memberships stay sound while sign-ins, invitations, removals and deletions overlap.
MembershipsSound == OneHome /\ HomesComplete /\ SeatBound /\ OwnerRemains

\* What was revoked, of an organisation or of one token, stays out.
StayOut == RevokedStayOut /\ LoggedOutStaysOut
=============================================================================
