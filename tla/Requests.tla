------------------------------ MODULE Requests ------------------------------
(***************************************************************************)
(* A process that serves requests: each handler is the sequence of its     *)
(* awaits still to come, and any other handler may run before each one.    *)
(* What the kinds of requests do is in the modules that extend this one.   *)
(***************************************************************************)
EXTENDS Naturals, Sequences, FiniteSets, FiniteSetsExt, Functions

CONSTANTS
  Handlers,   \* requests that can be under way at once
  MaxFaults,  \* bound: crashes and failures
  Menus       \* bound: [kinds, people, owners, filters, calls]: the requests that come,
              \* of whom, the organisations of the first persons, the filters asked for,
              \* how many requests

VARIABLES
  menu,    \* the menu of this behaviour
  proc,    \* proc[p]: the request p is in
  calls,   \* requests begun so far
  faults   \* faults so far

ASSUME RequestsAssumption == Handlers \subseteq Nat /\ IsFiniteSet(Handlers) /\ MaxFaults \in Nat

requests == <<menu, proc, calls, faults>>

\* no: the number of the request; by: the session, or the person, it comes from;
\* who, org, id: what it is about; saw: what it read; todo: its awaits;
\* marks, locks: rows its transaction has read to write, and has written.
Idle == [op |-> "idle", no |-> 0, by |-> 0, who |-> 0, org |-> 0, id |-> 0, saw |-> 0,
         todo |-> <<>>, marks |-> {}, locks |-> {}]

At(p, step) == proc[p].todo # <<>> /\ Head(proc[p].todo) = step
Busy == {p \in Handlers : proc[p].todo # <<>>}
Others(p) == Busy \ {p}
Awaits(p, step) == \E i \in DOMAIN proc[p].todo : proc[p].todo[i] = step

\* Handlers are interchangeable: the first free one takes the request.
Begin(p, kind, request) ==
  /\ kind \in menu.kinds
  /\ calls < menu.calls /\ calls' = calls + 1
  /\ p \notin Busy /\ \A q \in Handlers \ Busy : p <= q
  /\ proc' = [proc EXCEPT ![p] = [request EXCEPT !.no = calls + 1]]
  /\ UNCHANGED <<menu, faults>>
Ended(p) == [proc EXCEPT ![p] = Idle]
Advance(p) == IF Len(proc[p].todo) = 1 THEN Ended(p) ELSE [proc EXCEPT ![p].todo = Tail(@)]
Goes(p, program) == [proc EXCEPT ![p].todo = program]
Died == [p \in Handlers |-> Idle]

\* A route of Express has no catch: a rejection ends the process and all its requests.  The
\* two servers are taken as one process here: where the code ends the requests of one, those
\* of both end, which only adds to what may be cut off.
\* A GraphQL resolver, or a handler with a catch, answers with an error.
Routes == {"send", "verify", "legacy"}
Thrown(p) == IF proc[p].op \in Routes THEN Died ELSE Ended(p)

Going == UNCHANGED <<menu, calls, faults>>

Crash ==
  /\ "crash" \in menu.kinds /\ faults < MaxFaults /\ faults' = faults + 1
  /\ Busy # {}
  /\ proc' = Died
  /\ UNCHANGED <<menu, calls>>
=============================================================================
