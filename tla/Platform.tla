------------------------------ MODULE Platform ------------------------------
(***************************************************************************)
(* Billing and the engine lock together: one organisation, the API         *)
(* process, the dashboard process, the worker process with its nightly     *)
(* job, the payment gateway and the people who call them.                  *)
(***************************************************************************)
EXTENDS EngineLock

vars == <<billing, proc, calls, faults, ghosts, lock>>

Init == BillingInit /\ LockInit /\ proc = [p \in Procs |-> Idle]
        /\ calls = 0 /\ faults = 0 /\ early = {}

BillingStep(p) ==
  /\ \/ Deliver(p) \/ FindEvent(p) \/ RecordEvent(p)
     \/ \E w \in SubWrites \cup OrgWrites : Write(p, w)
     \/ ReadSub(p) \/ ReadOrg(p)
     \/ Admin(p) \/ Query(p) \/ Touch(p)
     \/ Subscribe(p) \/ OpenSub(p) \/ OpenFails(p) \/ StoreSub(p)
  /\ UNCHANGED lock
BillingWorld == (Gateway \/ Nightfall \/ FindLocked \/ TimePasses \/ ApiCrash) /\ UNCHANGED lock
LockStep(p) ==
  \/ Trigger(p) \/ Unlock(p) \/ LegacyTrigger(p)
  \/ SweepStaleLocks(p) \/ UnlockEngine(p) \/ Look(p) \/ Enqueue(p)
  \/ CreateRow(p, "row", "worker") \/ CreateRow(p, "cron", "engine")
  \/ FinishRow(p, "finish", "engine") \/ FinishRow(p, "close", "worker")
LockWorld == Schedule \/ TakeJob \/ WorkerThrows \/ WorkersCrash \/ DashCrash \/ Age

Next == \/ \E p \in Procs : BillingStep(p) \/ LockStep(p)
        \/ BillingWorld \/ LockWorld

\* The nightly job is enqueued every midnight and runs to its end.
Nightly == (Nightfall \/ FindLocked \/ \E w \in SubWrites \cup OrgWrites : Write(Night, w))
           /\ UNCHANGED lock
Spec == Init /\ [][Next]_vars
FairSpec == Spec /\ WF_vars(Nightly)

-----------------------------------------------------------------------------
Steps == SubWrites \cup OrgWrites \cup
  {"find", "record", "read sub", "read org", "open", "store", "find locked",
   "sweep", "look", "enqueue", "unlock", "row", "cron", "finish", "close"}
Ops == {"idle", "hook", "check", "admin", "touch", "subscribe", "night", "job", "legacy"}

\* Every row, every handler and every counter stays in its domain.
PlatformTypeOK ==
  /\ sub \in Subs \cup {NoSub}
  /\ org \in OrgStatuses \cup {"gone"}
  /\ opened \in [1..MaxSubs -> {"none", "created", "offered", "live", "over"}]
  /\ emitted \in Seq([type : EventTypes, rzp : 1..MaxSubs]) /\ Len(emitted) <= MaxEvents
  /\ due \subseteq 1..Len(emitted) /\ seen \subseteq 1..Len(emitted)
  /\ children \in BOOLEAN /\ muddled \in BOOLEAN
  /\ proc \in [Procs -> [op : Ops, ev : Nat, todo : Seq(Steps),
                         saw : {"nothing", "open", "expired", "locked"}]]
  /\ calls \in 0..MaxCalls /\ faults \in 0..MaxFaults
  /\ done \in [1..MaxEvents -> Nat] /\ early \subseteq Procs
  /\ jobs \in Seq(0..Attempts - 1) /\ rows \subseteq Row /\ slipped \in Nat

\* An event's writes are carried out at most once, however often it is delivered.
AppliedOnce == \A k \in 1..Len(emitted) : done[k] <= Len(Effects(emitted[k].type))

\* Events that arrive in their order, each as often as the gateway likes, leave the
\* subscription as the gateway has it, once their handlers are through.
Known == {k \in seen : Effects(emitted[k].type) # <<>>}
MirrorsGateway ==
  (~muddled /\ Known # {} /\ ~\E p \in Api : proc[p].op = "hook" /\ proc[p].todo # <<"find">>)
    => LET last == emitted[CHOOSE k \in Known : \A j \in Known : j <= k].type IN
       /\ sub.status = CASE last = "completed" -> "locked" [] last = "failed" -> "grace" [] OTHER -> "active"
       /\ last # "failed" => org = IF last = "completed" THEN "locked" ELSE "active"

\* The plan check lets nothing of a suspended organisation pass, to the API or to the
\* worker, but what was under way when it was suspended.  The runs and unlocks of the
\* dashboard (LegacyTrigger, Unlock) meet no plan check: they go on as before.
Admitted == {p \in Procs : /\ proc[p].op \in {"check", "job"}
                           /\ \E s \in {"sweep", "look", "enqueue", "unlock", "row", "cron", "finish", "close"} : At(p, s)}
SuspendedNotAdmitted == org = "suspended" => Admitted \subseteq early

\* The dashboard runs one engine at a time, and one more for every trigger that met a
\* run without a row yet, and for every live run that lost its row to age or force.
RunsBound == Cardinality(Started) <= 1 + slipped

\* An expired trial or grace period ends, whatever else happens at night.
TrialsEnd == Expired ~> ~Expired
\* A locked subscription locks its organisation too.
LockReachesOrg == (sub.status = "locked" /\ org \in {"trial", "active"})
                    ~> (sub.status # "locked" \/ org \in {"locked", "suspended", "gone"})
=============================================================================
