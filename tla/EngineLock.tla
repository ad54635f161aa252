----------------------------- MODULE EngineLock -----------------------------
(***************************************************************************)
(* Who starts findLeads, and what keeps two runs apart: the scheduler and  *)
(* its queue, the worker that takes one job at a time, the on-demand       *)
(* trigger of the GraphQL API and the older one of the dashboard process,  *)
(* which runs the engine itself.  The lock is a row of cron_log in status  *)
(* 'running'; it is released by its run, by force, or by age.              *)
(***************************************************************************)
EXTENDS Billing

CONSTANT MaxJobs    \* bound: jobs the scheduler leaves waiting
ASSUME LockAssumption == IsFiniteSet(Dash)

VARIABLES
  jobs,      \* the findLeads queue: for each waiting job the attempts it has made
  rows,      \* cron_log rows of findLeads in status 'running'
  slipped    \* ghost: the times a live run was hidden from, or stripped of, the lock

lock == <<jobs, rows, slipped>>
Attempts == 3

\* A run leaves two rows when the worker runs it: the worker's own and the engine's.
Row == [by : Procs \cup {Nobody}, own : {"worker", "engine"}, old : BOOLEAN]
NewRow(p, own) == [by |-> p, own |-> own, old |-> FALSE]
RowsOf(p) == {r \in rows : r.by = p}
\* The rows after the process of the handlers in P has died.
Orphaned(P) == {IF r.by \in P THEN [r EXCEPT !.by = Nobody] ELSE r : r \in rows}

\* Runs started by the dashboard: past the guard; and those of them that have written a row.
Started == {p \in Dash : At(p, "cron") \/ At(p, "finish")}
Running == {p \in Procs : At(p, "finish")}

LockInit == jobs = <<>> /\ rows = {} /\ slipped = 0

(***************************************************************************)
(* The triggers.                                                           *)
(***************************************************************************)
Trigger(p) == p \in Api /\ UNCHANGED lock
              /\ Ask(p, "trigger", "check", <<"read sub", "read org", "sweep", "look", "enqueue">>)
Unlock(p) == UNCHANGED lock
             /\ \/ p \in Api /\ Ask(p, "unlock", "check", <<"read sub", "read org", "unlock">>)
                \/ p \in Dash /\ Ask(p, "unlock", "legacy", <<"unlock">>)
LegacyTrigger(p) == p \in Dash /\ UNCHANGED lock
                    /\ Ask(p, "legacy", "legacy", <<"sweep", "look", "cron", "finish">>)

Lifted(kept) == Cardinality({p \in Started : RowsOf(p) \cap (rows \ kept) # {}})
SweepStaleLocks(p) ==
  LET kept == {r \in rows : ~r.old} IN
  /\ At(p, "sweep")
  /\ rows' = kept /\ slipped' = slipped + Lifted(kept)
  /\ proc' = Advance(p) /\ StillEarly
  /\ UNCHANGED <<billing, calls, faults, done, muddled, jobs>>
UnlockEngine(p) ==
  /\ At(p, "unlock")
  /\ rows' = {} /\ slipped' = slipped + Lifted({})
  /\ proc' = Ended(p) /\ StillEarly
  /\ UNCHANGED <<billing, calls, faults, done, muddled, jobs>>

\* findFirst: refused while any row is running; a run that has no row yet is not seen.
Look(p) ==
  /\ At(p, "look")
  /\ IF rows # {}
       THEN proc' = Ended(p) /\ UNCHANGED slipped
       ELSE /\ proc' = Advance(p)
            /\ slipped' = IF p \in Dash THEN slipped + Cardinality({q \in Dash : At(q, "cron")})
                          ELSE slipped
  /\ StillEarly
  /\ UNCHANGED <<billing, calls, faults, done, muddled, jobs, rows>>
Enqueue(p) ==
  /\ At(p, "enqueue")
  /\ jobs' = Append(jobs, 0)
  /\ proc' = Advance(p) /\ StillEarly
  /\ UNCHANGED <<billing, calls, faults, done, muddled, rows, slipped>>

(***************************************************************************)
(* The scheduler, the worker and the engine, seen from its cron_log rows.  *)
(***************************************************************************)
Schedule ==
  /\ "job" \in menu /\ org \in {"trial", "active"} /\ Len(jobs) < MaxJobs
  /\ jobs' = Append(jobs, 0)
  /\ UNCHANGED <<billing, proc, calls, faults, ghosts, rows, slipped>>
TakeJob ==
  /\ jobs # <<>> /\ jobs' = Tail(jobs)
  /\ Begin(Worker, "job", "job", Head(jobs),
           <<"read sub", "read org", "row", "cron", "finish", "close">>)
  /\ UNCHANGED <<billing, faults, ghosts, rows, slipped>>

CreateRow(p, step, own) ==
  /\ At(p, step)
  /\ rows' = rows \cup {NewRow(p, own)} /\ children' = TRUE
  /\ proc' = Advance(p) /\ StillEarly
  /\ UNCHANGED <<menu, sub, org, opened, emitted, due, seen, calls, faults, done, muddled, jobs, slipped>>
\* Mutant: a run closes its row by the name of the job and not by the id.
FinishByName(p, step, own) ==
  /\ At(p, step)
  /\ rows' = {r \in rows : r.own # own}
  /\ proc' = Advance(p) /\ StillEarly
  /\ UNCHANGED <<billing, calls, faults, done, muddled, jobs, slipped>>
FinishRow(p, step, own) ==
  /\ At(p, step)
  /\ rows' = {r \in rows : ~(r.by = p /\ r.own = own)}
  /\ proc' = Advance(p) /\ StillEarly
  /\ UNCHANGED <<billing, calls, faults, done, muddled, jobs, slipped>>

\* A call of the worker fails.  The engine catches its own errors; only what its
\* error handler throws comes here, and leaves the engine's row running.
WorkerThrows ==
  /\ faults < MaxFaults /\ faults' = faults + 1
  /\ proc[Worker].todo # <<>>
  /\ proc' = Ended(Worker) /\ StillEarly
  /\ rows' = {r \in Orphaned({Worker}) : r \in rows \/ r.own = "engine"}
  /\ jobs' = IF proc[Worker].ev + 1 < Attempts THEN Append(jobs, proc[Worker].ev + 1) ELSE jobs
  /\ UNCHANGED <<billing, calls, done, muddled, slipped>>
\* The worker process dies; the stalled job is queued again, or given up.
WorkersCrash ==
  /\ faults < MaxFaults /\ faults' = faults + 1
  /\ Busy \cap {Worker, Night} # {}
  /\ proc' = [proc EXCEPT ![Worker] = Idle, ![Night] = Idle] /\ StillEarly
  /\ rows' = Orphaned({Worker})
  /\ \/ UNCHANGED jobs
     \/ proc[Worker].todo # <<>> /\ jobs' = Append(jobs, proc[Worker].ev)
  /\ UNCHANGED <<billing, calls, done, muddled, slipped>>
DashCrash ==
  /\ faults < MaxFaults /\ faults' = faults + 1
  /\ Busy \cap Dash # {}
  /\ proc' = [p \in Procs |-> IF p \in Dash THEN Idle ELSE proc[p]] /\ StillEarly
  /\ rows' = Orphaned(Dash)
  /\ UNCHANGED <<billing, calls, done, muddled, jobs, slipped>>

\* Half an hour passes for a row.
Age ==
  /\ \E r \in rows : ~r.old /\ rows' = (rows \ {r}) \cup {[r EXCEPT !.old = TRUE]}
  /\ UNCHANGED <<billing, proc, calls, faults, ghosts, jobs, slipped>>
=============================================================================
