----------------------------- MODULE EnginePage -----------------------------
(***************************************************************************)
(* The dashboard's page of engines, in one browser, and the routes it      *)
(* calls: the engine shown, the run it is asked for or refused, the panel  *)
(* that polls a run until it ends.  Runs also begin elsewhere, end late,   *)
(* and die.  Costs, progress bars and the other tabs are left out, and so  *)
(* are the tokens of its requests.                                         *)
(***************************************************************************)
EXTENDS LeadList

CONSTANT MaxRuns   \* bound: rows of cron_log

VARIABLES
  runs,     \* cron_log: [engine, status, live]; ghost forced: its row was closed while it ran
  unborn,   \* runs started whose row is not inserted yet
  page,     \* the engine shown, how often one was chosen, the run a refusal names (0 is none)
  panel     \* the progress panel: [open, run, poll, got, shown]; run 0 is null

engines == <<runs, unborn, page, panel>>
beside == <<accounts, tenancy, book, lists>>

Engines == {1, 2}
Triggerable == {1}    \* ENGINES: findLeads alone
Running(e) == {i \in DOMAIN runs : runs[i].engine = e /\ runs[i].status = "running"}
RunOf(e) == [engine |-> e, status |-> "running", live |-> TRUE, forced |-> FALSE]
Closed(rows) == [i \in DOMAIN runs |-> IF i \in rows THEN [runs[i] EXCEPT !.status = "failed", !.forced = @ \/ runs[i].live]
                                                      ELSE runs[i]]
\* What sweepStaleLocks closes: rows of half an hour ago, so those begun first.  Half an hour
\* may pass between any two steps; their runs may have crashed, or may only be long ones.
Stale(e, n) == {i \in Running(e) : i <= n}
NoPanel == [open |-> FALSE, run |-> 0, poll |-> "off", got |-> "none", shown |-> "none"]

PageInit ==
  /\ runs = <<>> /\ unborn = 0
  /\ page = [engine |-> 0, gen |-> 0, refused |-> 0]
  /\ panel = NoPanel

\* setActiveRun: the panel's key is its run; the same key again is the panel there is.
Follow(run) ==
  panel' = IF panel.open /\ panel.run = run THEN panel
           ELSE [NoPanel EXCEPT !.open = TRUE, !.run = run, !.poll = "due"]
Engine(p) == proc[p].id
Fetching(what) == \E q \in Busy : proc[q].op = what
Fetch(p, what, e, who, program) ==
  Begin(p, "page", [Idle EXCEPT !.op = what, !.id = e, !.who = who, !.todo = program])

(***************************************************************************)
(* An engine is chosen: its latest run is asked for, and followed when it  *)
(* runs and no other engine was chosen meanwhile.  The rest of the header  *)
(* stays as it was.  id: the engine; who: which choice it was.             *)
(***************************************************************************)
Select(p) == \E e \in Engines \ {page.engine} :
  /\ Fetch(p, "latest", e, page.gen + 1, <<"serve latest", "latest">>)
  /\ page' = [page EXCEPT !.engine = e, !.gen = @ + 1]
  /\ UNCHANGED <<beside, runs, unborn, panel>>
ServeLatest(p) ==
  LET last == Max({i \in DOMAIN runs : runs[i].engine = Engine(p)} \cup {0}) IN
  /\ At(p, "serve latest")
  /\ proc' = [proc EXCEPT ![p].todo = Tail(@),
                          ![p].saw = IF last # 0 /\ runs[last].status = "running" THEN last ELSE 0]
  /\ Going /\ UNCHANGED <<beside, engines>>
Latest(p) ==
  /\ At(p, "latest")
  /\ IF proc[p].who = page.gen /\ proc[p].saw # 0 THEN Follow(proc[p].saw) ELSE UNCHANGED panel
  /\ proc' = Ended(p)
  /\ Going /\ UNCHANGED <<beside, runs, unborn, page>>

(***************************************************************************)
(* Run now.  Stale rows are closed first; the engine is then refused, or   *)
(* started and not waited for: its row is looked for once, a moment later. *)
(***************************************************************************)
RunNow(p) ==
  /\ page.engine # 0 /\ ~Fetching("run")
  /\ Fetch(p, "run", page.engine, 0, <<"sweep runs", "serve run">>)
  /\ page' = [page EXCEPT !.refused = 0]
  /\ UNCHANGED <<beside, runs, unborn, panel>>
SweepRuns(p) ==
  /\ At(p, "sweep runs")
  /\ \/ /\ Engine(p) \notin Triggerable
        /\ proc' = Ended(p) /\ UNCHANGED runs
     \/ /\ Engine(p) \in Triggerable
        /\ proc' = Advance(p) /\ \E n \in Running(Engine(p)) \cup {0} : runs' = Closed(Stale(Engine(p), n))
  /\ Going /\ UNCHANGED <<beside, unborn, page, panel>>
ServeRun(p) ==
  LET running == Running(Engine(p)) IN
  /\ At(p, "serve run")
  /\ \/ /\ running # {}
        /\ \E run \in running : proc' = [proc EXCEPT ![p].todo = <<"refused">>, ![p].saw = run]
        /\ UNCHANGED <<runs, unborn>>
     \/ /\ running = {} /\ Len(runs) + unborn < MaxRuns
        /\ \/ /\ runs' = Append(runs, RunOf(Engine(p))) /\ UNCHANGED unborn
              /\ proc' = [proc EXCEPT ![p].todo = <<"started">>, ![p].saw = Len(runs) + 1]
           \/ /\ unborn' = unborn + 1 /\ UNCHANGED runs
              /\ proc' = [proc EXCEPT ![p].todo = <<"started">>, ![p].saw = 0]
  /\ Going /\ UNCHANGED <<beside, page, panel>>
Started(p) ==
  /\ At(p, "started") /\ Follow(proc[p].saw) /\ proc' = Ended(p)
  /\ Going /\ UNCHANGED <<beside, runs, unborn, page>>
Refused(p) ==
  /\ At(p, "refused") /\ page' = [page EXCEPT !.refused = proc[p].saw] /\ proc' = Ended(p)
  /\ Going /\ UNCHANGED <<beside, runs, unborn, panel>>

(***************************************************************************)
(* Force unlock, from the banner of a refusal, for the engine now shown.   *)
(* who: the run the banner names.                                          *)
(***************************************************************************)
Unlock(p) ==
  /\ page.refused # 0 /\ ~Fetching("unlock")
  /\ Fetch(p, "unlock", page.engine, page.refused, <<"serve unlock", "unlocked">>)
  /\ UNCHANGED <<beside, engines>>
Unlocked(p, rows) ==
  /\ At(p, "serve unlock") /\ runs' = Closed(rows) /\ proc' = Advance(p)
  /\ Going /\ UNCHANGED <<beside, unborn, page, panel>>
\* Mutant: the engine is not looked up among those the route knows.
UnlockAny(p) == Unlocked(p, Running(Engine(p)))
UnlockRows(p) == Unlocked(p, IF Engine(p) \in Triggerable THEN Running(Engine(p)) ELSE {})
\* Either message takes the banner away.
UnlockShown(p) ==
  /\ At(p, "unlocked") /\ page' = [page EXCEPT !.refused = 0] /\ proc' = Ended(p)
  /\ Going /\ UNCHANGED <<beside, runs, unborn, panel>>

(***************************************************************************)
(* The panel: polls its run while it runs, and again after an error; an    *)
(* answer without a row, or of a run that ended, is the last.              *)
(***************************************************************************)
AskStatus ==
  /\ "panel" \in menu.kinds    \* bound: the menus in which the panel polls
  /\ panel.poll = "due" /\ panel' = [panel EXCEPT !.poll = "asked"]
  /\ UNCHANGED <<requests, beside, runs, unborn, page>>
ServeStatus ==
  /\ panel.poll = "asked"
  /\ panel' = [panel EXCEPT !.poll = "answered", !.got = IF panel.run = 0 THEN "missing" ELSE runs[panel.run].status]
  /\ UNCHANGED <<requests, beside, runs, unborn, page>>
StatusFails(next) ==
  /\ panel.poll = "asked" /\ faults < MaxFaults /\ faults' = faults + 1
  /\ panel' = [panel EXCEPT !.poll = next, !.shown = IF @ = "none" THEN "error" ELSE @]
  /\ UNCHANGED <<menu, proc, calls, beside, runs, unborn, page>>
\* Mutant: an error is the end of the polling.
PollGivesUp == StatusFails("off")
PollFails == StatusFails("due")
ShowStatus ==
  /\ panel.poll = "answered"
  /\ panel' = [panel EXCEPT !.shown = panel.got, !.poll = IF panel.got = "running" THEN "due" ELSE "off"]
  /\ UNCHANGED <<requests, beside, runs, unborn, page>>
Dismiss ==
  /\ panel.open /\ panel.shown \notin {"none", "running"} /\ panel' = NoPanel
  /\ UNCHANGED <<requests, beside, runs, unborn, page>>

\* Elsewhere: the row of a run arrives late, a schedule starts one, one ends or dies, the
\* GraphQL API sweeps and unlocks too.
RowArrives ==
  /\ unborn > 0 /\ unborn' = unborn - 1 /\ runs' = Append(runs, RunOf(1))
  /\ UNCHANGED <<requests, beside, page, panel>>
StartElsewhere == \E e \in Engines :
  /\ "page" \in menu.kinds /\ Len(runs) + unborn < MaxRuns
  /\ runs' = Append(runs, RunOf(e))
  /\ UNCHANGED <<requests, beside, unborn, page, panel>>
EndRun == \E i \in DOMAIN runs :
  /\ runs[i].live
  /\ runs' = [runs EXCEPT ![i].live = FALSE, ![i].status = "success"]
  /\ UNCHANGED <<requests, beside, unborn, page, panel>>
RunDies == \E i \in DOMAIN runs :
  /\ "panel" \in menu.kinds    \* bound: to the other routes it is a run that does not end
  /\ runs[i].live /\ faults < MaxFaults /\ faults' = faults + 1
  /\ runs' = [runs EXCEPT ![i].live = FALSE]
  /\ UNCHANGED <<menu, proc, calls, beside, unborn, page, panel>>
CloseElsewhere == \E e \in Engines : \E n \in Running(e) :
  /\ e \in Triggerable \/ Stale(e, n) = Running(e)
  /\ runs' = Closed(Stale(e, n))
  /\ UNCHANGED <<requests, beside, unborn, page, panel>>

PageStep ==
  \/ \E p \in Handlers :
       \/ Select(p) \/ ServeLatest(p) \/ Latest(p)
       \/ RunNow(p) \/ SweepRuns(p) \/ ServeRun(p) \/ Started(p) \/ Refused(p)
       \/ Unlock(p) \/ UnlockRows(p) \/ UnlockShown(p)
  \/ AskStatus \/ ServeStatus \/ PollFails \/ ShowStatus \/ Dismiss
  \/ RowArrives \/ StartElsewhere \/ EndRun \/ RunDies \/ CloseElsewhere

-----------------------------------------------------------------------------
\* A panel that has stopped polling shows how its run ended, unless its row was closed
\* while it ran, by an unlock or, past half an hour, by the sweep of another trigger: the
\* run then goes on, and writes its end later.
PanelTrue == panel.open /\ panel.poll = "off" /\ panel.run # 0 =>
  panel.shown = runs[panel.run].status \/ runs[panel.run].forced

\* Of the rows that their own run did not close, an unlock closes those of the engine whose
\* run was refused, and no other, also when another engine is shown by then; and a trigger
\* those of its own engine.
Served(p, step) == At(p, step) /\ proc'[p] # proc[p]
UnlockFits == [][\A i \in DOMAIN runs :
  runs[i].status = "running" /\ runs'[i].status # "running" /\ runs'[i].live = runs[i].live =>
    \A p \in Busy :
      /\ Served(p, "serve unlock") => runs[proc[p].who].engine = runs[i].engine
      /\ Served(p, "sweep runs") => runs[i].engine = Engine(p)]_<<runs, proc>>
=============================================================================
