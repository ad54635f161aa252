------------------------------ MODULE Console -------------------------------
(***************************************************************************)
(* The servers behind the dashboard together: sign-in and memberships, the *)
(* tables of an organisation, bulk retries, the list of leads and the pages *)
(* of engines and of leads, requests of all of them under way at once.     *)
(***************************************************************************)
EXTENDS LeadsPage

vars == <<requests, accounts, tenancy, book, lists, engines, leadsPage>>

Init ==
  /\ menu \in Menus /\ calls = 0 /\ faults = 0
  /\ proc = [p \in Handlers |-> Idle]
  /\ AccountsInit /\ TenancyInit /\ BookInit /\ ListInit /\ PageInit /\ DeskInit

SignInKinds == {"send", "verify", "google", "logout"}
MemberKinds == {"invite", "remove", "role", "suspend", "reset", "delete", "impersonate", "found"}
TableKinds == {"niche", "view", "single", "boot", "config", "metric"}
RetryKinds == Range(Stages) \cup {"mailing", "again"}
\* A request is let in by the server it comes to, then served by the module of its kind:
\* modules whose kinds are not on the menu have nothing to do.
Coming(kinds) == menu.kinds \cap kinds # {}
Admitted(p) ==
  /\ \/ Enter(p) /\ UNCHANGED tenancy
     \/ Context(p) /\ UNCHANGED tenancy
     \/ Token(p)
  /\ UNCHANGED <<book, lists, engines>> /\ Meanwhile
Request(p) ==
  \/ Coming(SignInKinds \cup MemberKinds) /\ AccountsStep(p) /\ UNCHANGED <<tenancy, book, lists, engines>> /\ Meanwhile
  \/ Coming(TableKinds) /\ TenancyStep(p) /\ UNCHANGED <<book, lists, engines>> /\ Meanwhile
  \/ Coming({"list", "kpis"}) /\ ListStep(p) /\ UNCHANGED engines /\ Meanwhile
World == (Tick \/ CodeExpires \/ (Crash /\ UNCHANGED accounts)) /\ UNCHANGED <<tenancy, book, lists, engines>> /\ Meanwhile
Next ==
  \/ \E p \in Handlers : Admitted(p) \/ Request(p)
  \/ Coming(RetryKinds) /\ BookStep /\ UNCHANGED <<lists, engines>> /\ Meanwhile
  \/ Coming({"page"}) /\ PageStep /\ Meanwhile
  \/ Coming({"leads page", "bulk", "again"}) /\ LeadsPageStep
  \/ World

Spec == Init /\ [][Next]_vars

-----------------------------------------------------------------------------
Ops == {"idle", "send", "verify", "google", "invite", "remove", "role", "logout", "suspend", "reset",
        "delete", "impersonate", "found", "niche", "view", "single", "boot", "config", "metric",
        "retry", "list", "kpis", "latest", "run", "unlock", "legacy", "rows", "detail", "note",
        "bulk", "dry"}
\* Every row refers to rows that are there, or were; every request to a row or a session.
ConsoleTypeOK ==
  /\ proc \in [Handlers -> [op : Ops, no : 0..menu.calls, by : 0..Len(sessions), who : Nat, org : Nat,
                            id : Nat, saw : Nat, todo : Seq(STRING), marks : SUBSET Nat, locks : SUBSET Nat]]
  /\ calls \in 0..menu.calls /\ faults \in 0..MaxFaults /\ now \in 0..MaxNow
  /\ \A k \in DOMAIN codes : codes[k].user \in users /\ codes[k].state \in {"live", "used", "gone"}
  /\ \A m \in members : m.user \in users /\ m.org \in DOMAIN orgs /\ m.role \in Roles
  /\ \A o \in DOMAIN orgs : orgs[o].status \in {"open", "suspended", "gone"}
  /\ \A i \in DOMAIN niches : niches[i].day \in NicheDays /\ niches[i].org \in Nat
  /\ \A l \in DOMAIN leads : leads[l].score \in Scores /\ leads[l].verdict \in {"none", "valid", "invalid"}
  /\ \A l \in DOMAIN mails : mails[l].status \in {"pending", "sent"}
  /\ DOMAIN sender.queue \subseteq DOMAIN mails /\ sender.at \in DOMAIN mails \cup {0}
  /\ page.engine \in Engines \cup {0} /\ page.refused \in 0..Len(runs)
  /\ panel.run \in 0..Len(runs) /\ panel.poll \in {"off", "due", "asked", "answered"}
  /\ Len(runs) + unborn <= MaxRuns
  /\ desk.shown \cup desk.picked \cup noted \subseteq DOMAIN leads /\ desk.page \in Nat \ {0}

\* Both pages of the browser show what was answered to what they asked.
PagesTrue == PanelTrue /\ ShownAsAsked /\ DetailFits /\ RetryCounts
=============================================================================
