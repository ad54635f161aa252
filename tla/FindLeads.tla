----------------------------- MODULE FindLeads ------------------------------
(***************************************************************************)
(* Engine 2, src/engines/findLeads.js: producers push the answers of       *)
(* discovery batches onto a queue, consumers pull raw leads off it and     *)
(* take each through extraction, deduplication, verification, scoring, the *)
(* spend cap, the model calls and the inserts.  All of it shares the       *)
(* memory of one process, whose event loop switches only at an await: an   *)
(* action is the code between two awaits.                                  *)
(*                                                                         *)
(* The queue is kept as a set (no property is about its order).  The sets  *)
(* of known emails and cooled domains are loaded when a run starts.        *)
(***************************************************************************)
EXTENDS Integers, FiniteSets

CONSTANTS Raw,         \* entries of the discovery answers of one run
          NoRaw,       \* "no lead is being worked on"
          Email,       \* contact addresses
          EmailOf,     \* the contact address extraction finds for an entry
          Domain,      \* mail domains
          DomainOf,    \* the domain of an address
          Rejected,    \* addresses on the reject list
          Batches,     \* discovery batches of a run
          Producer,    \* concurrent batches (5 in the code)
          Consumer,    \* concurrent leads (20 in the code)
          SpendCap,    \* CLAUDE_DAILY_SPEND_CAP, in model calls
          StartSpend,  \* what the day may have cost when a run starts
          MaxFaults    \* bound: crashes and failed database calls

ASSUME RawAssumption == NoRaw \notin Raw /\ EmailOf \in [Raw -> Email]
ASSUME EmailAssumption == /\ DomainOf \in [Email -> Domain]
                          /\ Rejected \subseteq Email
ASSUME BatchesAssumption == Batches \in Nat
ASSUME SpendAssumption == SpendCap \in Nat /\ StartSpend \subseteq 0 .. SpendCap
ASSUME FaultAssumption == MaxFaults \in Nat
ASSUME WorkersAssumption == IsFiniteSet(Consumer) /\ Consumer # {}

VARIABLES
  run,       \* "off", "on", "success" or "failed"
  todo,      \* batches no producer has picked
  pPc,       \* where each producer is
  producersDone,
  queue,     \* raw leads nobody has taken
  found,     \* ghost: raw leads this run has discovered
  cPc,       \* where each consumer is
  cRaw,      \* the lead it works on
  known,     \* knownEmails
  cooled,    \* cooledDomains
  spend,     \* aiSpendStart + aiSpendThisRun, in model calls
  leadRows,  \* number of leads rows by contact_email
  ready,     \* addresses whose leads row has the status 'ready'
  mailRows,  \* addresses with a step-0 emails row
  faults     \* ghost: crashes and failed database calls so far

queueVars   == <<run, todo, pPc, producersDone, queue, found>>
memoryVars  == <<known, cooled, spend>>
leadTables  == <<leadRows, ready, mailRows>>
leadVars    == <<queueVars, cPc, cRaw, memoryVars, leadTables, faults>>

Calling   == {"extract", "verify", "score", "hook", "body"}
Inserting == {"invalid", "low", "ready", "email"}
Working   == Calling \cup Inserting

LeadTypeOK ==
  /\ run \in {"off", "on", "success", "failed"}
  /\ todo \in 0 .. Batches
  /\ pPc \in [Producer -> {"pick", "discover", "done"}]
  /\ producersDone \in BOOLEAN
  /\ found \subseteq Raw
  /\ queue \subseteq found
  /\ cPc \in [Consumer -> {"next", "wait", "gone"} \cup Working]
  /\ cRaw \in [Consumer -> Raw \cup {NoRaw}]
  /\ \A c \in Consumer : cPc[c] \in Working <=> cRaw[c] \in Raw
  /\ known \subseteq Email
  /\ cooled \subseteq Domain
  /\ spend \in Nat
  /\ leadRows \in [Email -> Nat]
  /\ ready \subseteq Email
  /\ mailRows \subseteq Email
  /\ faults \in 0 .. MaxFaults

LeadInit ==
  /\ run = "off"
  /\ todo = 0
  /\ pPc = [p \in Producer |-> "done"]
  /\ producersDone = FALSE
  /\ queue = {}
  /\ found = {}
  /\ cPc = [c \in Consumer |-> "gone"]
  /\ cRaw = [c \in Consumer |-> NoRaw]
  /\ known = {}
  /\ cooled = {}
  /\ spend = 0
  /\ leadRows = [e \in Email |-> 0]
  /\ ready = {}
  /\ mailRows = {}
  /\ faults = 0

Fault == faults < MaxFaults /\ faults' = faults + 1

-----------------------------------------------------------------------------
(* The run and its producers *)

(* What a failed run left behind has come to rest.  (Bound: the code does  *)
(* not wait for it before the next run.)                                   *)
AtRest == /\ \A p \in Producer : pPc[p] = "done"
          /\ \A c \in Consumer : cPc[c] \notin Working
          /\ queue = {} \/ \A c \in Consumer : cPc[c] = "gone"

(* The dedup sets are read from the tables; a domain with a 'ready' lead   *)
(* may have been mailed since.                                             *)
StartRun ==
  /\ run # "on"
  /\ AtRest
  /\ run' = "on"
  /\ todo' = Batches
  /\ pPc' = [p \in Producer |-> "pick"]
  /\ producersDone' = FALSE
  /\ queue' = {}
  /\ found' = {}
  /\ cPc' = [c \in Consumer |-> "next"]
  /\ cRaw' = [c \in Consumer |-> NoRaw]
  /\ known' = {e \in Email : leadRows[e] > 0}
  /\ cooled' \in SUBSET {DomainOf[e] : e \in ready}
  /\ spend' \in StartSpend
  /\ UNCHANGED <<leadTables, faults>>

(* notify(): everyone who waits is woken.                                  *)
NotifyMutant ==
  \/ \A c \in Consumer : cPc[c] # "wait" /\ UNCHANGED cPc
  \/ \E c \in Consumer : /\ cPc[c] = "wait"
                         /\ cPc' = [cPc EXCEPT ![c] = "next"]

Notify == cPc' = [c \in Consumer |-> IF cPc[c] = "wait" THEN "next"
                                                        ELSE cPc[c]]

PickBatch(p) ==
  /\ pPc[p] = "pick"
  /\ \/ /\ todo > 0
        /\ todo' = todo - 1
        /\ pPc' = [pPc EXCEPT ![p] = "discover"]
     \/ /\ todo = 0
        /\ pPc' = [pPc EXCEPT ![p] = "done"]
        /\ UNCHANGED todo
  /\ UNCHANGED <<run, producersDone, queue, found, cPc, cRaw, memoryVars,
                 leadTables, faults>>

(* The batch found leads: push and notify, with no await in between.       *)
Discover(p) ==
  /\ pPc[p] = "discover"
  /\ pPc' = [pPc EXCEPT ![p] = "pick"]
  /\ \E leads \in SUBSET (Raw \ found) :
       /\ leads # {}
       /\ queue' = queue \cup leads
       /\ found' = found \cup leads
  /\ Notify
  /\ UNCHANGED <<run, todo, producersDone, cRaw, memoryVars, leadTables,
                 faults>>

(* It found none, or a call threw and was logged.                          *)
DiscoverNothing(p) ==
  /\ pPc[p] = "discover"
  /\ pPc' = [pPc EXCEPT ![p] = "pick"]
  /\ UNCHANGED <<run, todo, producersDone, queue, found, cPc, cRaw,
                 memoryVars, leadTables, faults>>

(* Logging the error throws too: the producer rejects and the run with it. *)
(* The other producers and the consumers go on, unawaited.                 *)
ProducerRejects(p) ==
  /\ pPc[p] = "discover"
  /\ Fault
  /\ pPc' = [pPc EXCEPT ![p] = "done"]
  /\ run' = "failed"
  /\ UNCHANGED <<todo, producersDone, queue, found, cPc, cRaw, memoryVars,
                 leadTables>>

EndDiscovery ==
  /\ run = "on"
  /\ ~producersDone
  /\ \A p \in Producer : pPc[p] = "done"
  /\ producersDone' = TRUE
  /\ Notify
  /\ UNCHANGED <<run, todo, pPc, queue, found, cRaw, memoryVars, leadTables,
                 faults>>

FinishRun ==
  /\ run = "on"
  /\ producersDone
  /\ \A c \in Consumer : cPc[c] = "gone"
  /\ run' = "success"
  /\ UNCHANGED <<todo, pPc, producersDone, queue, found, cPc, cRaw,
                 memoryVars, leadTables, faults>>

(* The process is gone and its memory with it; the tables stay.            *)
MemoryLost ==
  /\ run' = "off"
  /\ todo' = 0
  /\ pPc' = [p \in Producer |-> "done"]
  /\ producersDone' = FALSE
  /\ queue' = {}
  /\ found' = {}
  /\ cPc' = [c \in Consumer |-> "gone"]
  /\ cRaw' = [c \in Consumer |-> NoRaw]
  /\ known' = {}
  /\ cooled' = {}
  /\ spend' = 0

ProcessCrash ==
  /\ run \in {"on", "failed"}
  /\ Fault
  /\ MemoryLost
  /\ UNCHANGED leadTables

-----------------------------------------------------------------------------
(* The consumers *)

Goto(c, pc) == cPc' = [cPc EXCEPT ![c] = pc]

(* Mutant: the worker keeps hold of its lead.                              *)
DoneMutant(c) == Goto(c, "next") /\ UNCHANGED cRaw

(* On to the next raw lead.                                                *)
Done(c) == Goto(c, "next") /\ cRaw' = [cRaw EXCEPT ![c] = NoRaw]

(* Mutant: whether the producers are done is asked before the queue is.    *)
NextLeadMutant(c) ==
  /\ cPc[c] = "next"
  /\ \/ /\ producersDone
        /\ Goto(c, "gone")
        /\ UNCHANGED <<queue, cRaw>>
     \/ /\ ~producersDone /\ queue = {}
        /\ Goto(c, "wait")
        /\ UNCHANGED <<queue, cRaw>>
     \/ /\ ~producersDone
        /\ \E r \in queue : /\ queue' = queue \ {r}
                            /\ cRaw' = [cRaw EXCEPT ![c] = r]
        /\ Goto(c, "extract")
  /\ UNCHANGED <<run, todo, pPc, producersDone, found, memoryVars,
                 leadTables, faults>>

(* nextLead(): a raw lead if there is one, the end if no more will come,   *)
(* otherwise sleep until notified.                                         *)
NextLead(c) ==
  /\ cPc[c] = "next"
  /\ \/ \E r \in queue : /\ queue' = queue \ {r}
                         /\ cRaw' = [cRaw EXCEPT ![c] = r]
                         /\ Goto(c, "extract")
     \/ /\ queue = {}
        /\ Goto(c, IF producersDone THEN "gone" ELSE "wait")
        /\ UNCHANGED <<queue, cRaw>>
  /\ UNCHANGED <<run, todo, pPc, producersDone, found, memoryVars,
                 leadTables, faults>>

(* Nothing extracted, a modern site, or no contact address.                *)
Drop(c) ==
  /\ cPc[c] \in {"extract", "verify"}
  /\ Done(c)
  /\ UNCHANGED <<queueVars, memoryVars, leadTables, faults>>

(* Mutant: the address is not added to the known ones.                     *)
DeduplicateMutant(c) ==
  /\ cPc[c] = "extract"
  /\ EmailOf[cRaw[c]] \notin Rejected \cup known
  /\ DomainOf[EmailOf[cRaw[c]]] \notin cooled
  /\ Goto(c, "verify")
  /\ UNCHANGED <<queueVars, cRaw, memoryVars, leadTables, faults>>

(* The three lookups and the two adds, with no await in between.           *)
Deduplicate(c) ==
  LET e == EmailOf[cRaw[c]]
  IN /\ cPc[c] = "extract"
     /\ e \notin Rejected \cup known
     /\ DomainOf[e] \notin cooled
     /\ known' = known \cup {e}
     /\ cooled' = cooled \cup {DomainOf[e]}
     /\ Goto(c, "verify")
     /\ UNCHANGED <<queueVars, cRaw, spend, leadTables, faults>>

Duplicate(c) ==
  LET e == EmailOf[cRaw[c]]
  IN /\ cPc[c] = "extract"
     /\ e \in Rejected \cup known \/ DomainOf[e] \in cooled
     /\ Done(c)
     /\ UNCHANGED <<queueVars, memoryVars, leadTables, faults>>

Verify(c) ==
  /\ cPc[c] = "verify"
  /\ Goto(c, "invalid") \/ Goto(c, "score")
  /\ UNCHANGED <<queueVars, cRaw, memoryVars, leadTables, faults>>

(* Mutant: the cap is not compared.                                        *)
ScoreMutant(c) ==
  /\ cPc[c] = "score"
  /\ Goto(c, "hook")
  /\ UNCHANGED <<queueVars, cRaw, memoryVars, leadTables, faults>>

(* Disqualified or below the threshold; or on to the spend cap, compared   *)
(* here and added to two model calls later.  (spendCapHit repeats it:      *)
(* spend never falls during a run.)                                        *)
Score(c) ==
  /\ cPc[c] = "score"
  /\ \/ Goto(c, "low") /\ UNCHANGED cRaw
     \/ spend >= SpendCap /\ Done(c)
     \/ spend < SpendCap /\ Goto(c, "hook") /\ UNCHANGED cRaw
  /\ UNCHANGED <<queueVars, memoryVars, leadTables, faults>>

(* A model call returned and is added to what the run has spent.           *)
Write(c) ==
  /\ \/ cPc[c] = "hook" /\ Goto(c, "body")
     \/ cPc[c] = "body" /\ Goto(c, "ready")
  /\ spend' = spend + 1
  /\ UNCHANGED <<queueVars, cRaw, known, cooled, leadTables, faults>>

(* Mutant: a ready lead is left without its email.                         *)
InsertLeadMutant(c) ==
  LET e == EmailOf[cRaw[c]]
  IN /\ cPc[c] \in {"invalid", "low", "ready"}
     /\ leadRows' = [leadRows EXCEPT ![e] = @ + 1]
     /\ ready' = IF cPc[c] = "ready" THEN ready \cup {e} ELSE ready
     /\ Done(c)
     /\ UNCHANGED <<queueVars, memoryVars, mailRows, faults>>

(* insertLead, and prisma.lead.create for an invalid address.              *)
InsertLead(c) ==
  LET e == EmailOf[cRaw[c]]
  IN /\ cPc[c] \in {"invalid", "low", "ready"}
     /\ leadRows' = [leadRows EXCEPT ![e] = @ + 1]
     /\ \/ /\ cPc[c] # "ready"
           /\ Done(c)
           /\ UNCHANGED ready
        \/ /\ cPc[c] = "ready"
           /\ ready' = ready \cup {e}
           /\ Goto(c, "email")
           /\ UNCHANGED cRaw
     /\ UNCHANGED <<queueVars, memoryVars, mailRows, faults>>

CreateEmail(c) ==
  /\ cPc[c] = "email"
  /\ mailRows' = mailRows \cup {EmailOf[cRaw[c]]}
  /\ Done(c)
  /\ UNCHANGED <<queueVars, memoryVars, leadRows, ready, faults>>

(* Something threw; the catch of processLead logs it.  A model call may do *)
(* so any time, a database call costs a fault.                             *)
LeadFails(c) ==
  /\ \/ cPc[c] \in Calling /\ UNCHANGED faults
     \/ cPc[c] \in Inserting /\ Fault
  /\ Done(c)
  /\ UNCHANGED <<queueVars, memoryVars, leadTables>>

(* Logging that throws too, and the consumer rejects.  Its promise is      *)
(* awaited only when the producers are done: before, the rejection is      *)
(* unhandled and ends the process.                                         *)
ConsumerRejects(c) ==
  /\ cPc[c] \in Working
  /\ Fault
  /\ \/ /\ producersDone
        /\ Goto(c, "gone")
        /\ cRaw' = [cRaw EXCEPT ![c] = NoRaw]
        /\ run' = "failed"
        /\ UNCHANGED <<todo, pPc, producersDone, queue, found, memoryVars>>
     \/ ~producersDone /\ MemoryLost
  /\ UNCHANGED leadTables

ProducerStep(p) == PickBatch(p) \/ Discover(p) \/ DiscoverNothing(p)

ConsumerStep(c) ==
  \/ NextLead(c)
  \/ Drop(c)
  \/ Deduplicate(c)
  \/ Duplicate(c)
  \/ Verify(c)
  \/ Score(c)
  \/ Write(c)
  \/ InsertLead(c)
  \/ CreateEmail(c)
  \/ LeadFails(c)

RunStep == EndDiscovery \/ FinishRun

LeadNext ==
  \/ StartRun
  \/ RunStep
  \/ \E p \in Producer : ProducerStep(p) \/ ProducerRejects(p)
  \/ \E c \in Consumer : ConsumerStep(c) \/ ConsumerRejects(c)
  \/ ProcessCrash

LeadSpec == LeadInit /\ [][LeadNext]_leadVars

-----------------------------------------------------------------------------
(* Properties *)

(* No wake-up is lost: nobody sleeps beside a lead that waits, or after    *)
(* the last batch.  (findLeads.js:283-289, :318-325)                       *)
NobodySleepsThrough ==
  (\E c \in Consumer : cPc[c] = "wait") => queue = {} /\ ~producersDone

(* An address becomes a leads row once, whatever finds it how often, over  *)
(* crashes and later runs.  (findLeads.js:355-366)                         *)
OneRowPerEmail == \A e \in Email : leadRows[e] <= 1

(* The cap is passed by less than the two calls of each lead that is past  *)
(* the gate at once.  (findLeads.js:408-449)                               *)
SpendBound == spend < SpendCap + 2 * Cardinality(Consumer)

(* A 'ready' lead without its step-0 email, which no engine will ever      *)
(* mail or find again, costs a fault, and a fault costs at most one of     *)
(* them per consumer.  (findLeads.js:468-500)                              *)
Stranded == {e \in ready \ mailRows :
               \A c \in Consumer : cPc[c] = "email" => EmailOf[cRaw[c]] # e}

FewStranded == Cardinality(Stranded) <= faults * Cardinality(Consumer)

(* The run keeps its promise: every lead is worked on once, and success    *)
(* means that all of them are settled.                                     *)
Held == {cRaw[c] : c \in {d \in Consumer : cPc[d] \in Working}}

Work == INSTANCE LeadWork WITH waiting <- queue, working <- Held,
                               settled <- found \ (queue \cup Held)

KeepsPromise == Work!WorkSpec

(* Every run ends, however its calls fail.  The event loop runs every      *)
(* continuation that is ready, and every call returns or throws.           *)
LeadFairness ==
  /\ WF_leadVars(RunStep)
  /\ \A p \in Producer : WF_leadVars(ProducerStep(p))
  /\ \A c \in Consumer : WF_leadVars(ConsumerStep(c))

FairLeadSpec == LeadSpec /\ LeadFairness

RunEnds == run = "on" ~> run # "on"
=============================================================================
