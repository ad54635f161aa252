-------------------------- MODULE FindLeadsProofs ----------------------------
(***************************************************************************)
(* What FindLeads guarantees for any number of producers, consumers, raw   *)
(* leads and batches, any spend cap and any fault budget: no wake-up is    *)
(* lost, a run keeps the promise of LeadWork, an address becomes one row,  *)
(* the spend cap is passed by no more than the leads past the gate, and a  *)
(* fault strands no more than what the consumers hold.                     *)
(***************************************************************************)
EXTENDS FindLeads, FiniteSetTheorems, TLAPS

(* Where a lead has passed deduplication and has no row yet.               *)
Pending == Working \ {"extract", "email"}

(* A lead is held by one consumer and is off the queue; who is gone while  *)
(* the run is on has seen the last of the queue; a run that is not under   *)
(* way has nobody at work.                                                 *)
QueueInv ==
  /\ \A c, d \in Consumer :
       cPc[c] \in Working /\ cRaw[c] = cRaw[d] => c = d
  /\ \A c \in Consumer : cPc[c] \in Working => cRaw[c] \in found \ queue
  /\ producersDone => \A p \in Producer : pPc[p] = "done"
  /\ run = "on" /\ (\E c \in Consumer : cPc[c] = "gone")
       => producersDone /\ queue = {}
  /\ run \notin {"on", "failed"} =>
       /\ queue = {}
       /\ \A p \in Producer : pPc[p] = "done"
       /\ \A c \in Consumer : cPc[c] = "gone"

(* Every row that exists is known to a run under way, and so is every      *)
(* address past deduplication; such an address has no row and no rival.    *)
RowInv ==
  /\ \A e \in Email : leadRows[e] <= 1
  /\ run # "off" => \A e \in Email : leadRows[e] > 0 => e \in known
  /\ \A c \in Consumer : cPc[c] \in Pending =>
       /\ EmailOf[cRaw[c]] \in known
       /\ leadRows[EmailOf[cRaw[c]]] = 0
  /\ \A c, d \in Consumer :
       cPc[c] \in Pending /\ cPc[d] \in Pending /\ c # d
         => EmailOf[cRaw[c]] # EmailOf[cRaw[d]]

(* What the consumers past the gate may still spend, and have spent.       *)
At(pc) == {c \in Consumer : cPc[c] = pc}

SpendInv ==
  spend + 2 * Cardinality(At("hook")) + Cardinality(At("body"))
    < SpendCap + 2 * Cardinality(Consumer)

LeadInv == LeadTypeOK /\ NobodySleepsThrough /\ QueueInv

-----------------------------------------------------------------------------
(* Types, wake-ups and the queue *)

(* LeadTypeOK in two parts.                                                *)
ConsumersOK ==
  /\ cPc \in [Consumer -> {"next", "wait", "gone"} \cup Working]
  /\ cRaw \in [Consumer -> Raw \cup {NoRaw}]
  /\ \A c \in Consumer : cPc[c] \in Working <=> cRaw[c] \in Raw

OthersOK ==
  /\ run \in {"off", "on", "success", "failed"}
  /\ todo \in 0 .. Batches
  /\ pPc \in [Producer -> {"pick", "discover", "done"}]
  /\ producersDone \in BOOLEAN
  /\ found \subseteq Raw
  /\ queue \subseteq found
  /\ known \subseteq Email
  /\ cooled \subseteq Domain
  /\ spend \in Nat
  /\ leadRows \in [Email -> Nat]
  /\ ready \subseteq Email
  /\ mailRows \subseteq Email
  /\ faults \in 0 .. MaxFaults

LEMMA TypeParts == LeadTypeOK <=> ConsumersOK /\ OthersOK
  BY DEF LeadTypeOK, ConsumersOK, OthersOK

(* Consumers that hold nothing are well typed.                             *)
LEMMA FreshConsumers ==
  ASSUME NEW pc \in {"next", "gone"}
  PROVE  LET at  == [c \in Consumer |-> pc]
             raw == [c \in Consumer |-> NoRaw]
         IN /\ at \in [Consumer -> {"next", "wait", "gone"} \cup Working]
            /\ raw \in [Consumer -> Raw \cup {NoRaw}]
            /\ \A c \in Consumer : at[c] \in Working <=> raw[c] \in Raw
  BY RawAssumption DEF Working, Calling, Inserting

LEMMA LeadInvInit == LeadInit => LeadInv
<1> SUFFICES ASSUME LeadInit PROVE LeadInv
  OBVIOUS
<1> USE DEF LeadInit
<1>1. LeadTypeOK
  <2>1. ConsumersOK
    BY FreshConsumers DEF ConsumersOK
  <2>2. producersDone \in BOOLEAN
    OBVIOUS
  <2>3. OthersOK
    BY <2>2, BatchesAssumption, FaultAssumption DEF OthersOK
  <2> QED BY <2>1, <2>3, TypeParts
<1>2. NobodySleepsThrough /\ QueueInv
  BY DEF NobodySleepsThrough, QueueInv, Working, Calling, Inserting
<1> QED BY <1>1, <1>2 DEF LeadInv

(* A process that starts or restarts has nobody at work.                   *)
LEMMA MemoryLostInv ==
  ASSUME LeadInv, MemoryLost, leadTables' = leadTables, faults' \in 0 .. MaxFaults
  PROVE  LeadInv'
<1> USE DEF MemoryLost
<1>1. LeadTypeOK'
  <2>1. ConsumersOK'
    BY FreshConsumers DEF ConsumersOK
  <2>2. producersDone' \in BOOLEAN
    OBVIOUS
  <2>3. OthersOK'
    BY <2>2, BatchesAssumption, TypeParts DEF LeadInv, OthersOK, leadTables
  <2> QED BY <2>1, <2>3, TypeParts DEF LeadTypeOK, ConsumersOK, OthersOK
<1>2. NobodySleepsThrough' /\ QueueInv'
  BY DEF NobodySleepsThrough, QueueInv, Working, Calling, Inserting
<1> QED BY <1>1, <1>2 DEF LeadInv

LEMMA LeadInvStart ==
  ASSUME LeadInv, StartRun
  PROVE  LeadInv'
<1> USE DEF StartRun
<1>1. LeadTypeOK'
  <2>1. spend' \in Nat /\ cooled' \in SUBSET Domain
    BY SpendAssumption, EmailAssumption DEF LeadInv, LeadTypeOK
  <2>2. known' \in SUBSET Email
    OBVIOUS
  <2>3. ConsumersOK'
    BY FreshConsumers DEF ConsumersOK
  <2>4. producersDone' \in BOOLEAN
    OBVIOUS
  <2>5. OthersOK'
    BY <2>1, <2>2, <2>4, BatchesAssumption, TypeParts
    DEF LeadInv, OthersOK, leadTables
  <2> QED BY <2>3, <2>5, TypeParts DEF LeadTypeOK, ConsumersOK, OthersOK
<1>2. NobodySleepsThrough' /\ QueueInv'
  BY DEF NobodySleepsThrough, QueueInv, Working, Calling, Inserting
<1> QED BY <1>1, <1>2 DEF LeadInv

LEMMA LeadInvRun ==
  ASSUME LeadInv, RunStep \/ ProcessCrash
  PROVE  LeadInv'
<1> USE BatchesAssumption, FaultAssumption, RawAssumption,
        EmailAssumption, WorkersAssumption
    DEF LeadInv, LeadTypeOK, NobodySleepsThrough, QueueInv, Working, Calling,
        Inserting, queueVars, memoryVars, leadTables
<1>1. CASE EndDiscovery
  BY <1>1 DEF EndDiscovery, Notify
<1>2. CASE FinishRun
  BY <1>2 DEF FinishRun
<1>3. CASE ProcessCrash
  BY <1>3, MemoryLostInv DEF ProcessCrash, Fault
<1> QED BY <1>1, <1>2, <1>3 DEF RunStep

LEMMA LeadInvProducer ==
  ASSUME LeadInv, NEW p \in Producer, ProducerStep(p) \/ ProducerRejects(p)
  PROVE  LeadInv'
<1> USE BatchesAssumption, FaultAssumption, RawAssumption
    DEF LeadInv, LeadTypeOK, NobodySleepsThrough, QueueInv, Working, Calling,
        Inserting, memoryVars, leadTables
<1>1. CASE PickBatch(p)
  BY <1>1 DEF PickBatch
<1>2. CASE Discover(p)
  BY <1>2 DEF Discover, Notify
<1>3. CASE DiscoverNothing(p)
  BY <1>3 DEF DiscoverNothing
<1>4. CASE ProducerRejects(p)
  BY <1>4 DEF ProducerRejects, Fault
<1> QED BY <1>1, <1>2, <1>3, <1>4 DEF ProducerStep

LEMMA LeadInvConsumer ==
  ASSUME LeadInv, NEW c \in Consumer, ConsumerStep(c) \/ ConsumerRejects(c)
  PROVE  LeadInv'
<1> USE RawAssumption, EmailAssumption, FaultAssumption, BatchesAssumption
    DEF LeadInv, LeadTypeOK, NobodySleepsThrough, QueueInv, Working, Calling,
        Inserting, queueVars, memoryVars, leadTables, Goto, Done
<1>1. CASE NextLead(c)
  BY <1>1 DEF NextLead
<1>2. CASE Drop(c)
  BY <1>2 DEF Drop
<1>3. CASE Deduplicate(c)
  BY <1>3 DEF Deduplicate
<1>4. CASE Duplicate(c)
  BY <1>4 DEF Duplicate
<1>5. CASE Verify(c)
  BY <1>5 DEF Verify
<1>6. CASE Score(c)
  BY <1>6 DEF Score
<1>7. CASE Write(c)
  BY <1>7 DEF Write
<1>8. CASE InsertLead(c)
  BY <1>8 DEF InsertLead
<1>9. CASE CreateEmail(c)
  BY <1>9 DEF CreateEmail
<1>10. CASE LeadFails(c)
  BY <1>10 DEF LeadFails, Fault
<1>11. CASE ConsumerRejects(c)
  <2>1. faults' \in 0 .. MaxFaults
    BY <1>11 DEF ConsumerRejects, Fault
  <2>2. CASE MemoryLost
    BY <1>11, <2>1, <2>2, MemoryLostInv DEF ConsumerRejects
  <2>3. CASE ~MemoryLost
    BY <1>11, <2>1, <2>3 DEF ConsumerRejects
  <2> QED BY <2>2, <2>3
<1> QED BY <1>1, <1>2, <1>3, <1>4, <1>5, <1>6, <1>7, <1>8, <1>9, <1>10, <1>11
        DEF ConsumerStep

LEMMA LeadInvStep ==
  ASSUME LeadInv, [LeadNext]_leadVars
  PROVE  LeadInv'
<1>1. CASE UNCHANGED leadVars
  BY <1>1 DEF LeadInv, LeadTypeOK, NobodySleepsThrough, QueueInv, leadVars,
              queueVars, memoryVars, leadTables
<1> QED BY <1>1, LeadInvStart, LeadInvRun, LeadInvProducer, LeadInvConsumer DEF LeadNext

(* Every value of every variable stays in its domain.                      *)
THEOREM LeadTyping == LeadSpec => []LeadTypeOK
<1>1. LeadInit => LeadInv
  BY LeadInvInit
<1>2. LeadInv /\ [LeadNext]_leadVars => LeadInv'
  BY LeadInvStep
<1>3. LeadInv => LeadTypeOK
  BY DEF LeadInv
<1> QED BY <1>1, <1>2, <1>3, PTL DEF LeadSpec

(* No consumer sleeps beside a waiting lead or after the last batch.       *)
THEOREM NobodySleepsThroughHolds == LeadSpec => []NobodySleepsThrough
<1>1. LeadInit => LeadInv
  BY LeadInvInit
<1>2. LeadInv /\ [LeadNext]_leadVars => LeadInv'
  BY LeadInvStep
<1>3. LeadInv => NobodySleepsThrough
  BY DEF LeadInv
<1> QED BY <1>1, <1>2, <1>3, PTL DEF LeadSpec

-----------------------------------------------------------------------------
(* The promise of LeadWork *)

(* Waking the sleepers moves no lead.                                      *)
LEMMA HeldNotify ==
  ASSUME LeadTypeOK, Notify, UNCHANGED cRaw
  PROVE  Held' = Held
<1>1. \A c \in Consumer : cPc'[c] \in Working <=> cPc[c] \in Working
  BY DEF LeadTypeOK, Notify, Working, Calling, Inserting
<1> QED BY <1>1 DEF Held

LEMMA WorkRun ==
  ASSUME LeadInv, LeadInv', StartRun \/ RunStep \/ ProcessCrash
  PROVE  [Work!WorkNext]_(Work!workVars)
<1> USE DEF LeadInv, QueueInv, Held, Working, Calling, Inserting
<1>1. CASE StartRun
  <2>1. Held = {} /\ Held' = {}
    BY <1>1 DEF StartRun, AtRest
  <2>2. Work!Begin
    BY <1>1, <2>1 DEF StartRun, Work!Begin, Work!Idle
  <2> QED BY <2>2 DEF Work!WorkNext
<1>2. CASE EndDiscovery
  <2>1. Held' = Held
    BY <1>2, HeldNotify DEF EndDiscovery
  <2> QED BY <1>2, <2>1 DEF EndDiscovery, Work!workVars
<1>3. CASE FinishRun
  <2>1. Held = {} /\ Held' = {} /\ queue = {}
    BY <1>3, WorkersAssumption DEF FinishRun
  <2>2. Work!Succeed
    BY <1>3, <2>1 DEF FinishRun, Work!Succeed
  <2> QED BY <2>2 DEF Work!WorkNext
<1>4. CASE ProcessCrash
  BY <1>4 DEF ProcessCrash, MemoryLost, Work!WorkNext, Work!Crash, Work!Idle
<1> QED BY <1>1, <1>2, <1>3, <1>4 DEF RunStep

LEMMA WorkProducer ==
  ASSUME LeadInv, LeadInv', NEW p \in Producer,
         ProducerStep(p) \/ ProducerRejects(p)
  PROVE  [Work!WorkNext]_(Work!workVars)
<1> USE DEF Work!workVars
<1>1. CASE PickBatch(p) \/ DiscoverNothing(p)
  BY <1>1 DEF PickBatch, DiscoverNothing, Held
<1>2. CASE Discover(p)
  <2>1. Held' = Held
    BY <1>2, HeldNotify DEF Discover, LeadInv
  <2>2. PICK leads \in SUBSET (Raw \ found) :
          /\ leads # {}
          /\ queue' = queue \cup leads
          /\ found' = found \cup leads
    BY <1>2 DEF Discover
  <2>3. Held \subseteq found /\ queue \subseteq found
    BY DEF LeadInv, LeadTypeOK, QueueInv, Held
  <2>4. run \in {"on", "failed"} /\ run' = run
    BY <1>2 DEF Discover, LeadInv, LeadTypeOK, QueueInv
  <2>5. Work!Find
    BY <2>1, <2>2, <2>3, <2>4 DEF Work!Find
  <2> QED BY <2>5 DEF Work!WorkNext
<1>3. CASE ProducerRejects(p)
  <2>1. run \in {"on", "failed"} /\ run' = "failed" /\ Held' = Held
        /\ UNCHANGED <<queue, found>>
    BY <1>3 DEF ProducerRejects, LeadInv, LeadTypeOK, QueueInv, Held
  <2> QED BY <2>1 DEF Work!WorkNext, Work!Fail
<1> QED BY <1>1, <1>2, <1>3 DEF ProducerStep

(* Putting down a lead, whatever else the step does.                       *)
LEMMA HeldLess ==
  ASSUME LeadInv, NEW c \in Consumer, cPc[c] \in Working,
         NEW pc \in {"next", "gone"}, Goto(c, pc),
         cRaw' = [cRaw EXCEPT ![c] = NoRaw]
  PROVE  cRaw[c] \in Held /\ Held' = Held \ {cRaw[c]}
  BY RawAssumption
  DEF LeadInv, LeadTypeOK, QueueInv, Held, Goto, Working, Calling, Inserting

LEMMA WorkConsumer ==
  ASSUME LeadInv, LeadInv', NEW c \in Consumer,
         ConsumerStep(c) \/ ConsumerRejects(c)
  PROVE  [Work!WorkNext]_(Work!workVars)
<1>1. CASE cPc[c] \in Working /\ Done(c) /\ UNCHANGED queueVars
  <2>1. cRaw[c] \in Held /\ Held' = Held \ {cRaw[c]}
    BY <1>1, HeldLess DEF Done
  <2>2. cRaw[c] \in Raw /\ cRaw[c] \in found \ queue
    BY <1>1 DEF LeadInv, LeadTypeOK, QueueInv
  <2>3. Work!Settle(cRaw[c])
    BY <1>1, <2>1, <2>2 DEF Work!Settle, queueVars
  <2> QED BY <2>2, <2>3 DEF Work!WorkNext
<1>2. CASE cPc[c] \in Working /\ cPc'[c] \in Working
           /\ (\E pc \in Working : Goto(c, pc))
           /\ UNCHANGED <<queueVars, cRaw>>
  <2>1. Held' = Held
    BY <1>2 DEF Held, Goto, LeadInv, LeadTypeOK
  <2> QED BY <1>2, <2>1 DEF Work!workVars, queueVars
<1>3. CASE NextLead(c)
  <2>1. CASE queue = {}
    <3>1. Held' = Held
      BY <1>3, <2>1 DEF NextLead, Goto, Held, LeadInv, LeadTypeOK, Working,
                        Calling, Inserting
    <3> QED BY <1>3, <2>1, <3>1 DEF NextLead, Work!workVars
  <2>2. ASSUME NEW r \in queue, queue' = queue \ {r},
               cRaw' = [cRaw EXCEPT ![c] = r], Goto(c, "extract")
        PROVE  Work!WorkNext
    <3>1. r \in Raw /\ cPc[c] = "next"
      BY <1>3, <2>2 DEF LeadInv, LeadTypeOK, NextLead
    <3>2. Held' = Held \cup {r}
      BY <2>2, <3>1 DEF Goto, Held, LeadInv, LeadTypeOK, Working, Calling,
                        Inserting
    <3>3. run \in {"on", "failed"} /\ UNCHANGED <<run, found>>
      BY <1>3, <2>2 DEF NextLead, LeadInv, LeadTypeOK, QueueInv
    <3>4. Work!Take(r)
      BY <2>2, <3>1, <3>2, <3>3 DEF Work!Take, LeadInv, LeadTypeOK
    <3> QED BY <3>1, <3>4 DEF Work!WorkNext
  <2> QED BY <1>3, <2>1, <2>2 DEF NextLead
<1>4. CASE ConsumerRejects(c)
  <2>1. CASE ~producersDone
    BY <1>4, <2>1
    DEF ConsumerRejects, MemoryLost, Held, Working, Calling, Inserting,
        Work!WorkNext, Work!Crash, Work!Idle
  <2>2. CASE producersDone
    <3>1. cRaw[c] \in Held /\ Held' = Held \ {cRaw[c]}
      BY <1>4, <2>2, HeldLess DEF ConsumerRejects
    <3>2. cRaw[c] \in Raw /\ cRaw[c] \in found \ queue
      BY <1>4 DEF ConsumerRejects, LeadInv, LeadTypeOK, QueueInv
    <3>3. run \in {"on", "failed"}
      BY <1>4 DEF ConsumerRejects, LeadInv, LeadTypeOK, QueueInv, Working,
                  Calling, Inserting
    <3>4. Work!Settle(cRaw[c])
      BY <1>4, <2>2, <3>1, <3>2, <3>3 DEF ConsumerRejects, Work!Settle
    <3> QED BY <3>2, <3>4 DEF Work!WorkNext
  <2> QED BY <2>1, <2>2
<1>5. CASE ConsumerStep(c) /\ ~NextLead(c)
  <2> USE DEF Working, Calling, Inserting, Goto
  <2>1. LeadTypeOK
    BY DEF LeadInv
  <2>2. CASE Drop(c) \/ Duplicate(c) \/ CreateEmail(c) \/ LeadFails(c)
    BY <1>1, <2>2 DEF Drop, Duplicate, CreateEmail, LeadFails
  <2>3. CASE Deduplicate(c) \/ Verify(c) \/ Write(c)
    BY <1>2, <2>1, <2>3 DEF Deduplicate, Verify, Write, LeadTypeOK
  <2>4. CASE Score(c)
    BY <1>1, <1>2, <2>1, <2>4 DEF Score, LeadTypeOK
  <2>5. CASE InsertLead(c)
    BY <1>1, <1>2, <2>1, <2>5 DEF InsertLead, LeadTypeOK
  <2> QED BY <1>5, <2>2, <2>3, <2>4, <2>5 DEF ConsumerStep
<1> QED BY <1>3, <1>4, <1>5

(* FindLeads implements LeadWork: a lead is worked on once, and a run that *)
(* reports success has settled every lead it found.                        *)
THEOREM KeepsPromiseHolds == LeadSpec => KeepsPromise
<1>1. LeadInit => LeadInv
  BY LeadInvInit
<1>2. LeadInv /\ [LeadNext]_leadVars => LeadInv'
  BY LeadInvStep
<1>3. LeadInit => Work!WorkInit
  BY DEF LeadInit, Work!WorkInit, Work!Idle, Held, Working, Calling, Inserting
<1>4. ASSUME LeadInv, LeadInv', [LeadNext]_leadVars
      PROVE  [Work!WorkNext]_(Work!workVars)
  <2>1. CASE UNCHANGED leadVars
    BY <2>1 DEF leadVars, queueVars, Held, Work!workVars
  <2> QED BY <1>4, <2>1, WorkRun, WorkProducer, WorkConsumer DEF LeadNext
<1> QED BY <1>1, <1>2, <1>3, <1>4, PTL DEF LeadSpec, KeepsPromise, Work!WorkSpec

-----------------------------------------------------------------------------
(* One row for an address *)

LEMMA RowInvStep ==
  ASSUME LeadInv, LeadInv', RowInv, [LeadNext]_leadVars
  PROVE  RowInv'
<1>a. /\ LeadTypeOK
      /\ \A c \in Consumer : cPc[c] \in Pending => cRaw[c] \in Raw
      /\ run = "off" => \A c \in Consumer : cPc[c] \notin Pending
  BY DEF LeadInv, LeadTypeOK, QueueInv, Pending, Working, Calling, Inserting
<1>b. \A r \in Raw : EmailOf[r] \in Email
  BY RawAssumption
(* Nothing the invariant is about changes, and nobody joins the pending.   *)
<1>c. ASSUME UNCHANGED <<known, leadRows>>, run' = "off" \/ run # "off",
             \A c \in Consumer : cPc'[c] \in Pending =>
               cPc[c] \in Pending /\ cRaw'[c] = cRaw[c]
      PROVE  RowInv'
  BY <1>c DEF RowInv
<1>d. ASSUME NEW pc \in {"next", "gone"}, cPc' = [c \in Consumer |-> pc]
      PROVE  \A c \in Consumer : cPc'[c] \notin Pending
  BY <1>d DEF Pending, Working, Calling, Inserting
<1>1. CASE StartRun
  <2>1. \A c \in Consumer : cPc'[c] \notin Pending
    BY <1>1, <1>d DEF StartRun
  <2> QED BY <1>1, <2>1 DEF StartRun, RowInv, leadTables
<1>2. CASE RunStep
  BY <1>2, <1>a, <1>c DEF Pending, Working, Calling, Inserting,
      RunStep, EndDiscovery, FinishRun, Notify, memoryVars,
                          leadTables, LeadTypeOK
<1>3. ASSUME MemoryLost, leadTables' = leadTables PROVE RowInv'
  <2>1. \A c \in Consumer : cPc'[c] \notin Pending
    BY <1>3, <1>d DEF MemoryLost
  <2> QED BY <1>3, <2>1 DEF MemoryLost, RowInv, leadTables
<1>4. ASSUME NEW p \in Producer, ProducerStep(p) \/ ProducerRejects(p)
      PROVE  RowInv'
  <2>1. run # "off"  \/ run' = "off"
    BY <1>4 DEF ProducerStep, PickBatch, Discover, DiscoverNothing,
                ProducerRejects, LeadInv, QueueInv
  <2> QED BY <1>4, <1>a, <1>c, <2>1
          DEF Pending, Working, Calling, Inserting, ProducerStep, PickBatch,
              Discover, DiscoverNothing, ProducerRejects, Notify, memoryVars, leadTables, LeadTypeOK
<1>5. ASSUME NEW c \in Consumer, ConsumerStep(c) \/ ConsumerRejects(c)
      PROVE  RowInv'
  <2> USE DEF Goto, Done, Pending, Working, Calling, Inserting
  <2>1. CASE NextLead(c) \/ Drop(c) \/ Duplicate(c) \/ CreateEmail(c)
             \/ LeadFails(c) \/ Verify(c) \/ Score(c) \/ Write(c)
    <3>1. run # "off" \/ run' = "off"
      BY <2>1 DEF NextLead, Drop, Duplicate, CreateEmail, LeadFails, Verify,
                  Score, Write, queueVars
    <3> QED BY <2>1, <3>1, <1>a, <1>c
      DEF NextLead, Drop, Duplicate, CreateEmail, LeadFails, Verify, Score,
          Write, memoryVars, leadTables, LeadTypeOK
  <2>2. CASE Deduplicate(c)
    BY <2>2, <1>a, <1>b DEF Deduplicate, RowInv, LeadTypeOK, leadTables,
                            queueVars, LeadInv, QueueInv
  <2>3. CASE InsertLead(c)
    <3> DEFINE e == EmailOf[cRaw[c]]
    <3>1. cPc[c] \in Pending /\ e \in Email /\ e \in known /\ leadRows[e] = 0
      BY <2>3, <1>a, <1>b DEF InsertLead, RowInv
    <3>2. \A d \in Consumer : cPc'[d] \in Pending =>
            d # c /\ cPc[d] \in Pending /\ cRaw'[d] = cRaw[d]
      BY <2>3, <1>a DEF InsertLead, LeadTypeOK
    <3>3. \A d \in Consumer : d # c /\ cPc[d] \in Pending =>
            EmailOf[cRaw[d]] # e
      BY <3>1 DEF RowInv
    <3>4. /\ leadRows' = [leadRows EXCEPT ![e] = 1]
          /\ leadRows \in [Email -> Nat]
          /\ UNCHANGED <<run, known>>
      BY <2>3, <3>1, <1>a DEF InsertLead, LeadTypeOK, memoryVars, queueVars
    <3>5. \A d \in Consumer : cPc[d] \in Pending => EmailOf[cRaw[d]] \in Email
      BY <1>a, <1>b
    <3> HIDE DEF e, Pending
    <3> QED BY <3>1, <3>2, <3>3, <3>4, <3>5 DEF RowInv
  <2>4. CASE ConsumerRejects(c)
    <3>1. CASE ~producersDone
      BY <2>4, <3>1, <1>3 DEF ConsumerRejects
    <3>2. CASE producersDone
      BY <2>4, <3>2, <1>a, <1>c DEF ConsumerRejects, memoryVars, leadTables,
                                    LeadTypeOK, LeadInv, QueueInv
    <3> QED BY <3>1, <3>2
  <2> QED BY <1>5, <2>1, <2>2, <2>3, <2>4 DEF ConsumerStep
<1>6. CASE ProcessCrash
  BY <1>6, <1>3 DEF ProcessCrash
<1>7. CASE UNCHANGED leadVars
  BY <1>7, <1>c DEF leadVars, queueVars, memoryVars, leadTables
<1> QED BY <1>1, <1>2, <1>4, <1>5, <1>6, <1>7 DEF LeadNext

(* However often an address is found, it becomes one row.                  *)
THEOREM OneRowPerEmailHolds == LeadSpec => []OneRowPerEmail
<1>1. LeadInit => LeadInv
  BY LeadInvInit
<1>2. LeadInv /\ [LeadNext]_leadVars => LeadInv'
  BY LeadInvStep
<1>3. LeadInit => RowInv
  <2>1. LeadInit => \A c \in Consumer : cPc[c] \notin Pending
    BY DEF LeadInit, Pending, Working, Calling, Inserting
  <2> QED BY <2>1 DEF LeadInit, RowInv
<1>4. LeadInv /\ LeadInv' /\ RowInv /\ [LeadNext]_leadVars => RowInv'
  BY RowInvStep
<1>5. RowInv => OneRowPerEmail
  BY DEF RowInv, OneRowPerEmail
<1> QED BY <1>1, <1>2, <1>3, <1>4, <1>5, PTL DEF LeadSpec

-----------------------------------------------------------------------------
(* The spend cap *)

LEMMA AtFinite ==
  ASSUME NEW pc
  PROVE  /\ IsFiniteSet(At(pc)) /\ Cardinality(At(pc)) \in Nat
         /\ IsFiniteSet(At(pc)') /\ Cardinality(At(pc)') \in Nat
  BY WorkersAssumption, FS_Subset, FS_CardinalityType DEF At

LEMMA SomeConsumer == Cardinality(Consumer) \in Nat \ {0}
  BY WorkersAssumption, FS_CardinalityType, FS_EmptySet

(* However many are past the gate, they are consumers.                     *)
LEMMA AtBound ==
  2 * Cardinality(At("hook")') + Cardinality(At("body")')
    <= 2 * Cardinality(Consumer)
<1> DEFINE H == At("hook")'
           B == At("body")'
<1>1. H \cap B = {} /\ H \cup B \subseteq Consumer
  BY DEF At
<1>2. IsFiniteSet(H) /\ IsFiniteSet(B)
  BY AtFinite
<1>3. Cardinality(H \cup B) = Cardinality(H) + Cardinality(B)
  <2> HIDE DEF H, B
  <2>1. Cardinality(H \cap B) = 0
    BY <1>1, FS_EmptySet
  <2>2. Cardinality(H \cup B)
          = Cardinality(H) + Cardinality(B) - Cardinality(H \cap B)
    BY <1>2, FS_Union
  <2>3. Cardinality(H) \in Nat /\ Cardinality(B) \in Nat
    BY <1>2, FS_CardinalityType
  <2> QED BY <2>1, <2>2, <2>3
<1>4. Cardinality(H \cup B) <= Cardinality(Consumer)
  BY <1>1, WorkersAssumption, FS_Subset
<1>5. Cardinality(H) \in Nat /\ Cardinality(B) \in Nat
  BY <1>2, FS_CardinalityType
<1> HIDE DEF H, B
<1>6. 2 * Cardinality(H) + Cardinality(B) <= 2 * Cardinality(Consumer)
  BY <1>3, <1>4, <1>5, SomeConsumer
<1> QED BY <1>6 DEF H, B

LEMMA SpendInvStep ==
  ASSUME LeadInv, LeadInv', SpendInv, [LeadNext]_leadVars
  PROVE  SpendInv'
<1>a. spend \in Nat /\ spend' \in Nat /\ SpendCap \in Nat
  BY SpendAssumption DEF LeadInv, LeadTypeOK
(* Nobody comes past the gate.                                             *)
<1>b. ASSUME spend' = spend,
             At("hook")' \subseteq At("hook"), At("body")' \subseteq At("body")
      PROVE  SpendInv'
  <2>1. /\ Cardinality(At("hook")') <= Cardinality(At("hook"))
        /\ Cardinality(At("body")') <= Cardinality(At("body"))
    BY <1>b, AtFinite, FS_Subset
  <2> QED BY <1>a, <1>b, <2>1, AtFinite, SomeConsumer DEF SpendInv
(* Nobody is past it.                                                      *)
<1>c. ASSUME spend' <= SpendCap, \A c \in Consumer : cPc'[c] \in {"next", "gone"}
      PROVE  SpendInv'
  <2>1. At("hook")' = {} /\ At("body")' = {}
    BY <1>c DEF At
  <2>2. Cardinality(At("hook")') = 0 /\ Cardinality(At("body")') = 0
    BY <2>1, FS_EmptySet
  <2> QED BY <1>a, <1>c, <2>2, SomeConsumer DEF SpendInv
<1>1. CASE StartRun
  BY <1>1, <1>c, SpendAssumption DEF StartRun
<1>2. ASSUME MemoryLost PROVE SpendInv'
  BY <1>2, <1>a, <1>c DEF MemoryLost
<1>3. CASE RunStep
  BY <1>3, <1>b DEF RunStep, EndDiscovery, FinishRun, Notify, memoryVars, At
<1>4. ASSUME NEW p \in Producer, ProducerStep(p) \/ ProducerRejects(p)
      PROVE  SpendInv'
  BY <1>4, <1>b DEF ProducerStep, PickBatch, Discover, DiscoverNothing,
                    ProducerRejects, Notify, memoryVars, At
<1>5. ASSUME NEW c \in Consumer, ConsumerStep(c) \/ ConsumerRejects(c)
      PROVE  SpendInv'
  <2>0. cPc \in [Consumer -> {"next", "wait", "gone"} \cup Working]
    BY DEF LeadInv, LeadTypeOK
  <2>1. CASE NextLead(c) \/ Drop(c) \/ Deduplicate(c) \/ Duplicate(c)
             \/ Verify(c) \/ InsertLead(c) \/ CreateEmail(c) \/ LeadFails(c)
    BY <1>b, <2>0, <2>1
    DEF NextLead, Drop, Deduplicate, Duplicate, Verify, InsertLead,
        CreateEmail, LeadFails, Goto, Done, memoryVars, At
  <2>2. CASE Score(c)
    <3>1. CASE spend < SpendCap
      BY <1>a, <2>2, <3>1, AtBound, AtFinite, SomeConsumer
      DEF Score, SpendInv, memoryVars
    <3>2. CASE ~(spend < SpendCap)
      BY <1>b, <2>0, <2>2, <3>2 DEF Score, Goto, Done, memoryVars, At
    <3> QED BY <3>1, <3>2
  <2>3. CASE Write(c) /\ cPc[c] = "hook"
    <3>1. /\ c \in At("hook") /\ At("hook")' = At("hook") \ {c}
          /\ c \notin At("body") /\ At("body")' = At("body") \cup {c}
      BY <2>0, <2>3 DEF Write, Goto, At
    <3>2. /\ Cardinality(At("hook")') = Cardinality(At("hook")) - 1
          /\ Cardinality(At("body")') = Cardinality(At("body")) + 1
      BY <3>1, AtFinite, FS_RemoveElement, FS_AddElement
    <3> QED BY <1>a, <2>3, <3>2, AtFinite, SomeConsumer DEF Write, SpendInv
  <2>4. CASE Write(c) /\ cPc[c] = "body"
    <3>1. /\ c \in At("body") /\ At("body")' = At("body") \ {c}
          /\ At("hook")' = At("hook")
      BY <2>0, <2>4 DEF Write, Goto, At
    <3>2. Cardinality(At("body")') = Cardinality(At("body")) - 1
      BY <3>1, AtFinite, FS_RemoveElement
    <3> QED BY <1>a, <2>4, <3>1, <3>2, AtFinite, SomeConsumer
            DEF Write, SpendInv
  <2>5. CASE ConsumerRejects(c)
    BY <1>2, <1>b, <2>0, <2>5
    DEF ConsumerRejects, Goto, memoryVars, At
  <2> QED BY <1>5, <2>1, <2>2, <2>3, <2>4, <2>5 DEF ConsumerStep, Write
<1>6. CASE ProcessCrash
  BY <1>2, <1>6 DEF ProcessCrash
<1>7. CASE UNCHANGED leadVars
  BY <1>7, <1>b DEF leadVars, memoryVars, At
<1> QED BY <1>1, <1>3, <1>4, <1>5, <1>6, <1>7 DEF LeadNext

(* The day's spend stays below the cap and two calls for every consumer.   *)
THEOREM SpendBoundHolds == LeadSpec => []SpendBound
<1>1. LeadInit => LeadInv
  BY LeadInvInit
<1>2. LeadInv /\ [LeadNext]_leadVars => LeadInv'
  BY LeadInvStep
<1>3. LeadInit => SpendInv
  <2> SUFFICES ASSUME LeadInit PROVE SpendInv
    OBVIOUS
  <2>1. At("hook") = {} /\ At("body") = {}
    BY DEF LeadInit, At
  <2>2. Cardinality(At("hook")) = 0 /\ Cardinality(At("body")) = 0
    BY <2>1, FS_EmptySet
  <2> QED BY <2>2, SomeConsumer, SpendAssumption DEF LeadInit, SpendInv
<1>4. LeadInv /\ LeadInv' /\ SpendInv /\ [LeadNext]_leadVars => SpendInv'
  BY SpendInvStep
<1>5. LeadInv /\ SpendInv => SpendBound
  BY AtFinite, SomeConsumer, SpendAssumption
  DEF SpendInv, SpendBound, LeadInv, LeadTypeOK
<1> QED BY <1>1, <1>2, <1>3, <1>4, <1>5, PTL DEF LeadSpec

-----------------------------------------------------------------------------
(* Stranded leads *)

(* What FewStranded needs beside the types: the stranded can be counted.   *)
StrandInv == IsFiniteSet(Stranded) /\ FewStranded

(* The addresses the consumers may be holding when they are all stopped.   *)
Stopped == {EmailOf[cRaw[c]] : c \in Consumer}

LEMMA StoppedFew == IsFiniteSet(Stopped) /\ Cardinality(Stopped) <= Cardinality(Consumer)
<1> DEFINE f == [c \in Consumer |-> EmailOf[cRaw[c]]]
<1>1. f \in Surjection(Consumer, Stopped)
  BY DEF Surjection, Stopped
<1> QED BY <1>1, WorkersAssumption, FS_Surjection

LEMMA FaultsPay ==
  ASSUME NEW n \in Nat, NEW m \in Nat PROVE (n + 1) * m = n * m + m
  OBVIOUS

(* No more are stranded, with or without a fault.                          *)
LEMMA NoMoreStranded ==
  ASSUME StrandInv, faults \in Nat, faults' \in {faults, faults + 1}, Stranded' \subseteq Stranded
  PROVE  StrandInv'
<1> DEFINE m == Cardinality(Consumer)
<1>1. IsFiniteSet(Stranded') /\ Cardinality(Stranded') <= Cardinality(Stranded)
  BY FS_Subset DEF StrandInv
<1>2. Cardinality(Stranded) \in Nat /\ Cardinality(Stranded') \in Nat /\ m \in Nat
  BY <1>1, FS_CardinalityType, SomeConsumer DEF StrandInv
<1>3. Cardinality(Stranded) <= faults * m
  BY DEF StrandInv, FewStranded
<1> HIDE DEF m
<1>4. faults * m \in Nat /\ (faults + 1) * m = faults * m + m
  BY <1>2, FaultsPay
<1>5. Cardinality(Stranded') <= faults' * m
  BY <1>1, <1>2, <1>3, <1>4
<1> QED BY <1>1, <1>5 DEF m, StrandInv, FewStranded

(* A fault strands what the consumers hold at most.                        *)
LEMMA FaultStrands ==
  ASSUME StrandInv, faults \in Nat, faults' = faults + 1, Stranded' \subseteq Stranded \cup Stopped
  PROVE  StrandInv'
<1> DEFINE m == Cardinality(Consumer)
           more == Stranded \cup Stopped
<1>1. IsFiniteSet(Stranded) /\ IsFiniteSet(Stopped) /\ Cardinality(Stopped) <= m
  BY StoppedFew DEF StrandInv
<1>2. /\ IsFiniteSet(more)
      /\ Cardinality(more) = Cardinality(Stranded) + Cardinality(Stopped) - Cardinality(Stranded \cap Stopped)
  BY <1>1, FS_Union
<1>3. IsFiniteSet(Stranded') /\ Cardinality(Stranded') <= Cardinality(more)
  BY <1>2, FS_Subset
<1>4. /\ Cardinality(Stranded) \in Nat /\ Cardinality(Stranded') \in Nat /\ Cardinality(Stopped) \in Nat
      /\ Cardinality(Stranded \cap Stopped) \in Nat /\ Cardinality(more) \in Nat /\ m \in Nat
  BY <1>1, <1>2, <1>3, FS_CardinalityType, FS_Intersection, SomeConsumer
<1>5. Cardinality(Stranded) <= faults * m
  BY DEF StrandInv, FewStranded
<1> HIDE DEF m, more
<1>6. faults * m \in Nat /\ (faults + 1) * m = faults * m + m
  BY <1>4, FaultsPay
<1>7. Cardinality(Stranded') <= (faults + 1) * m
  BY <1>1, <1>2, <1>3, <1>4, <1>5, <1>6
<1> QED BY <1>3, <1>7 DEF m, StrandInv, FewStranded

(* Nobody about to insert an email is stopped.                             *)
LEMMA EmailsGoOn ==
  ASSUME UNCHANGED <<ready, mailRows>>,
         \A c \in Consumer : cPc[c] = "email" => cPc'[c] = "email" /\ cRaw'[c] = cRaw[c]
  PROVE  Stranded' \subseteq Stranded
  BY DEF Stranded

(* Whoever is stopped leaves at most the addresses held.                   *)
LEMMA EmailsStop ==
  ASSUME UNCHANGED <<ready, mailRows>> PROVE Stranded' \subseteq Stranded \cup Stopped
  BY DEF Stranded, Stopped

LEMMA StrandInvStep ==
  ASSUME LeadInv, StrandInv, [LeadNext]_leadVars
  PROVE  StrandInv'
<1>1. faults \in Nat /\ cPc \in [Consumer -> {"next", "wait", "gone"} \cup Working]
      /\ cRaw \in [Consumer -> Raw \cup {NoRaw}]
  BY FaultAssumption DEF LeadInv, LeadTypeOK
<1>2. CASE StartRun
  <2>1. \A c \in Consumer : cPc[c] # "email"
    BY <1>2 DEF StartRun, AtRest, Working, Inserting
  <2>2. UNCHANGED <<ready, mailRows, faults>>
    BY <1>2 DEF StartRun, leadTables
  <2> QED BY <1>1, <2>1, <2>2, EmailsGoOn, NoMoreStranded
<1>3. CASE RunStep
  <2>1. UNCHANGED <<ready, mailRows, faults>>
    BY <1>3 DEF RunStep, EndDiscovery, FinishRun, leadTables
  <2>2. \A c \in Consumer : cPc[c] = "email" => cPc'[c] = "email" /\ cRaw'[c] = cRaw[c]
    BY <1>1, <1>3 DEF RunStep, EndDiscovery, FinishRun, Notify
  <2> QED BY <1>1, <2>1, <2>2, EmailsGoOn, NoMoreStranded
<1>4. ASSUME NEW p \in Producer, ProducerStep(p) \/ ProducerRejects(p)
      PROVE  StrandInv'
  <2>1. UNCHANGED <<ready, mailRows>> /\ faults' \in {faults, faults + 1}
    BY <1>4 DEF ProducerStep, PickBatch, Discover, DiscoverNothing, ProducerRejects, Fault, leadTables
  <2>2. \A c \in Consumer : cPc[c] = "email" => cPc'[c] = "email" /\ cRaw'[c] = cRaw[c]
    BY <1>1, <1>4 DEF ProducerStep, PickBatch, Discover, DiscoverNothing, ProducerRejects, Notify
  <2> QED BY <1>1, <2>1, <2>2, EmailsGoOn, NoMoreStranded
<1>5. ASSUME NEW c \in Consumer, ConsumerStep(c)
      PROVE  StrandInv'
  <2>1. CASE NextLead(c) \/ Drop(c) \/ Deduplicate(c) \/ Duplicate(c) \/ Verify(c) \/ Score(c) \/ Write(c)
    <3>1. UNCHANGED <<ready, mailRows, faults>>
      BY <2>1 DEF NextLead, Drop, Deduplicate, Duplicate, Verify, Score, Write, leadTables
    <3>2. \A d \in Consumer : cPc[d] = "email" => cPc'[d] = "email" /\ cRaw'[d] = cRaw[d]
      BY <1>1, <2>1 DEF NextLead, Drop, Deduplicate, Duplicate, Verify, Score, Write, Goto, Done
    <3> QED BY <1>1, <3>1, <3>2, EmailsGoOn, NoMoreStranded
  <2>2. CASE InsertLead(c)
    <3>1. faults' = faults /\ mailRows' = mailRows
          /\ \A d \in Consumer : cPc[d] = "email" => cPc'[d] = "email" /\ cRaw'[d] = cRaw[d]
      BY <1>1, <2>2 DEF InsertLead, Goto, Done
    <3>2. ready' = ready \/ (/\ ready' = ready \cup {EmailOf[cRaw[c]]}
                            /\ cPc'[c] = "email" /\ cRaw'[c] = cRaw[c])
      BY <1>1, <2>2 DEF InsertLead, Goto
    <3>3. Stranded' \subseteq Stranded
      BY <3>1, <3>2 DEF Stranded
    <3> QED BY <1>1, <3>1, <3>3, NoMoreStranded
  <2>3. CASE CreateEmail(c)
    <3>1. /\ ready' = ready /\ faults' = faults
          /\ mailRows' = mailRows \cup {EmailOf[cRaw[c]]}
          /\ \A d \in Consumer \ {c} : cPc[d] = "email" => cPc'[d] = "email" /\ cRaw'[d] = cRaw[d]
      BY <1>1, <2>3 DEF CreateEmail, Goto, Done
    <3>2. Stranded' \subseteq Stranded
      BY <3>1 DEF Stranded
    <3> QED BY <1>1, <3>1, <3>2, NoMoreStranded
  <2>4. CASE LeadFails(c)
    <3>1. UNCHANGED <<ready, mailRows>>
          /\ \A d \in Consumer \ {c} : cPc[d] = "email" => cPc'[d] = "email" /\ cRaw'[d] = cRaw[d]
      BY <1>1, <2>4 DEF LeadFails, Goto, Done, leadTables
    <3>2. CASE cPc[c] = "email"
      <4>1. faults' = faults + 1
        BY <2>4, <3>2 DEF LeadFails, Calling, Fault
      <4> QED BY <1>1, <3>1, <4>1, EmailsStop, FaultStrands
    <3>3. CASE cPc[c] # "email"
      <4>1. faults' \in {faults, faults + 1}
        BY <2>4 DEF LeadFails, Fault
      <4> QED BY <1>1, <3>1, <3>3, <4>1, EmailsGoOn, NoMoreStranded
    <3> QED BY <3>2, <3>3
  <2> QED BY <1>5, <2>1, <2>2, <2>3, <2>4 DEF ConsumerStep
<1>6. ASSUME UNCHANGED leadTables, Fault
      PROVE  StrandInv'
  <2>1. UNCHANGED <<ready, mailRows>> /\ faults' = faults + 1
    BY <1>6 DEF leadTables, Fault
  <2> QED BY <1>1, <2>1, EmailsStop, FaultStrands
<1>7. ASSUME NEW c \in Consumer, ConsumerRejects(c)
      PROVE  StrandInv'
  BY <1>6, <1>7 DEF ConsumerRejects
<1>8. CASE ProcessCrash
  BY <1>6, <1>8 DEF ProcessCrash
<1>9. CASE UNCHANGED leadVars
  <2>1. UNCHANGED <<ready, mailRows, faults, cPc, cRaw>>
    BY <1>9 DEF leadVars, leadTables
  <2> QED BY <1>1, <2>1, EmailsGoOn, NoMoreStranded
<1> QED BY <1>2, <1>3, <1>4, <1>5, <1>7, <1>8, <1>9 DEF LeadNext

(* A fault leaves at most one 'ready' lead per consumer without its email. *)
THEOREM FewStrandedHolds == LeadSpec => []FewStranded
<1>1. LeadInit => LeadInv
  BY LeadInvInit
<1>2. LeadInv /\ [LeadNext]_leadVars => LeadInv'
  BY LeadInvStep
<1>3. LeadInit => StrandInv
  <2> SUFFICES ASSUME LeadInit PROVE StrandInv
    OBVIOUS
  <2>1. Stranded = {}
    BY DEF LeadInit, Stranded
  <2>2. IsFiniteSet(Stranded) /\ Cardinality(Stranded) = 0
    BY <2>1, FS_EmptySet
  <2>3. faults * Cardinality(Consumer) = 0
    BY SomeConsumer DEF LeadInit
  <2> QED BY <2>2, <2>3 DEF StrandInv, FewStranded
<1>4. LeadInv /\ StrandInv /\ [LeadNext]_leadVars => StrandInv'
  BY StrandInvStep
<1>5. StrandInv => FewStranded
  BY DEF StrandInv
<1> QED BY <1>1, <1>2, <1>3, <1>4, <1>5, PTL DEF LeadSpec
=============================================================================
