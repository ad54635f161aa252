--------------------------- MODULE SendFollowups ----------------------------
(***************************************************************************)
(* Engine 3b, src/engines/sendFollowups.js: steps 1 .. LastStep of the     *)
(* sequence.  It shares the tables with sendEmails and runs in the same    *)
(* worker process, under a queue (and so a run) of its own.  As there, the *)
(* sent count and the bounce rate are read together.                       *)
(***************************************************************************)
EXTENDS OutreachDB

CONSTANTS FollowupsEnabled, \* config.send_followups_enabled
          NoItem            \* "no sequence is being worked on"

ASSUME FollowupsAssumption == FollowupsEnabled \in BOOLEAN

VARIABLES fPc,     \* where the run is
          fQueue,  \* items of the snapshot not looked at yet
          fItem,   \* the item being worked on
          fLimit   \* daily_send_limit as read when the run started

followVars == <<fPc, fQueue, fItem, fLimit>>

(* What a run keeps of a sequence_state row it found due: the lead and the *)
(* step it will send, seq.currentStep + 1 at the time of the snapshot.     *)
Item == [lead : Lead, step : 1 .. LastStep]

ASSUME NoItemAssumption == NoItem \notin Item

FollowRecording == {"recEmail", "recSeq", "recBump"}
FollowPcs == {"idle", "loop", "check", "generate", "send"}
               \cup FollowRecording

FollowTypeOK ==
  /\ fPc \in FollowPcs
  /\ fQueue \subseteq Item
  /\ fItem \in Item \cup {NoItem}
  /\ fPc \notin {"idle", "loop"} => fItem \in Item
  /\ fLimit \in {0, DailyLimit}

FollowInit ==
  /\ fPc = "idle"
  /\ fQueue = {}
  /\ fItem = NoItem
  /\ fLimit = 0

-----------------------------------------------------------------------------

FollowGoto(pc) == fPc' = pc /\ UNCHANGED <<fQueue, fItem, fLimit>>

FollowReset ==
  /\ fPc' = "idle"
  /\ fQueue' = {}
  /\ fItem' = NoItem
  /\ fLimit' = 0

FollowContinue ==
  /\ fPc' = "loop"
  /\ fItem' = NoItem
  /\ UNCHANGED <<fQueue, fLimit>>

Due == {l \in Lead : /\ seq[l].status = "active"
                     /\ seq[l].due
                     /\ seq[l].step < LastStep}

FollowStart ==
  /\ fPc = "idle"
  /\ FollowupsEnabled
  /\ limit # 0
  /\ ~BounceStopped
  /\ Due # {}
  /\ fQueue' = {[lead |-> l, step |-> seq[l].step + 1] : l \in Due}
  /\ fPc' = "loop"
  /\ fLimit' = limit
  /\ UNCHANGED <<fItem, dbVars>>

FollowStop ==
  /\ fPc = "loop"
  /\ fQueue = {} \/ BounceStopped \/ sentToday >= fLimit
  /\ FollowReset
  /\ UNCHANGED dbVars

(* Mutant: the daily limit is not read again in the loop.                  *)
FollowCheckMutant(e) ==
  /\ fPc = "loop"
  /\ e \in fQueue
  /\ ~BounceStopped
  /\ fQueue' = fQueue \ {e}
  /\ fItem' = e
  /\ fPc' = "check"
  /\ UNCHANGED <<fLimit, dbVars>>

FollowCheck(e) ==
  /\ fPc = "loop"
  /\ e \in fQueue
  /\ ~BounceStopped
  /\ sentToday < fLimit
  /\ fQueue' = fQueue \ {e}
  /\ fItem' = e
  /\ fPc' = "check"
  /\ UNCHANGED <<fLimit, dbVars>>

(* The sequence of a rejected lead ends, that of a lead whose domain has   *)
(* bounced twice is paused; neither gets a mail.                           *)
FollowDrop ==
  LET l == fItem.lead
  IN /\ fPc = "check"
     /\ \/ IsRejected(l) /\ SetSeqStatus(l, "unsubscribed")
        \/ ~IsRejected(l) /\ DomainBounced(l) /\ SetSeqStatus(l, "paused")
     /\ FollowContinue
     /\ UNCHANGED <<leadStatus, email0, sentRows, rejectList, hardBounces,
                    metricVars, limit, ghostVars, faults>>

(* Mutant: the reject list is not asked.                                   *)
FollowTakeMutant ==
  /\ fPc = "check"
  /\ FollowGoto("generate")
  /\ UNCHANGED dbVars

FollowTake ==
  /\ fPc = "check"
  /\ ~IsRejected(fItem.lead)
  /\ ~DomainBounced(fItem.lead)
  /\ FollowGoto("generate")
  /\ UNCHANGED dbVars

(* The generated text is valid, at once or the second time; the inbox is   *)
(* the round robin's.                                                      *)
FollowGenerated ==
  /\ fPc = "generate"
  /\ \/ NextInbox \in GoodInbox /\ FollowGoto("send")
     \/ NextInbox \notin GoodInbox /\ FollowReset
  /\ UNCHANGED dbVars

(* Both texts are invalid, or the model call threw (the spend cap does):   *)
(* nothing is written, the sequence stays due.                             *)
FollowNotGenerated ==
  /\ fPc = "generate"
  /\ FollowContinue
  /\ UNCHANGED dbVars

(* Mutant: the emails row is not created.                                  *)
FollowAcceptedMutant ==
  /\ fPc = "send"
  /\ Deliver(fItem.lead, fItem.step)
  /\ FollowGoto("recSeq")
  /\ UNCHANGED <<tableVars, metricVars, limit, faults>>

(* sendMail returned a message id.                                         *)
FollowAccepted ==
  /\ fPc = "send"
  /\ Deliver(fItem.lead, fItem.step)
  /\ FollowGoto("recEmail")
  /\ UNCHANGED <<tableVars, metricVars, limit, faults>>

(* sendMail threw: a bounce of any code, a refused connection, or the lost *)
(* answer to an accepted mail.  Only the error is logged.                  *)
FollowNotSent ==
  /\ fPc = "send"
  /\ \/ UNCHANGED <<ghostVars, faults>>
     \/ Fault /\ Deliver(fItem.lead, fItem.step)
  /\ FollowContinue
  /\ UNCHANGED <<tableVars, metricVars, limit>>

-----------------------------------------------------------------------------
(* The writes after an accepted mail, one await each.                      *)

FollowRecordEmail ==
  /\ fPc = "recEmail"
  /\ sentRows' = [sentRows EXCEPT ![fItem.lead] = @ \cup {fItem.step}]
  /\ FollowGoto("recSeq")
  /\ UNCHANGED <<leadStatus, email0, seq, rejectList, hardBounces,
                 metricVars, limit, ghostVars, faults>>

(* Mutant: the step is not advanced.                                       *)
FollowRecordSequenceMutant ==
  /\ fPc = "recSeq"
  /\ seq' = [seq EXCEPT ![fItem.lead].due = FALSE]
  /\ FollowGoto("recBump")
  /\ UNCHANGED <<leadStatus, email0, sentRows, rejectList, hardBounces,
                 metricVars, limit, ghostVars, faults>>

(* NEXT_STEP_DAYS has no entry for the last step: the sequence is over.    *)
(* Otherwise only the step and the date are written, never the status.     *)
FollowRecordSequence ==
  /\ fPc = "recSeq"
  /\ \/ /\ fItem.step < LastStep
        /\ seq' = [seq EXCEPT ![fItem.lead].step = fItem.step,
                              ![fItem.lead].due = FALSE]
     \/ /\ fItem.step = LastStep
        /\ seq' = [seq EXCEPT ![fItem.lead].step = fItem.step,
                              ![fItem.lead].status = "completed"]
  /\ FollowGoto("recBump")
  /\ UNCHANGED <<leadStatus, email0, sentRows, rejectList, hardBounces,
                 metricVars, limit, ghostVars, faults>>

FollowRecordMetrics ==
  /\ fPc = "recBump"
  /\ BumpSent
  /\ FollowContinue
  /\ UNCHANGED <<tableVars, limit, ghostVars, faults>>

(* A failed database call: from the model call on it is caught and logged, *)
(* at the top of the loop it ends the run.                                 *)
FollowCallFails ==
  /\ Fault
  /\ \/ fPc \in FollowRecording /\ FollowContinue
     \/ fPc \in {"loop", "check"} /\ FollowReset
  /\ UNCHANGED <<tableVars, metricVars, limit, ghostVars>>

FollowEngine ==
  \/ FollowStop
  \/ \E e \in Item : FollowCheck(e)
  \/ FollowDrop
  \/ FollowTake
  \/ FollowGenerated
  \/ FollowNotGenerated
  \/ FollowAccepted
  \/ FollowNotSent
  \/ FollowRecordEmail
  \/ FollowRecordSequence
  \/ FollowRecordMetrics
=============================================================================
