----------------------------- MODULE SendEmails -----------------------------
(***************************************************************************)
(* Engine 3a, src/engines/sendEmails.js: the cold (step-0) send run, one   *)
(* action per stretch of code between two awaits another process can see.  *)
(* At most one run exists at a time: the BullMQ worker of its queue has    *)
(* concurrency 1.                                                          *)
(*                                                                         *)
(* The bounce rate and the sent count come from one daily_metrics row,     *)
(* read twice in a row at the top of the loop: here once.                  *)
(***************************************************************************)
EXTENDS OutreachDB

CONSTANT SendEnabled \* config.send_emails_enabled

ASSUME SendAssumption == SendEnabled \in BOOLEAN

VARIABLES sPc,     \* where the run is
          sQueue,  \* leads of the snapshot not looked at yet
          sLead,   \* the lead being worked on
          sLimit   \* daily_send_limit as read when the run started

sendVars == <<sPc, sQueue, sLead, sLimit>>

SendRecording == {"recEmail", "recLead", "recSeq", "recBump"}
SendBouncing  == {"hbEmail", "hbRow", "hbReject", "hbLead", "hbBump"}
SendPcs == {"idle", "loop", "check", "validate", "rejectLead", "send"}
             \cup SendRecording \cup SendBouncing

SendTypeOK ==
  /\ sPc \in SendPcs
  /\ sQueue \subseteq Lead
  /\ sLead \in Lead \cup {NoLead}
  /\ sPc \notin {"idle", "loop"} => sLead \in Lead
  /\ sLimit \in {0, DailyLimit}

SendInit ==
  /\ sPc = "idle"
  /\ sQueue = {}
  /\ sLead = NoLead
  /\ sLimit = 0

-----------------------------------------------------------------------------

SendGoto(pc) == sPc' = pc /\ UNCHANGED <<sQueue, sLead, sLimit>>

(* The run is over, by finishing, by break, by the outer catch or a crash. *)
SendReset ==
  /\ sPc' = "idle"
  /\ sQueue' = {}
  /\ sLead' = NoLead
  /\ sLimit' = 0

(* On to the next lead of the snapshot.                                    *)
SendContinue ==
  /\ sPc' = "loop"
  /\ sLead' = NoLead
  /\ UNCHANGED <<sQueue, sLimit>>

Sendable == {l \in Lead : leadStatus[l] = "ready" /\ email0[l] = "pending"}

(* The pre-flight checks, then the snapshot: at most the rest of today's   *)
(* limit, any of the ready leads (the order by score is left open).        *)
SendStart ==
  /\ sPc = "idle"
  /\ SendEnabled
  /\ limit # 0
  /\ ~BounceStopped
  /\ sentToday < limit
  /\ \E q \in SUBSET Sendable :
       /\ q # {}
       /\ Cardinality(q) <= limit - sentToday
       /\ Cardinality(q) = limit - sentToday \/ q = Sendable
       /\ sQueue' = q
  /\ sPc' = "loop"
  /\ sLimit' = limit
  /\ UNCHANGED <<sLead, dbVars>>

(* Top of the loop: the limits stop the run, or the next lead is looked    *)
(* at, which the reject list skips or lets through.                        *)
SendStop ==
  /\ sPc = "loop"
  /\ sQueue = {} \/ BounceStopped \/ sentToday >= sLimit
  /\ SendReset
  /\ UNCHANGED dbVars

SendCheck(l) ==
  /\ sPc = "loop"
  /\ l \in sQueue
  /\ ~BounceStopped
  /\ sentToday < sLimit
  /\ sQueue' = sQueue \ {l}
  /\ sLead' = l
  /\ sPc' = "check"
  /\ UNCHANGED <<sLimit, dbVars>>

(* Mutant: the loop does not advance past a rejected lead.                 *)
SendSkipMutant ==
  /\ sPc = "check"
  /\ IsRejected(sLead)
  /\ sPc' = "loop"
  /\ sQueue' = sQueue \cup {sLead}
  /\ sLead' = NoLead
  /\ UNCHANGED <<sLimit, dbVars>>

SendSkip ==
  /\ sPc = "check"
  /\ IsRejected(sLead)
  /\ SendContinue
  /\ UNCHANGED dbVars

SendTake ==
  /\ sPc = "check"
  /\ ~IsRejected(sLead)
  /\ SendGoto("validate")
  /\ UNCHANGED dbVars

(* The text is valid, at once or after one regeneration; the inbox is the  *)
(* round robin's, and a run whose inbox is off the outreach domain breaks. *)
SendValidated ==
  /\ sPc = "validate"
  /\ \/ NextInbox \in GoodInbox /\ SendGoto("send")
     \/ NextInbox \notin GoodInbox /\ SendReset
  /\ UNCHANGED dbVars

(* The second text is invalid too, or regenerating it threw: the email row *)
(* is content_rejected, and only in the first case the lead as well.       *)
SendContentRejected ==
  /\ sPc = "validate"
  /\ email0' = [email0 EXCEPT ![sLead] = "content_rejected"]
  /\ SendGoto("rejectLead") \/ SendContinue
  /\ UNCHANGED <<leadStatus, seq, sentRows, rejectList, hardBounces,
                 metricVars, limit, ghostVars, faults>>

SendRejectLead ==
  /\ sPc = "rejectLead"
  /\ SetLead(sLead, "content_rejected")
  /\ SendContinue
  /\ UNCHANGED <<email0, seq, sentRows, rejectList, hardBounces,
                 metricVars, limit, ghostVars, faults>>

(* sendMail returned a message id.                                         *)
SendAccepted ==
  /\ sPc = "send"
  /\ Deliver(sLead, 0)
  /\ SendGoto("recEmail")
  /\ UNCHANGED <<tableVars, metricVars, limit, faults>>

(* sendMail threw without an SMTP code: refused connection, or the answer  *)
(* to an accepted mail was lost.  Only the error is logged.                *)
SendNoAnswer ==
  /\ sPc = "send"
  /\ \/ UNCHANGED <<ghostVars, faults>>
     \/ Fault /\ Deliver(sLead, 0)
  /\ SendContinue
  /\ UNCHANGED <<tableVars, metricVars, limit>>

(* A 4xx answer: the email row is soft_bounce, the lead stays as it is.    *)
SendSoftBounce ==
  /\ sPc = "send"
  /\ email0' = [email0 EXCEPT ![sLead] = "soft_bounce"]
  /\ SendContinue
  /\ UNCHANGED <<leadStatus, seq, sentRows, rejectList, hardBounces,
                 metricVars, limit, ghostVars, faults>>

(* Mutant: the email row keeps its status.                                 *)
SendHardBounceMutant ==
  /\ sPc = "send"
  /\ SendGoto("hbRow")
  /\ UNCHANGED dbVars

(* A 5xx answer: five writes follow, starting with the email row.          *)
SendHardBounce ==
  /\ sPc = "send"
  /\ SendGoto("hbEmail")
  /\ UNCHANGED dbVars

-----------------------------------------------------------------------------
(* The writes after an accepted mail, one await each.                      *)

SendRecordEmail ==
  /\ sPc = "recEmail"
  /\ email0' = [email0 EXCEPT ![sLead] = "sent"]
  /\ SendGoto("recLead")
  /\ UNCHANGED <<leadStatus, seq, sentRows, rejectList, hardBounces,
                 metricVars, limit, ghostVars, faults>>

SendRecordLead ==
  /\ sPc = "recLead"
  /\ SetLead(sLead, "sent")
  /\ SendGoto("recSeq")
  /\ UNCHANGED <<email0, seq, sentRows, rejectList, hardBounces,
                 metricVars, limit, ghostVars, faults>>

(* Mutant: the sequence starts at step 1.                                  *)
SendRecordSequenceMutant ==
  /\ sPc = "recSeq"
  /\ seq' = [seq EXCEPT ![sLead] =
               [step |-> 1, status |-> "active", due |-> FALSE]]
  /\ SendGoto("recBump")
  /\ UNCHANGED <<leadStatus, email0, sentRows, rejectList, hardBounces,
                 metricVars, limit, ghostVars, faults>>

SendRecordSequence ==
  /\ sPc = "recSeq"
  /\ seq' = [seq EXCEPT ![sLead] =
               [step |-> 0, status |-> "active", due |-> FALSE]]
  /\ SendGoto("recBump")
  /\ UNCHANGED <<leadStatus, email0, sentRows, rejectList, hardBounces,
                 metricVars, limit, ghostVars, faults>>

SendRecordMetrics ==
  /\ sPc = "recBump"
  /\ BumpSent
  /\ SendContinue
  /\ UNCHANGED <<tableVars, limit, ghostVars, faults>>

(* The writes after a hard bounce, one await each.                         *)

SendBounceEmail ==
  /\ sPc = "hbEmail"
  /\ email0' = [email0 EXCEPT ![sLead] = "hard_bounce"]
  /\ SendGoto("hbRow")
  /\ UNCHANGED <<leadStatus, seq, sentRows, rejectList, hardBounces,
                 metricVars, limit, ghostVars, faults>>

SendBounceRow ==
  /\ sPc = "hbRow"
  /\ hardBounces' = hardBounces \cup {sLead}
  /\ SendGoto("hbReject")
  /\ UNCHANGED <<leadStatus, email0, seq, sentRows, rejectList,
                 metricVars, limit, ghostVars, faults>>

SendBounceReject ==
  /\ sPc = "hbReject"
  /\ AddToRejectList(sLead)
  /\ SendGoto("hbLead")
  /\ UNCHANGED <<leadStatus, email0, seq, sentRows, hardBounces,
                 metricVars, limit, ghostVars, faults>>

SendBounceLead ==
  /\ sPc = "hbLead"
  /\ SetLead(sLead, "bounced")
  /\ SendGoto("hbBump")
  /\ UNCHANGED <<email0, seq, sentRows, rejectList, hardBounces,
                 metricVars, limit, ghostVars, faults>>

SendBounceMetrics ==
  /\ sPc = "hbBump"
  /\ bouncedToday' = bouncedToday + 1
  /\ SendContinue
  /\ UNCHANGED <<sentToday, tableVars, limit, ghostVars, faults>>

(* A database call fails.  Inside one of the two try blocks the error (it  *)
(* has no SMTP code) is only logged; elsewhere in the loop, the catch that *)
(* records a bounce included, it ends the run.                             *)
SendCallFails ==
  /\ Fault
  /\ \/ sPc \in SendRecording \cup {"rejectLead"} /\ SendContinue
     \/ sPc \in SendBouncing \cup {"loop", "check", "validate"} /\ SendReset
  /\ UNCHANGED <<tableVars, metricVars, limit, ghostVars>>

SendEngine ==
  \/ SendStop
  \/ \E l \in Lead : SendCheck(l)
  \/ SendSkip
  \/ SendTake
  \/ SendValidated
  \/ SendContentRejected
  \/ SendRejectLead
  \/ SendAccepted
  \/ SendNoAnswer
  \/ SendSoftBounce
  \/ SendHardBounce
  \/ SendRecordEmail
  \/ SendRecordLead
  \/ SendRecordSequence
  \/ SendRecordMetrics
  \/ SendBounceEmail
  \/ SendBounceRow
  \/ SendBounceReject
  \/ SendBounceLead
  \/ SendBounceMetrics
=============================================================================
