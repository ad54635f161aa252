----------------------------- MODULE Dashboard ------------------------------
(***************************************************************************)
(* The dashboard mutations of apps/api that write the tables the engines   *)
(* read: bulkLeadStatus, setLeadStatus (updateLead writes the same column) *)
(* and rejectReply, and the kill switch of src/engines/healthCheck.js with *)
(* the config editor that undoes it.  They run in the API process, beside  *)
(* the workers.  A bulk call is a read of the lead followed by its writes; *)
(* the model handles one lead at a time.                                   *)
(***************************************************************************)
EXTENDS CheckReplies

CONSTANTS DashActions,  \* mutations in use: see DashboardActions
          SetStatuses,  \* statuses an operator sets by hand
          KillSwitch    \* TRUE: healthCheck may find the domain listed

DashboardActions == {"nurture", "unsubscribed", "reject", "requeue"}

ASSUME DashAssumption == /\ DashActions \subseteq DashboardActions
                         /\ SetStatuses \subseteq LeadStatuses
                         /\ KillSwitch \in BOOLEAN

VARIABLES dPc,   \* the write a bulk call or a rejectReply does next
          dLead  \* the lead it is about

dashVars == <<dPc, dLead>>

DashPcs == {"idle", "rejectLead", "replyReject", "replyLead", "replySeq"}
             \cup DashboardActions

DashTypeOK ==
  /\ dPc \in DashPcs
  /\ dLead \in Lead \cup {NoLead}
  /\ dPc # "idle" => dLead \in Lead

DashInit ==
  /\ dPc = "idle"
  /\ dLead = NoLead

-----------------------------------------------------------------------------

DashDone == dPc' = "idle" /\ dLead' = NoLead

(* bulkLeadStatus reads the lead and decides; the write comes later.       *)
BulkRead(l, action) ==
  /\ dPc = "idle"
  /\ leadStatus[l] \notin {"bounced", "replied"}
  /\ action = "requeue" => email0[l] = "pending"
  /\ dPc' = action
  /\ dLead' = l
  /\ UNCHANGED dbVars

(* Mutant: requeue writes its own name as the status.                      *)
BulkWriteStatusMutant ==
  /\ dPc \in {"nurture", "unsubscribed", "requeue"}
  /\ SetLead(dLead, dPc)
  /\ DashDone
  /\ UNCHANGED <<email0, seq, sentRows, rejectList, hardBounces, metricVars,
                 limit, ghostVars, faults>>

BulkWriteStatus ==
  /\ \/ dPc = "nurture" /\ SetLead(dLead, "nurture")
     \/ dPc = "unsubscribed" /\ SetLead(dLead, "unsubscribed")
     \/ dPc = "requeue" /\ SetLead(dLead, "ready")
  /\ DashDone
  /\ UNCHANGED <<email0, seq, sentRows, rejectList, hardBounces, metricVars,
                 limit, ghostVars, faults>>

(* Bulk reject, and the first write of rejectReply: the reject list.       *)
DashReject ==
  /\ \/ dPc = "reject" /\ dPc' = "rejectLead"
     \/ dPc = "replyReject" /\ dPc' = "replyLead"
  /\ AddToRejectList(dLead)
  /\ UNCHANGED <<dLead, leadStatus, email0, seq, sentRows, hardBounces,
                 metricVars, limit, ghostVars, faults>>

DashRejectLead ==
  /\ \/ dPc = "rejectLead" /\ DashDone
     \/ dPc = "replyLead" /\ dPc' = "replySeq" /\ UNCHANGED dLead
  /\ SetLead(dLead, "unsubscribed")
  /\ UNCHANGED <<email0, seq, sentRows, rejectList, hardBounces,
                 metricVars, limit, ghostVars, faults>>

RejectReply(m) ==
  /\ dPc = "idle"
  /\ "reject" \in DashActions
  /\ m \in replies
  /\ dPc' = "replyReject"
  /\ dLead' = m.lead
  /\ UNCHANGED dbVars

RejectReplySequence ==
  /\ dPc = "replySeq"
  /\ SetSeqStatus(dLead, "unsubscribed")
  /\ DashDone
  /\ UNCHANGED <<leadStatus, email0, sentRows, rejectList, hardBounces,
                 metricVars, limit, ghostVars, faults>>

(* A mutation stops half-way: the API process dies or a write throws.      *)
DashFails ==
  /\ dPc # "idle"
  /\ Fault
  /\ DashDone
  /\ UNCHANGED <<tableVars, metricVars, limit, ghostVars>>

(* setLeadStatus writes any status, whatever the lead's status is.         *)
SetLeadStatus(l, status) ==
  /\ SetLead(l, status)
  /\ UNCHANGED <<dashVars, email0, seq, sentRows, rejectList, hardBounces,
                 metricVars, limit, ghostVars, faults>>

(* healthCheck: the domain is on a blacklist or the week's bounce rate is  *)
(* too high, and daily_send_limit becomes 0.                               *)
ForceLimitZero ==
  /\ KillSwitch
  /\ limit # 0
  /\ limit' = 0
  /\ UNCHANGED <<dashVars, tableVars, metricVars, ghostVars, faults>>

(* An operator puts daily_send_limit back (updateConfig).                  *)
RestoreLimit ==
  /\ limit # DailyLimit
  /\ limit' = DailyLimit
  /\ UNCHANGED <<dashVars, tableVars, metricVars, ghostVars, faults>>

DashMutation ==
  \/ \E l \in Lead, action \in DashActions : BulkRead(l, action)
  \/ BulkWriteStatus
  \/ DashReject
  \/ DashRejectLead
  \/ \E m \in Message : RejectReply(m)
  \/ RejectReplySequence
  \/ DashFails
  \/ \E l \in Lead, status \in SetStatuses : SetLeadStatus(l, status)
  \/ ForceLimitZero
  \/ RestoreLimit
=============================================================================
