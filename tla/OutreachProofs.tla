--------------------------- MODULE OutreachProofs ----------------------------
(***************************************************************************)
(* The safety properties of Outreach as theorems: first its types, with a  *)
(* lemma for each engine, then the invariants of OutreachInvariants.       *)
(***************************************************************************)
EXTENDS OutreachInvariants, TLAPS

-----------------------------------------------------------------------------
(* Updates several actions share *)

(* A mail handed to the SMTP server keeps the ghost counters in range.     *)
LEMMA TypingDeliver ==
  ASSUME DBTypeOK, NEW l \in Lead, NEW k \in Steps, Deliver(l, k)
  PROVE  /\ delivered' \in [Lead -> [Steps -> Nat]]
         /\ late' \in [Lead -> Nat]
         /\ acceptedToday' \in Nat
  BY DEF DBTypeOK, Deliver

(* updateMany on sequence_state writes a status and nothing else.          *)
LEMMA TypingSetSeqStatus ==
  ASSUME DBTypeOK, NEW l \in Lead, NEW status \in SeqStatuses,
         SetSeqStatus(l, status)
  PROVE  seq' \in [Lead -> Sequence]
  BY DEF DBTypeOK, Sequence, SetSeqStatus

-----------------------------------------------------------------------------
(* The cold send engine *)

LEMMA TypingSend ==
  ASSUME TypeOK, Send
  PROVE  DBTypeOK' /\ SendTypeOK'
<1>a. /\ 0 \in Steps
      /\ DBTypeOK
      /\ sPc \notin {"idle", "loop"} => sLead \in Lead
  BY StepAssumption DEF TypeOK, SendTypeOK, Steps
<1>b. ASSUME Deliver(sLead, 0), sPc = "send", SendTypeOK',
             UNCHANGED <<tableVars, metricVars, limit>>,
             faults' \in 0 .. MaxFaults
      PROVE  DBTypeOK' /\ SendTypeOK'
  BY <1>a, <1>b, TypingDeliver DEF DBTypeOK, tableVars, metricVars
<1> USE LimitAssumption, StepAssumption, FaultAssumption
    DEF TypeOK, DBTypeOK, SendTypeOK, Steps, LeadStatuses, EmailStatuses,
        SeqStatuses, Sequence, SendPcs, SendRecording, SendBouncing, dbVars,
        tableVars, metricVars, ghostVars, SendReset, SendContinue, SendGoto
<1>1. CASE SendStart
  BY <1>1 DEF SendStart, Sendable
<1>2. CASE SendStop
  BY <1>2 DEF SendStop
<1>3. ASSUME NEW l \in Lead, SendCheck(l)
      PROVE  DBTypeOK' /\ SendTypeOK'
  BY <1>3 DEF SendCheck
<1>4. CASE SendSkip
  BY <1>4 DEF SendSkip
<1>5. CASE SendTake
  BY <1>5 DEF SendTake
<1>6. CASE SendValidated
  BY <1>6 DEF SendValidated
<1>7. CASE SendContentRejected
  BY <1>7 DEF SendContentRejected
<1>8. CASE SendRejectLead
  BY <1>8 DEF SendRejectLead, SetLead
<1>9. CASE SendAccepted
  <2>1. SendTypeOK' /\ faults' \in 0 .. MaxFaults
    BY <1>9 DEF SendAccepted
  <2> QED
    BY <1>9, <1>b, <2>1 DEF SendAccepted
<1>10. CASE SendNoAnswer
  <2>1. SendTypeOK' /\ faults' \in 0 .. MaxFaults
    BY <1>10 DEF SendNoAnswer, Fault
  <2>2. CASE UNCHANGED <<ghostVars, faults>>
    BY <1>10, <2>1, <2>2 DEF SendNoAnswer
  <2>3. CASE Deliver(sLead, 0)
    BY <1>10, <1>b, <2>1, <2>3 DEF SendNoAnswer
  <2> QED
    BY <1>10, <2>2, <2>3 DEF SendNoAnswer
<1>11. CASE SendSoftBounce
  BY <1>11 DEF SendSoftBounce
<1>12. CASE SendHardBounce
  BY <1>12 DEF SendHardBounce
<1>13. CASE SendRecordEmail
  BY <1>13 DEF SendRecordEmail
<1>14. CASE SendRecordLead
  BY <1>14 DEF SendRecordLead, SetLead
<1>15. CASE SendRecordSequence
  BY <1>15 DEF SendRecordSequence
<1>16. CASE SendRecordMetrics
  BY <1>16 DEF SendRecordMetrics, BumpSent
<1>17. CASE SendBounceEmail
  BY <1>17 DEF SendBounceEmail
<1>18. CASE SendBounceRow
  BY <1>18 DEF SendBounceRow
<1>19. CASE SendBounceReject
  BY <1>19 DEF SendBounceReject, AddToRejectList
<1>20. CASE SendBounceLead
  BY <1>20 DEF SendBounceLead, SetLead
<1>21. CASE SendBounceMetrics
  BY <1>21 DEF SendBounceMetrics
<1>22. CASE SendCallFails
  BY <1>22 DEF SendCallFails, Fault
<1> QED
  BY <1>1, <1>2, <1>3, <1>4, <1>5, <1>6, <1>7, <1>8, <1>9, <1>10, <1>11,
     <1>12, <1>13, <1>14, <1>15, <1>16, <1>17, <1>18, <1>19, <1>20, <1>21,
     <1>22
     DEF Send, SendEngine

-----------------------------------------------------------------------------
(* The follow-up engine *)

LEMMA TypingFollowup ==
  ASSUME TypeOK, Followup
  PROVE  DBTypeOK' /\ FollowTypeOK'
<1>a. /\ DBTypeOK
      /\ fPc \notin {"idle", "loop"} => /\ fItem.lead \in Lead
                                        /\ fItem.step \in Steps
  BY StepAssumption DEF TypeOK, FollowTypeOK, Item, Steps
<1>b. ASSUME Deliver(fItem.lead, fItem.step), fPc = "send", FollowTypeOK',
             UNCHANGED <<tableVars, metricVars, limit>>,
             faults' \in 0 .. MaxFaults
      PROVE  DBTypeOK' /\ FollowTypeOK'
  BY <1>a, <1>b, TypingDeliver DEF DBTypeOK, tableVars, metricVars
<1>c. ASSUME seq' \in [Lead -> Sequence], FollowTypeOK',
             UNCHANGED <<leadStatus, email0, sentRows, rejectList,
                         hardBounces, metricVars, limit, ghostVars, faults>>
      PROVE  DBTypeOK' /\ FollowTypeOK'
  BY <1>a, <1>c DEF DBTypeOK, metricVars, ghostVars
<1>1. CASE FollowStart
  <2>1. fQueue' \subseteq Item
    <3>1. ASSUME NEW l \in Due
          PROVE  [lead |-> l, step |-> seq[l].step + 1] \in Item
      <4>1. l \in Lead /\ seq[l] \in Sequence /\ seq[l].step < LastStep
        BY <3>1, <1>a DEF Due, DBTypeOK
      <4>2. seq[l].step + 1 \in 1 .. LastStep
        BY <4>1, StepAssumption DEF Sequence, Steps
      <4> QED
        BY <4>1, <4>2 DEF Item
    <3> QED
      BY <1>1, <3>1 DEF FollowStart
  <2> QED
    BY <1>1, <2>1 DEF TypeOK, DBTypeOK, FollowTypeOK, FollowStart,
       FollowPcs, dbVars, tableVars, metricVars, ghostVars
<1>2. CASE FollowDrop
  <2>1. FollowTypeOK'
    BY <1>2 DEF TypeOK, FollowTypeOK, FollowDrop, FollowContinue, FollowPcs
  <2>2. seq' \in [Lead -> Sequence]
    BY <1>2, <1>a, TypingSetSeqStatus DEF FollowDrop, SeqStatuses
  <2> QED
    BY <1>2, <1>c, <2>1, <2>2 DEF FollowDrop
<1>3. CASE FollowRecordSequence
  <2>1. FollowTypeOK'
    BY <1>3 DEF TypeOK, FollowTypeOK, FollowRecordSequence, FollowGoto,
       FollowPcs, FollowRecording
  <2>2. fItem.lead \in Lead /\ fItem.step \in Steps
    BY <1>3, <1>a DEF FollowRecordSequence
  <2>3. seq \in [Lead -> Sequence]
    BY <1>a DEF DBTypeOK
  <2>4. CASE seq' = [seq EXCEPT ![fItem.lead].step = fItem.step,
                                ![fItem.lead].due = FALSE]
    BY <1>3, <1>c, <2>1, <2>2, <2>3, <2>4 DEF Sequence, FollowRecordSequence
  <2>5. CASE seq' = [seq EXCEPT ![fItem.lead].step = fItem.step,
                                ![fItem.lead].status = "completed"]
    BY <1>3, <1>c, <2>1, <2>2, <2>3, <2>5
       DEF Sequence, SeqStatuses, FollowRecordSequence
  <2> QED
    BY <1>3, <2>4, <2>5 DEF FollowRecordSequence
<1>4. CASE FollowAccepted
  <2>1. FollowTypeOK' /\ faults' \in 0 .. MaxFaults
    BY <1>4 DEF TypeOK, DBTypeOK, FollowTypeOK, FollowAccepted, FollowGoto,
       FollowPcs, FollowRecording
  <2> QED
    BY <1>4, <1>b, <2>1 DEF FollowAccepted
<1>5. CASE FollowNotSent
  <2>1. FollowTypeOK' /\ faults' \in 0 .. MaxFaults
    BY <1>5, FaultAssumption DEF TypeOK, DBTypeOK, FollowTypeOK,
       FollowNotSent, FollowContinue, FollowPcs, Fault
  <2>2. CASE UNCHANGED <<ghostVars, faults>>
    BY <1>5, <2>1, <2>2, <1>a DEF FollowNotSent, DBTypeOK, tableVars,
       metricVars, ghostVars
  <2>3. CASE Deliver(fItem.lead, fItem.step)
    BY <1>5, <1>b, <2>1, <2>3 DEF FollowNotSent
  <2> QED
    BY <1>5, <2>2, <2>3 DEF FollowNotSent
<1> USE FaultAssumption
    DEF TypeOK, DBTypeOK, FollowTypeOK, FollowPcs, FollowRecording, dbVars,
        tableVars, metricVars, ghostVars, FollowReset, FollowContinue,
        FollowGoto
<1>6. CASE FollowStop
  BY <1>6, LimitAssumption DEF FollowStop
<1>7. ASSUME NEW e \in Item, FollowCheck(e)
      PROVE  DBTypeOK' /\ FollowTypeOK'
  BY <1>7 DEF FollowCheck
<1>8. CASE FollowTake
  BY <1>8 DEF FollowTake
<1>9. CASE FollowGenerated
  BY <1>9 DEF FollowGenerated
<1>10. CASE FollowNotGenerated
  BY <1>10 DEF FollowNotGenerated
<1>11. CASE FollowRecordEmail
  BY <1>11 DEF FollowRecordEmail, Item
<1>12. CASE FollowRecordMetrics
  <2>1. DBTypeOK'
    BY <1>12 DEF FollowRecordMetrics, BumpSent
  <2>2. FollowTypeOK'
    BY <1>12 DEF FollowRecordMetrics
  <2> QED
    BY <2>1, <2>2
<1>13. CASE FollowCallFails
  BY <1>13 DEF FollowCallFails, Fault
<1> QED
  BY <1>1, <1>2, <1>3, <1>4, <1>5, <1>6, <1>7, <1>8, <1>9, <1>10, <1>11,
     <1>12, <1>13
     DEF Followup, FollowEngine

-----------------------------------------------------------------------------
(* Everything else: replies, the dashboard, crashes and midnight *)

LEMMA TypingReply ==
  ASSUME TypeOK, Reply
  PROVE  DBTypeOK' /\ ReplyTypeOK'
<1>a. DBTypeOK /\ ReplyTypeOK
  BY DEF TypeOK
<1>1. CASE ReplyFetch
  BY <1>1, <1>a DEF ReplyFetch, DBTypeOK, ReplyTypeOK, ReplyPcs, dbVars,
     tableVars, metricVars, ghostVars
<1>2. CASE ReplyFetchFails
  BY <1>2, <1>a, FaultAssumption DEF ReplyFetchFails, Fault, DBTypeOK,
     ReplyTypeOK, tableVars, metricVars, ghostVars
<1>3. CASE ReplyFinish
  BY <1>3, <1>a DEF ReplyFinish, ReplyReset, DBTypeOK, ReplyTypeOK, ReplyPcs,
     dbVars, tableVars, metricVars, ghostVars
<1>4. ASSUME NEW m \in Message, ReplyDuplicate(m)
      PROVE  DBTypeOK' /\ ReplyTypeOK'
  BY <1>4, <1>a DEF ReplyDuplicate, DBTypeOK, ReplyTypeOK, dbVars,
     tableVars, metricVars, ghostVars
<1>5. ASSUME NEW m \in Message, ReplyStore(m)
      PROVE  DBTypeOK' /\ ReplyTypeOK'
  <2>1. /\ FirstWrite(m.category) \in ReplyPcs
        /\ m.category # "other" => rMessage' = m
        /\ m.category = "other" => /\ FirstWrite(m.category) = "next"
                                   /\ rMessage' = NoMessage
    <3>1. m.category \in Categories
      BY CategoryAssumption DEF Message
    <3>2. FirstWrite(m.category) \in ReplyPcs
      BY <3>1 DEF FirstWrite, ReplyPcs, Categories
    <3>3. m.category = "other" => FirstWrite(m.category) = "next"
      BY DEF FirstWrite
    <3> QED
      BY <1>5, <3>2, <3>3 DEF ReplyStore
  <2>2. ReplyTypeOK'
    BY <1>5, <1>a, <2>1 DEF ReplyStore, ReplyTypeOK
  <2> QED
    BY <1>5, <1>a, <2>2 DEF ReplyStore, DBTypeOK, dbVars, tableVars,
       metricVars, ghostVars
<1>6. CASE ReplyReject
  BY <1>6, <1>a DEF ReplyReject, AddToRejectList, DBTypeOK, ReplyTypeOK,
     ReplyPcs, Message, metricVars, ghostVars
<1>7. CASE ReplyLead
  BY <1>7, <1>a DEF ReplyLead, SetLead, DBTypeOK, ReplyTypeOK, ReplyPcs,
     Message, LeadStatuses, metricVars, ghostVars
<1>8. CASE ReplySequence
  <2>1. rMessage.lead \in Lead
    BY <1>8, <1>a DEF ReplySequence, ReplyTypeOK, Message
  <2>2. seq' \in [Lead -> Sequence]
    <3>1. seq \in [Lead -> Sequence]
      BY <1>a DEF DBTypeOK
    <3>2. CASE SetSeqStatus(rMessage.lead, "replied")
      BY <1>a, <2>1, <3>2, TypingSetSeqStatus DEF SeqStatuses
    <3>3. CASE SetSeqStatus(rMessage.lead, "unsubscribed")
      BY <1>a, <2>1, <3>3, TypingSetSeqStatus DEF SeqStatuses
    <3>4. CASE seq' = IF SeqExists(rMessage.lead)
                        THEN [seq EXCEPT ![rMessage.lead].status = "active",
                                         ![rMessage.lead].due = FALSE]
                        ELSE seq
      BY <2>1, <3>1, <3>4 DEF Sequence, SeqStatuses
    <3>5. CASE seq' = [seq EXCEPT ![rMessage.lead].due = FALSE]
      BY <2>1, <3>1, <3>5 DEF Sequence
    <3> QED
      BY <1>8, <3>2, <3>3, <3>4, <3>5 DEF ReplySequence
  <2> QED
    BY <1>8, <1>a, <2>2 DEF ReplySequence, DBTypeOK, ReplyTypeOK, ReplyPcs,
       metricVars, ghostVars
<1>9. CASE ReplyWriteFails
  BY <1>9, <1>a, FaultAssumption DEF ReplyWriteFails, Fault, DBTypeOK,
     ReplyTypeOK, ReplyPcs, tableVars, metricVars, ghostVars
<1>10. ASSUME NEW m \in Message, ReplyArrives(m)
       PROVE  DBTypeOK' /\ ReplyTypeOK'
  BY <1>10, <1>a DEF ReplyArrives, DBTypeOK, ReplyTypeOK, dbVars,
     tableVars, metricVars, ghostVars
<1>11. ASSUME NEW m \in Message, ReplyNotStored(m)
       PROVE  DBTypeOK' /\ ReplyTypeOK'
  BY <1>11, <1>a, FaultAssumption DEF ReplyNotStored, Fault, DBTypeOK,
     ReplyTypeOK, tableVars, metricVars, ghostVars
<1> QED
  BY <1>1, <1>2, <1>3, <1>4, <1>5, <1>6, <1>7, <1>8, <1>9, <1>10, <1>11
     DEF Reply, ReplyEngine

LEMMA TypingDash ==
  ASSUME TypeOK, Dash
  PROVE  DBTypeOK' /\ DashTypeOK'
<1> USE DashAssumption
    DEF DashTypeOK, DashPcs, DashboardActions, DashDone, dbVars, tableVars,
        metricVars, ghostVars, dashVars, LeadStatuses
<1>a. DBTypeOK /\ DashTypeOK
  BY DEF TypeOK
<1>1. ASSUME NEW l \in Lead, NEW action \in DashActions, BulkRead(l, action)
      PROVE  DBTypeOK' /\ DashTypeOK'
  BY <1>1, <1>a DEF BulkRead, DBTypeOK
<1>2. CASE BulkWriteStatus
  BY <1>2, <1>a DEF BulkWriteStatus, SetLead, DBTypeOK
<1>3. CASE DashReject
  BY <1>3, <1>a DEF DashReject, AddToRejectList, DBTypeOK
<1>4. CASE DashRejectLead
  BY <1>4, <1>a DEF DashRejectLead, SetLead, DBTypeOK
<1>5. ASSUME NEW m \in Message, RejectReply(m)
      PROVE  DBTypeOK' /\ DashTypeOK'
  BY <1>5, <1>a DEF RejectReply, DBTypeOK, Message
<1>6. CASE RejectReplySequence
  <2>1. seq' \in [Lead -> Sequence]
    BY <1>6, <1>a, TypingSetSeqStatus DEF RejectReplySequence, SeqStatuses
  <2> QED
    BY <1>6, <1>a, <2>1 DEF RejectReplySequence, DBTypeOK
<1>7. CASE DashFails
  BY <1>7, <1>a, FaultAssumption DEF DashFails, Fault, DBTypeOK
<1>8. ASSUME NEW l \in Lead, NEW status \in SetStatuses,
             SetLeadStatus(l, status)
      PROVE  DBTypeOK' /\ DashTypeOK'
  BY <1>8, <1>a DEF SetLeadStatus, SetLead, DBTypeOK
<1>9. CASE ForceLimitZero
  BY <1>9, <1>a DEF ForceLimitZero, DBTypeOK
<1>10. CASE RestoreLimit
  BY <1>10, <1>a DEF RestoreLimit, DBTypeOK
<1> QED
  BY <1>1, <1>2, <1>3, <1>4, <1>5, <1>6, <1>7, <1>8, <1>9, <1>10
     DEF Dash, DashMutation

LEMMA TypingNewDay ==
  ASSUME TypeOK, NewDay
  PROVE  DBTypeOK'
<1>1. seq' \in [Lead -> Sequence]
  <2>1. PICK come \in SUBSET {l \in Lead : seq[l].status = "active"} :
          seq' = [l \in Lead |-> IF l \in come
                                   THEN [seq[l] EXCEPT !.due = TRUE]
                                   ELSE seq[l]]
    BY DEF NewDay
  <2>2. ASSUME NEW l \in Lead
        PROVE  seq[l] \in Sequence /\ seq'[l] \in Sequence
    BY <2>1 DEF TypeOK, DBTypeOK, Sequence
  <2> QED
    BY <2>1, <2>2
<1> QED
  BY <1>1 DEF TypeOK, DBTypeOK, NewDay

LEMMA TypingCrash ==
  ASSUME TypeOK, WorkerCrash
  PROVE  TypeOK'
<1>1. DBTypeOK'
  BY FaultAssumption DEF TypeOK, DBTypeOK, WorkerCrash, Fault, tableVars,
     metricVars, ghostVars
<1>2. SendTypeOK' /\ FollowTypeOK'
  BY LimitAssumption DEF WorkerCrash, SendReset, FollowReset, SendTypeOK,
     SendPcs, FollowTypeOK, FollowPcs
<1>3. ReplyTypeOK' /\ DashTypeOK'
  BY DEF TypeOK, WorkerCrash, ReplyReset, ReplyTypeOK, ReplyPcs, DashTypeOK,
     dashVars
<1> QED
  BY <1>1, <1>2, <1>3 DEF TypeOK

-----------------------------------------------------------------------------
(* Every column and every variable of a run keeps to its domain, whatever  *)
(* the engines, the operators, failures and midnight do.                   *)
THEOREM Typing == Spec => []TypeOK
<1>1. Init => TypeOK
  BY StepAssumption, LimitAssumption, FaultAssumption
     DEF Init, DBInit, SendInit, FollowInit, ReplyInit, DashInit, TypeOK,
         DBTypeOK, SendTypeOK, FollowTypeOK, ReplyTypeOK, DashTypeOK, Steps,
         LeadStatuses, EmailStatuses, SeqStatuses, Sequence, SendPcs,
         FollowPcs, ReplyPcs, DashPcs
<1>2. TypeOK /\ [Next]_vars => TypeOK'
  <2> SUFFICES ASSUME TypeOK, [Next]_vars
               PROVE  TypeOK'
    OBVIOUS
  <2>1. CASE Send
    BY <2>1, TypingSend DEF Send, TypeOK, FollowTypeOK, ReplyTypeOK,
       DashTypeOK, followVars, replyVars, dashVars
  <2>2. CASE Followup
    BY <2>2, TypingFollowup DEF Followup, TypeOK, SendTypeOK, ReplyTypeOK,
       DashTypeOK, sendVars, replyVars, dashVars
  <2>3. CASE Reply
    BY <2>3, TypingReply DEF Reply, TypeOK, SendTypeOK, FollowTypeOK,
       DashTypeOK, sendVars, followVars, dashVars
  <2>4. CASE Dash
    BY <2>4, TypingDash DEF Dash, TypeOK, SendTypeOK, FollowTypeOK,
       ReplyTypeOK, sendVars, followVars, replyVars
  <2>5. CASE WorkerCrash
    BY <2>5, TypingCrash
  <2>6. CASE NewDay
    <3>1. UNCHANGED <<sendVars, followVars, replyVars, dashVars>>
      BY <2>6 DEF NewDay
    <3>2. DBTypeOK'
      BY <2>6, TypingNewDay
    <3> QED
      BY <3>1, <3>2 DEF TypeOK, SendTypeOK, FollowTypeOK, ReplyTypeOK,
         DashTypeOK, sendVars, followVars, replyVars, dashVars
  <2>7. CASE UNCHANGED vars
    BY <2>7 DEF vars, dbVars, tableVars, metricVars, ghostVars, sendVars,
       followVars, replyVars, dashVars, TypeOK, DBTypeOK, SendTypeOK,
       FollowTypeOK, ReplyTypeOK, DashTypeOK
  <2> QED
    BY <2>1, <2>2, <2>3, <2>4, <2>5, <2>6, <2>7 DEF Next
<1> QED
  BY <1>1, <1>2, PTL DEF Spec

-----------------------------------------------------------------------------
(* Frames: what the processes leave alone of one another *)

Aside == Reply \/ Dash \/ WorkerCrash \/ NewDay \/ UNCHANGED vars

(* Writing a status other than 'none' neither creates nor moves a sequence.*)
LEMMA SetSeqStatusFrame ==
  ASSUME DBTypeOK, NEW m, NEW status \in SeqStatuses \ {"none"},
         SetSeqStatus(m, status)
  PROVE  \A l \in Lead : /\ seq'[l].step = seq[l].step
                         /\ SeqExists(l)' <=> SeqExists(l)
  BY DEF DBTypeOK, Sequence, SetSeqStatus, SeqExists

LEMMA ReplySequenceFrame ==
  ASSUME TypeOK, ReplySequence
  PROVE  \A l \in Lead : /\ seq'[l].step = seq[l].step
                         /\ SeqExists(l)' <=> SeqExists(l)
<1>1. DBTypeOK
  BY DEF TypeOK
<1>2. CASE SetSeqStatus(rMessage.lead, "replied")
  BY <1>1, <1>2, SetSeqStatusFrame DEF SeqStatuses, SeqExists
<1>3. CASE SetSeqStatus(rMessage.lead, "unsubscribed")
  BY <1>1, <1>3, SetSeqStatusFrame DEF SeqStatuses, SeqExists
<1>4. CASE seq' = IF SeqExists(rMessage.lead)
                    THEN [seq EXCEPT ![rMessage.lead].status = "active",
                                     ![rMessage.lead].due = FALSE]
                    ELSE seq
  BY <1>1, <1>4 DEF DBTypeOK, Sequence, SeqExists
<1>5. CASE seq' = [seq EXCEPT ![rMessage.lead].due = FALSE]
  BY <1>1, <1>5 DEF DBTypeOK, Sequence, SeqExists
<1> QED
  BY <1>2, <1>3, <1>4, <1>5 DEF ReplySequence

(* Replies, the dashboard, crashes and midnight neither send nor record;   *)
(* they may end both runs, lose the counts of both, and reset the day.     *)
LEMMA AsideFrame ==
  ASSUME TypeOK, Aside
  PROVE  /\ UNCHANGED <<email0, sentRows, hardBounces, delivered, late>>
         /\ rejectList \subseteq rejectList'
         /\ faults \in Nat /\ faults' \in Nat /\ faults <= faults'
         /\ \A l \in Lead : /\ seq'[l].step = seq[l].step
                            /\ SeqExists(l)' <=> SeqExists(l)
         /\ \/ UNCHANGED <<sendVars, followVars>>
            \/ SendReset /\ FollowReset /\ faults' = faults + 1
         /\ \/ UNCHANGED <<sentToday, acceptedToday>>
            \/ /\ sentToday' = 0 /\ acceptedToday' = 0
               /\ UNCHANGED <<sendVars, followVars>>
<1> USE DEF TypeOK, DBTypeOK, Sequence, SeqExists, dbVars, tableVars,
            metricVars, ghostVars
<1>1. CASE Reply
  <2> USE DEF Reply, ReplyEngine
  <2>1. CASE ReplyFetch
    BY <1>1, <2>1 DEF ReplyFetch
  <2>2. CASE ReplyFetchFails
    BY <1>1, <2>2 DEF ReplyFetchFails, Fault
  <2>3. CASE ReplyFinish
    BY <1>1, <2>3 DEF ReplyFinish
  <2>4. CASE \E m \in Message : ReplyDuplicate(m) \/ ReplyStore(m)
    BY <1>1, <2>4 DEF ReplyDuplicate, ReplyStore
  <2>5. CASE ReplyReject
    BY <1>1, <2>5 DEF ReplyReject, AddToRejectList
  <2>6. CASE ReplyLead
    BY <1>1, <2>6 DEF ReplyLead
  <2>7. CASE ReplySequence
    BY <1>1, <2>7, ReplySequenceFrame DEF ReplySequence
  <2>8. CASE ReplyWriteFails
    BY <1>1, <2>8 DEF ReplyWriteFails, Fault
  <2>9. CASE \E m \in Message : ReplyArrives(m) \/ ReplyNotStored(m)
    BY <1>1, <2>9 DEF ReplyArrives, ReplyNotStored, Fault
  <2> QED
    BY <1>1, <2>1, <2>2, <2>3, <2>4, <2>5, <2>6, <2>7, <2>8, <2>9
<1>2. CASE Dash
  <2> USE DEF Dash, DashMutation
  <2>1. CASE \E l \in Lead, action \in DashActions : BulkRead(l, action)
    BY <1>2, <2>1 DEF BulkRead
  <2>2. CASE BulkWriteStatus
    BY <1>2, <2>2 DEF BulkWriteStatus
  <2>3. CASE DashReject
    BY <1>2, <2>3 DEF DashReject, AddToRejectList
  <2>4. CASE DashRejectLead
    BY <1>2, <2>4 DEF DashRejectLead
  <2>5. CASE \E m \in Message : RejectReply(m)
    BY <1>2, <2>5 DEF RejectReply
  <2>6. CASE RejectReplySequence
    <3>1. \A l \in Lead : /\ seq'[l].step = seq[l].step
                          /\ SeqExists(l)' <=> SeqExists(l)
      BY <2>6 DEF RejectReplySequence, SetSeqStatus
    <3> QED
      BY <1>2, <2>6, <3>1 DEF RejectReplySequence
  <2>7. CASE DashFails
    BY <1>2, <2>7 DEF DashFails, Fault
  <2>8. CASE \E l \in Lead, status \in SetStatuses : SetLeadStatus(l, status)
    BY <1>2, <2>8 DEF SetLeadStatus
  <2>9. CASE ForceLimitZero \/ RestoreLimit
    BY <1>2, <2>9 DEF ForceLimitZero, RestoreLimit
  <2> QED
    BY <1>2, <2>1, <2>2, <2>3, <2>4, <2>5, <2>6, <2>7, <2>8, <2>9
<1>3. CASE WorkerCrash
  BY <1>3 DEF WorkerCrash, Fault
<1>4. CASE NewDay
  <2>1. \A l \in Lead : /\ seq'[l].step = seq[l].step
                        /\ SeqExists(l)' <=> SeqExists(l)
    BY <1>4 DEF NewDay
  <2> QED
    BY <1>4, <2>1 DEF NewDay
<1>5. CASE UNCHANGED vars
  BY <1>5 DEF vars
<1> QED
  BY <1>1, <1>2, <1>3, <1>4, <1>5 DEF Aside

(* A follow-up step changes, of what the cold run looks at, nothing but    *)
(* the counts; sequences appear and disappear for nobody.                  *)
LEMMA FollowupFrame ==
  ASSUME TypeOK, FollowInv, Followup
  PROVE  /\ UNCHANGED <<sendVars, email0, hardBounces, rejectList>>
         /\ \A l \in Lead : SeqExists(l)' <=> SeqExists(l)
         /\ \A l \in Lead : delivered'[l][0] = delivered[l][0]
         /\ faults \in Nat /\ faults' \in Nat /\ faults <= faults'
<1> USE DEF TypeOK, DBTypeOK, Sequence, Steps, SeqExists, dbVars, tableVars,
            metricVars, ghostVars, FollowTypeOK, Item, Followup
<1>1. CASE FollowDrop
  <2>1. PICK status \in SeqStatuses \ {"none"} : SetSeqStatus(fItem.lead, status)
    BY <1>1 DEF FollowDrop, SeqStatuses
  <2>2. \A l \in Lead : SeqExists(l)' <=> SeqExists(l)
    <3> HIDE DEF DBTypeOK
    <3> QED
      BY <2>1, SetSeqStatusFrame
  <2> QED
    BY <1>1, <2>2 DEF FollowDrop
<1>2. CASE FollowAccepted
  BY <1>2, StepAssumption DEF FollowAccepted, Deliver
<1>3. CASE FollowNotSent
  <2>1. faults' >= faults /\ faults' \in Nat
    BY <1>3 DEF FollowNotSent, Fault
  <2>2. \A l \in Lead : delivered'[l][0] = delivered[l][0]
    <3>1. CASE UNCHANGED ghostVars
      BY <3>1
    <3>2. CASE Deliver(fItem.lead, fItem.step)
      BY <1>3, <3>2, StepAssumption DEF FollowNotSent, Deliver
    <3> QED
      BY <1>3, <3>1, <3>2 DEF FollowNotSent
  <2> QED
    BY <1>3, <2>1, <2>2 DEF FollowNotSent
<1>4. CASE FollowRecordEmail
  BY <1>4 DEF FollowRecordEmail
<1>5. CASE FollowRecordSequence
  <2>1. fItem.lead \in Lead /\ fItem.step \in Steps /\ SeqExists(fItem.lead)
    BY <1>5 DEF FollowRecordSequence, FollowInv, FollowItems
  <2>2. CASE seq' = [seq EXCEPT ![fItem.lead].step = fItem.step,
                               ![fItem.lead].due = FALSE]
    <3> SUFFICES ASSUME NEW l \in Lead
                 PROVE  SeqExists(l)' <=> SeqExists(l)
      BY <1>5 DEF FollowRecordSequence
    <3> QED
      BY <2>1, <2>2
  <2>3. CASE seq' = [seq EXCEPT ![fItem.lead].step = fItem.step,
                               ![fItem.lead].status = "completed"]
    <3> SUFFICES ASSUME NEW l \in Lead
                 PROVE  SeqExists(l)' <=> SeqExists(l)
      BY <1>5 DEF FollowRecordSequence
    <3> QED
      BY <2>1, <2>3
  <2> QED
    BY <1>5, <2>1, <2>2, <2>3 DEF FollowRecordSequence
<1>6. CASE FollowRecordMetrics
  BY <1>6 DEF FollowRecordMetrics
<1>7. CASE FollowCallFails
  BY <1>7 DEF FollowCallFails, Fault
<1>8. CASE \/ FollowStart \/ FollowStop \/ FollowTake
           \/ \E e \in Item : FollowCheck(e)
           \/ FollowGenerated \/ FollowNotGenerated
  BY <1>8 DEF FollowStart, FollowStop, FollowTake, FollowCheck,
              FollowGenerated, FollowNotGenerated
<1> QED
  BY <1>1, <1>2, <1>3, <1>4, <1>5, <1>6, <1>7, <1>8 DEF FollowEngine

(* A step of the cold run leaves the follow-up run, its rows and its mails *)
(* alone, and the sequences that exist.                                    *)
LEMMA SendFrame ==
  ASSUME TypeOK, EmailInv, Send
  PROVE  /\ UNCHANGED <<followVars, sentRows>>
         /\ rejectList \subseteq rejectList'
         /\ \A l \in Lead : SeqExists(l) => seq'[l] = seq[l]
         /\ \A l \in Lead : seq'[l] = seq[l] \/ seq'[l].step = 0
         /\ \A l \in Lead : \A k \in 1 .. LastStep :
               delivered'[l][k] = delivered[l][k]
         /\ faults \in Nat /\ faults' \in Nat /\ faults <= faults'
<1> USE DEF TypeOK, DBTypeOK, Sequence, Steps, SeqExists, dbVars, tableVars,
            metricVars, ghostVars, SendTypeOK, Send
<1>1. CASE SendAccepted
  BY <1>1, StepAssumption DEF SendAccepted, Deliver
<1>2. CASE SendNoAnswer
  <2>1. faults' >= faults /\ faults' \in Nat
    BY <1>2 DEF SendNoAnswer, Fault
  <2>2. \A l \in Lead : \A k \in 1 .. LastStep :
           delivered'[l][k] = delivered[l][k]
    <3>1. CASE UNCHANGED ghostVars
      BY <3>1
    <3>2. CASE Deliver(sLead, 0)
      BY <1>2, <3>2, StepAssumption DEF SendNoAnswer, Deliver
    <3> QED
      BY <1>2, <3>1, <3>2 DEF SendNoAnswer
  <2> QED
    BY <1>2, <2>1, <2>2 DEF SendNoAnswer
<1>3. CASE SendRecordSequence
  BY <1>3 DEF SendRecordSequence, EmailInv
<1>4. CASE SendCallFails
  BY <1>4 DEF SendCallFails, Fault
<1>5. CASE SendBounceReject
  BY <1>5 DEF SendBounceReject, AddToRejectList
<1>6. CASE \/ SendStart \/ SendStop \/ SendSkip \/ SendTake
           \/ \E l \in Lead : SendCheck(l)
           \/ SendValidated \/ SendHardBounce
  <2>1. CASE SendStart \/ SendStop \/ SendSkip
    BY <2>1 DEF SendStart, SendStop, SendSkip
  <2>2. CASE SendTake \/ \E l \in Lead : SendCheck(l)
    BY <2>2 DEF SendTake, SendCheck
  <2>3. CASE SendValidated \/ SendHardBounce
    BY <2>3 DEF SendValidated, SendHardBounce
  <2> QED
    BY <1>6, <2>1, <2>2, <2>3
<1>7. CASE \/ SendContentRejected \/ SendRejectLead \/ SendSoftBounce
           \/ SendRecordEmail \/ SendRecordLead \/ SendRecordMetrics
  <2>1. CASE SendContentRejected \/ SendRejectLead \/ SendSoftBounce
    BY <2>1 DEF SendContentRejected, SendRejectLead, SendSoftBounce
  <2>2. CASE SendRecordEmail \/ SendRecordLead \/ SendRecordMetrics
    BY <2>2 DEF SendRecordEmail, SendRecordLead, SendRecordMetrics
  <2> QED
    BY <1>7, <2>1, <2>2
<1>8. CASE \/ SendBounceEmail \/ SendBounceRow \/ SendBounceLead
           \/ SendBounceMetrics
  BY <1>8 DEF SendBounceEmail, SendBounceRow, SendBounceLead,
              SendBounceMetrics
<1> QED
  BY <1>1, <1>2, <1>3, <1>4, <1>5, <1>6, <1>7, <1>8 DEF SendEngine

-----------------------------------------------------------------------------
(* The daily limit *)

LEMMA LimitInit == ASSUME Init PROVE LimitInv
  BY LimitAssumption DEF Init, DBInit, SendInit, FollowInit, LimitInv,
     SendBusy, FollowBusy, Bit, SendRecording, FollowRecording

LEMMA LimitSend ==
  ASSUME TypeOK, LimitInv, Send
  PROVE  LimitInv'
<1> USE LimitAssumption
    DEF LimitInv, SendBusy, FollowBusy, Bit, SendRecording, FollowRecording,
        SendBouncing, TypeOK, DBTypeOK, SendTypeOK, Send, dbVars, tableVars,
        metricVars, ghostVars, followVars, SendGoto, SendContinue, SendReset
<1>1. CASE SendStart
  BY <1>1 DEF SendStart
<1>2. CASE SendStop
  BY <1>2 DEF SendStop
<1>3. CASE \E l \in Lead : SendCheck(l)
  BY <1>3 DEF SendCheck
<1>4. CASE SendSkip \/ SendTake
  BY <1>4 DEF SendSkip, SendTake
<1>5. CASE SendValidated
  BY <1>5 DEF SendValidated
<1>6. CASE SendContentRejected \/ SendRejectLead \/ SendSoftBounce
  BY <1>6 DEF SendContentRejected, SendRejectLead, SendSoftBounce
<1>7. CASE SendAccepted
  BY <1>7 DEF SendAccepted, Deliver
<1>8. CASE SendNoAnswer
  BY <1>8 DEF SendNoAnswer, Deliver, Fault
<1>9. CASE \/ SendHardBounce \/ SendRecordEmail \/ SendRecordLead
           \/ SendRecordSequence
  BY <1>9 DEF SendHardBounce, SendRecordEmail, SendRecordLead,
              SendRecordSequence
<1>10. CASE SendRecordMetrics
  BY <1>10 DEF SendRecordMetrics, BumpSent
<1>11. CASE \/ SendBounceEmail \/ SendBounceRow \/ SendBounceReject
            \/ SendBounceLead \/ SendBounceMetrics
  BY <1>11 DEF SendBounceEmail, SendBounceRow, SendBounceReject,
               SendBounceLead, SendBounceMetrics
<1>12. CASE SendCallFails
  BY <1>12 DEF SendCallFails, Fault
<1> QED
  BY <1>1, <1>2, <1>3, <1>4, <1>5, <1>6, <1>7, <1>8, <1>9, <1>10, <1>11,
     <1>12 DEF SendEngine

LEMMA LimitFollowup ==
  ASSUME TypeOK, LimitInv, Followup
  PROVE  LimitInv'
<1> USE LimitAssumption
    DEF LimitInv, SendBusy, FollowBusy, Bit, SendRecording, FollowRecording,
        TypeOK, DBTypeOK, FollowTypeOK, Followup, dbVars, tableVars,
        metricVars, ghostVars, sendVars, FollowGoto, FollowContinue,
        FollowReset
<1>1. CASE FollowStart \/ FollowStop
  BY <1>1 DEF FollowStart, FollowStop
<1>2. CASE \E e \in Item : FollowCheck(e)
  BY <1>2 DEF FollowCheck
<1>3. CASE FollowDrop \/ FollowTake
  BY <1>3 DEF FollowDrop, FollowTake
<1>4. CASE FollowGenerated \/ FollowNotGenerated
  BY <1>4 DEF FollowGenerated, FollowNotGenerated
<1>5. CASE FollowAccepted
  BY <1>5 DEF FollowAccepted, Deliver
<1>6. CASE FollowNotSent
  BY <1>6 DEF FollowNotSent, Deliver, Fault
<1>7. CASE FollowRecordEmail \/ FollowRecordSequence
  BY <1>7 DEF FollowRecordEmail, FollowRecordSequence
<1>8. CASE FollowRecordMetrics
  BY <1>8 DEF FollowRecordMetrics, BumpSent
<1>9. CASE FollowCallFails
  BY <1>9 DEF FollowCallFails, Fault
<1> QED
  BY <1>1, <1>2, <1>3, <1>4, <1>5, <1>6, <1>7, <1>8, <1>9 DEF FollowEngine

LEMMA LimitAside ==
  ASSUME TypeOK, LimitInv, Aside
  PROVE  LimitInv'
<1> USE LimitAssumption, AsideFrame
    DEF LimitInv, SendBusy, FollowBusy, Bit, SendRecording, FollowRecording,
        TypeOK, DBTypeOK, sendVars, followVars, SendReset, FollowReset
<1>1. CASE UNCHANGED <<sentToday, acceptedToday, sendVars, followVars>>
  BY <1>1
<1>2. CASE /\ SendReset /\ FollowReset /\ faults' = faults + 1
           /\ UNCHANGED <<sentToday, acceptedToday>>
  BY <1>2
<1>3. CASE /\ sentToday' = 0 /\ acceptedToday' = 0
           /\ UNCHANGED <<sendVars, followVars>>
  BY <1>3
<1> QED
  BY <1>1, <1>2, <1>3

(* The daily limit, whatever fails and however the engines interleave:     *)
(* DailyLimitBound, for every limit, every set of leads, every LastStep.   *)
THEOREM DailyLimitHolds == Spec => []DailyLimitBound
<1>1. TypeOK /\ LimitInv => DailyLimitBound
  BY LimitAssumption DEF TypeOK, DBTypeOK, LimitInv, DailyLimitBound, Bit,
     SendBusy, FollowBusy, SendRecording, FollowRecording
<1>2. TypeOK /\ LimitInv /\ [Next]_vars => LimitInv'
  BY LimitSend, LimitFollowup, LimitAside DEF Next, Aside
<1> QED
  BY <1>1, <1>2, LimitInit, Typing, PTL DEF Spec

-----------------------------------------------------------------------------
(* Bounces and sequences *)

LEMMA EmailInit == ASSUME Init PROVE EmailInv
  BY DEF Init, DBInit, SendInit, FollowInit, EmailInv, SendLeads, SeqExists,
     SendBouncing

LEMMA EmailSend ==
  ASSUME TypeOK, EmailInv, Send
  PROVE  EmailInv'
<1> USE DEF EmailInv, SendLeads, SeqExists, SendRecording, SendBouncing,
            TypeOK, DBTypeOK, Sequence, SendTypeOK, Send, dbVars, tableVars,
            metricVars, ghostVars, SendGoto, SendContinue, SendReset
<1>1. CASE SendStart
  BY <1>1 DEF SendStart, Sendable
<1>2. CASE SendStop
  BY <1>2 DEF SendStop
<1>3. CASE \E l \in Lead : SendCheck(l)
  BY <1>3 DEF SendCheck
<1>4. CASE SendSkip \/ SendTake \/ SendValidated \/ SendHardBounce
  BY <1>4 DEF SendSkip, SendTake, SendValidated, SendHardBounce
<1>5. CASE SendContentRejected
  BY <1>5 DEF SendContentRejected
<1>6. CASE SendRejectLead
  BY <1>6 DEF SendRejectLead
<1>7. CASE SendAccepted \/ SendNoAnswer
  BY <1>7 DEF SendAccepted, SendNoAnswer
<1>8. CASE SendSoftBounce
  BY <1>8 DEF SendSoftBounce
<1>9. CASE SendRecordEmail
  BY <1>9 DEF SendRecordEmail
<1>10. CASE SendRecordLead \/ SendRecordMetrics
  BY <1>10 DEF SendRecordLead, SendRecordMetrics
<1>11. CASE SendRecordSequence
  BY <1>11 DEF SendRecordSequence
<1>12. CASE SendBounceEmail
  BY <1>12 DEF SendBounceEmail
<1>13. CASE SendBounceRow
  BY <1>13 DEF SendBounceRow
<1>14. CASE SendBounceReject \/ SendBounceLead \/ SendBounceMetrics
  BY <1>14 DEF SendBounceReject, SendBounceLead, SendBounceMetrics
<1>15. CASE SendCallFails
  BY <1>15 DEF SendCallFails
<1> QED
  BY <1>1, <1>2, <1>3, <1>4, <1>5, <1>6, <1>7, <1>8, <1>9, <1>10, <1>11,
     <1>12, <1>13, <1>14, <1>15 DEF SendEngine

LEMMA EmailFollowup ==
  ASSUME TypeOK, EmailInv, FollowInv, Followup
  PROVE  EmailInv'
  BY FollowupFrame DEF EmailInv, SendLeads, SeqExists, SendBouncing,
     sendVars, TypeOK, DBTypeOK, SendTypeOK

LEMMA EmailAside ==
  ASSUME TypeOK, EmailInv, Aside
  PROVE  EmailInv'
<1>1. CASE UNCHANGED sendVars
  BY <1>1, AsideFrame DEF EmailInv, SendLeads, SeqExists, SendBouncing,
     sendVars, TypeOK, DBTypeOK, SendTypeOK
<1>2. CASE SendReset
  BY <1>2, AsideFrame DEF EmailInv, SendLeads, SeqExists, SendBouncing,
     SendReset
<1> QED
  BY <1>1, <1>2, AsideFrame

LEMMA FollowInit0 == ASSUME Init PROVE FollowInv
  BY DEF Init, DBInit, FollowInit, FollowInv, FollowItems, SeqExists

LEMMA FollowSend ==
  ASSUME TypeOK, EmailInv, FollowInv, Send
  PROVE  FollowInv'
<1>1. /\ UNCHANGED <<followVars, sentRows>>
      /\ \A l \in Lead : /\ SeqExists(l) => seq'[l] = seq[l]
                         /\ seq'[l] = seq[l] \/ seq'[l].step = 0
  BY SendFrame
<1> USE DEF TypeOK, DBTypeOK, Sequence, Steps, FollowTypeOK, Item, SeqExists,
            followVars
<1>2. \A l \in Lead : SeqExists(l)' => 1 .. seq'[l].step \subseteq sentRows'[l]
  <2> SUFFICES ASSUME NEW l \in Lead, SeqExists(l)'
               PROVE  1 .. seq'[l].step \subseteq sentRows'[l]
    OBVIOUS
  <2>1. CASE seq'[l] = seq[l]
    BY <1>1, <2>1 DEF FollowInv
  <2>2. CASE seq'[l].step = 0
    BY <2>2
  <2> QED
    BY <1>1, <2>1, <2>2
<1>3. FollowItems' = FollowItems
  BY <1>1 DEF FollowItems
<1>4. \A l \in Lead : SeqExists(l) => SeqExists(l)' /\ seq'[l].step = seq[l].step
  BY <1>1
<1> QED
  BY <1>1, <1>2, <1>3, <1>4 DEF FollowInv, FollowItems, FollowRecording

LEMMA ItemsEqual ==
  ASSUME NEW d \in Item, NEW e \in Item, d.lead = e.lead, d.step = e.step
  PROVE  d = e
<1>1. d = [lead |-> d.lead, step |-> d.step]
  BY DEF Item
<1>2. e = [lead |-> e.lead, step |-> e.step]
  BY DEF Item
<1> QED
  BY <1>1, <1>2

LEMMA FollowFollowup ==
  ASSUME TypeOK, FollowInv, Followup
  PROVE  FollowInv'
<1> USE DEF FollowInv, FollowItems, FollowRecording, TypeOK, DBTypeOK,
            Sequence, Steps, FollowTypeOK, Item, SeqExists, Followup, dbVars,
            tableVars, metricVars, ghostVars, FollowGoto, FollowContinue,
            FollowReset
<1>1. CASE FollowStart
  <2>1. /\ fQueue' = {[lead |-> l, step |-> seq[l].step + 1] : l \in Due}
        /\ fPc' = "loop" /\ UNCHANGED <<fItem, seq, sentRows>>
    BY <1>1 DEF FollowStart
  <2>2. FollowItems' = {}
    BY <2>1
  <2>3. ASSUME NEW e \in fQueue'
        PROVE  SeqExists(e.lead) /\ e.step = seq[e.lead].step + 1
    BY <2>1 DEF Due
  <2> QED
    BY <2>1, <2>2, <2>3
<1>2. CASE FollowStop
  BY <1>2 DEF FollowStop
<1>3. CASE \E e \in Item : FollowCheck(e)
  BY <1>3 DEF FollowCheck
<1>4. CASE FollowDrop
  <2>1. PICK status \in SeqStatuses \ {"none"} : SetSeqStatus(fItem.lead, status)
    BY <1>4 DEF FollowDrop, SeqStatuses
  <2>2. \A l \in Lead : /\ seq'[l].step = seq[l].step
                        /\ SeqExists(l)' <=> SeqExists(l)
    <3> HIDE DEF DBTypeOK
    <3> QED
      BY <2>1, SetSeqStatusFrame
  <2> QED
    BY <1>4, <2>2 DEF FollowDrop
<1>5. CASE FollowTake \/ FollowGenerated \/ FollowNotGenerated
  BY <1>5 DEF FollowTake, FollowGenerated, FollowNotGenerated
<1>6. CASE FollowAccepted \/ FollowNotSent
  BY <1>6 DEF FollowAccepted, FollowNotSent
<1>7. CASE FollowRecordEmail
  BY <1>7 DEF FollowRecordEmail
<1>8. CASE FollowRecordSequence
  <2>1. /\ fItem \in Item /\ SeqExists(fItem.lead)
        /\ fItem.step = seq[fItem.lead].step + 1
        /\ fItem.step \in sentRows[fItem.lead]
    BY <1>8 DEF FollowRecordSequence
  <2>2. /\ seq'[fItem.lead].step = fItem.step
        /\ seq'[fItem.lead].status # "none"
        /\ \A l \in Lead \ {fItem.lead} : seq'[l] = seq[l]
    BY <1>8, <2>1 DEF FollowRecordSequence
  <2>3. \A l \in Lead : SeqExists(l)' => 1 .. seq'[l].step \subseteq sentRows'[l]
    <3>1. sentRows' = sentRows
      BY <1>8 DEF FollowRecordSequence
    <3>2. 1 .. fItem.step \subseteq sentRows[fItem.lead]
      BY <2>1
    <3> QED
      BY <2>1, <2>2, <3>1, <3>2
  <2>4. \A e \in fQueue : e.lead # fItem.lead
    <3>1. \A e \in Item : e.lead = fItem.lead /\ e.step = fItem.step => e = fItem
      BY <2>1, ItemsEqual
    <3>2. \A e \in fQueue : e \in Item /\ e # fItem /\ e.step = seq[e.lead].step + 1
      BY <1>8, <2>1 DEF FollowRecordSequence
    <3> QED
      BY <2>1, <3>1, <3>2
  <2> QED
    BY <1>8, <2>1, <2>2, <2>3, <2>4 DEF FollowRecordSequence
<1>9. CASE FollowRecordMetrics \/ FollowCallFails
  BY <1>9 DEF FollowRecordMetrics, FollowCallFails
<1> QED
  BY <1>1, <1>2, <1>3, <1>4, <1>5, <1>6, <1>7, <1>8, <1>9 DEF FollowEngine

LEMMA FollowAside ==
  ASSUME TypeOK, FollowInv, Aside
  PROVE  FollowInv'
<1> USE DEF TypeOK, DBTypeOK, Sequence, Steps, FollowTypeOK, Item, SeqExists
<1>1. CASE UNCHANGED followVars
  <2>1. FollowItems' = FollowItems
    BY <1>1 DEF FollowItems, followVars
  <2> QED
    BY <1>1, <2>1, AsideFrame DEF FollowInv, FollowItems, FollowRecording,
       followVars
<1>2. CASE FollowReset
  BY <1>2, AsideFrame DEF FollowInv, FollowItems, FollowReset
<1> QED
  BY <1>1, <1>2, AsideFrame

(* The invariants that hold together, and from them the properties of the  *)
(* tables.                                                                 *)
Tables == TypeOK /\ EmailInv /\ FollowInv

LEMMA TablesHold == Spec => []Tables
<1>1. Init => EmailInv /\ FollowInv
  BY EmailInit, FollowInit0
<1>2. TypeOK /\ EmailInv /\ FollowInv /\ [Next]_vars => EmailInv' /\ FollowInv'
  BY EmailSend, EmailFollowup, EmailAside, FollowSend, FollowFollowup,
     FollowAside DEF Next, Aside
<1> QED
  BY <1>1, <1>2, Typing, PTL DEF Spec, Tables

(* A lead with a hard bounce on file never enters a sequence:              *)
(* BouncedStaysOut, for any number of leads, faults and days.              *)
THEOREM BouncedStaysOutHolds == Spec => []BouncedStaysOut
<1>1. Tables => BouncedStaysOut
  BY DEF Tables, TypeOK, DBTypeOK, EmailInv, BouncedStaysOut
<1> QED
  BY <1>1, TablesHold, PTL

(* The References header of a follow-up is complete: ThreadComplete, for   *)
(* sequences of any length.                                                *)
THEOREM ThreadCompleteHolds == Spec => []ThreadComplete
<1>1. Tables => ThreadComplete
  BY DEF Tables, EmailInv, FollowInv, ThreadComplete
<1> QED
  BY <1>1, TablesHold, PTL

-----------------------------------------------------------------------------
(* Rejected addresses *)

(* The two engines never have a mail of the same lead in flight.           *)
LEMMA OneInFlight ==
  ASSUME Tables, NEW l \in Lead
  PROVE  ~(SendInFlight(l) /\ FollowInFlight(l))
<1> SUFFICES ASSUME SendInFlight(l), FollowInFlight(l) PROVE FALSE
  OBVIOUS
<1>1. email0[l] = "pending"
  BY DEF Tables, EmailInv, SendInFlight
<1>2. SeqExists(l)
  <2>1. fItem \in FollowItems /\ fItem.lead = l
    BY DEF FollowItems, FollowInFlight
  <2> QED
    BY <2>1 DEF Tables, FollowInv
<1> QED
  BY <1>1, <1>2 DEF Tables, EmailInv

(* Where a delivery leaves the count of late mails.                        *)
LEMMA DeliverLate ==
  ASSUME TypeOK, NEW m \in Lead, NEW k \in Steps, Deliver(m, k)
  PROVE  /\ \A l \in Lead \ {m} : late'[l] = late[l]
         /\ late[m] = 0 => late'[m] = 0 \/ (late'[m] = 1 /\ IsRejected(m))
  BY DEF TypeOK, DBTypeOK, Deliver, IsRejected

LEMMA RejectSend ==
  ASSUME Tables, RejectInv, Send
  PROVE  RejectInv'
<1>1. TypeOK /\ EmailInv
  BY DEF Tables
<1>2. /\ UNCHANGED followVars
      /\ rejectList \subseteq rejectList'
  BY <1>1, SendFrame
<1>3. \A l \in Lead : /\ IsRejected(l) => IsRejected(l)'
                      /\ FollowInFlight(l)' <=> FollowInFlight(l)
  BY <1>2 DEF IsRejected, FollowInFlight, followVars
<1>4. CASE /\ sPc = "send" /\ sPc' # "send" /\ sPc' # "validate"
           /\ Deliver(sLead, 0)
  <2>1. sLead \in Lead /\ 0 \in Steps
    BY <1>1, <1>4, StepAssumption DEF TypeOK, SendTypeOK, Steps
  <2>2. SendInFlight(sLead) /\ ~FollowInFlight(sLead)
    BY <1>4, <2>1, OneInFlight DEF SendInFlight
  <2>3. late[sLead] = 0
    BY <2>1, <2>2 DEF RejectInv
  <2>4. \A l \in Lead : ~SendInFlight(l)'
    BY <1>4 DEF SendInFlight
  <2> QED
    BY <1>1, <1>3, <1>4, <2>1, <2>2, <2>3, <2>4, DeliverLate
    DEF RejectInv, IsRejected
<1>5. CASE /\ late' = late
           /\ \A l \in Lead :
                 SendInFlight(l)' => SendInFlight(l) \/ ~IsRejected(l)
  BY <1>3, <1>5 DEF RejectInv, IsRejected
<1> USE DEF dbVars, tableVars, metricVars, ghostVars, SendGoto, SendContinue,
            SendReset, SendInFlight
<1>6. CASE SendStart \/ SendStop \/ \E l \in Lead : SendCheck(l)
  BY <1>5, <1>6 DEF SendStart, SendStop, SendCheck
<1>7. CASE SendSkip \/ SendTake \/ SendValidated
  BY <1>5, <1>7 DEF SendSkip, SendTake, SendValidated
<1>8. CASE SendContentRejected \/ SendRejectLead \/ SendSoftBounce
  BY <1>5, <1>8 DEF SendContentRejected, SendRejectLead, SendSoftBounce
<1>9. CASE SendAccepted \/ SendNoAnswer
  BY <1>4, <1>5, <1>9 DEF SendAccepted, SendNoAnswer
<1>10. CASE \/ SendHardBounce \/ SendRecordEmail \/ SendRecordLead
            \/ SendRecordSequence \/ SendRecordMetrics
  BY <1>5, <1>10 DEF SendHardBounce, SendRecordEmail, SendRecordLead,
                     SendRecordSequence, SendRecordMetrics, SendRecording
<1>11. CASE \/ SendBounceEmail \/ SendBounceRow \/ SendBounceReject
            \/ SendBounceLead \/ SendBounceMetrics
  BY <1>5, <1>11 DEF SendBounceEmail, SendBounceRow, SendBounceReject,
                     SendBounceLead, SendBounceMetrics
<1>12. CASE SendCallFails
  BY <1>5, <1>12 DEF SendCallFails
<1> QED
  BY <1>6, <1>7, <1>8, <1>9, <1>10, <1>11, <1>12 DEF Send, SendEngine

LEMMA RejectFollowup ==
  ASSUME Tables, RejectInv, Followup
  PROVE  RejectInv'
<1>1. TypeOK /\ FollowInv
  BY DEF Tables
<1>2. UNCHANGED <<sendVars, rejectList>>
  BY <1>1, FollowupFrame
<1>3. \A l \in Lead : /\ IsRejected(l)' <=> IsRejected(l)
                      /\ SendInFlight(l)' <=> SendInFlight(l)
  BY <1>2 DEF IsRejected, SendInFlight, sendVars
<1>4. CASE /\ fPc = "send" /\ fPc' \notin {"send", "generate"}
           /\ Deliver(fItem.lead, fItem.step)
  <2>1. fItem.lead \in Lead /\ fItem.step \in Steps
    BY <1>1, <1>4 DEF TypeOK, FollowTypeOK, Item, Steps
  <2>2. FollowInFlight(fItem.lead) /\ ~SendInFlight(fItem.lead)
    BY <1>4, <2>1, OneInFlight DEF FollowInFlight
  <2>3. late[fItem.lead] = 0
    BY <2>1, <2>2 DEF RejectInv
  <2>4. \A l \in Lead : ~FollowInFlight(l)'
    BY <1>4 DEF FollowInFlight
  <2> QED
    BY <1>1, <1>3, <1>4, <2>1, <2>2, <2>3, <2>4, DeliverLate
    DEF RejectInv, IsRejected
<1>5. CASE /\ late' = late
           /\ \A l \in Lead :
                 FollowInFlight(l)' => FollowInFlight(l) \/ ~IsRejected(l)
  BY <1>3, <1>5 DEF RejectInv, IsRejected
<1> USE DEF dbVars, tableVars, metricVars, ghostVars, FollowGoto,
            FollowContinue, FollowReset, FollowInFlight
<1>6. CASE FollowStart \/ FollowStop \/ \E e \in Item : FollowCheck(e)
  BY <1>5, <1>6 DEF FollowStart, FollowStop, FollowCheck
<1>7. CASE FollowDrop \/ FollowTake
  BY <1>5, <1>7 DEF FollowDrop, FollowTake
<1>8. CASE FollowGenerated \/ FollowNotGenerated
  BY <1>5, <1>8 DEF FollowGenerated, FollowNotGenerated
<1>9. CASE FollowAccepted \/ FollowNotSent
  BY <1>4, <1>5, <1>9 DEF FollowAccepted, FollowNotSent
<1>10. CASE \/ FollowRecordEmail \/ FollowRecordSequence
            \/ FollowRecordMetrics \/ FollowCallFails
  BY <1>5, <1>10 DEF FollowRecordEmail, FollowRecordSequence,
                     FollowRecordMetrics, FollowCallFails
<1> QED
  BY <1>6, <1>7, <1>8, <1>9, <1>10 DEF Followup, FollowEngine

LEMMA RejectAside ==
  ASSUME TypeOK, RejectInv, Aside
  PROVE  RejectInv'
<1>1. /\ UNCHANGED late
      /\ rejectList \subseteq rejectList'
      /\ UNCHANGED <<sendVars, followVars>> \/ (SendReset /\ FollowReset)
  BY AsideFrame DEF sendVars, followVars
<1>2. \A l \in Lead : /\ IsRejected(l) => IsRejected(l)'
                      /\ SendInFlight(l)' => SendInFlight(l)
                      /\ FollowInFlight(l)' => FollowInFlight(l)
  BY <1>1 DEF IsRejected, SendInFlight, FollowInFlight, SendReset,
     FollowReset, sendVars, followVars
<1> QED
  BY <1>1, <1>2 DEF RejectInv, IsRejected, SendInFlight, FollowInFlight

(* At most one mail reaches an address after its rejection: RejectBound,   *)
(* whoever rejected it and whatever is restarted or reactivated after.     *)
THEOREM RejectBoundHolds == Spec => []RejectBound
<1>1. Init => RejectInv
  BY DEF Init, DBInit, RejectInv
<1>2. Tables /\ RejectInv /\ [Next]_vars => RejectInv'
  BY RejectSend, RejectFollowup, RejectAside DEF Next, Aside, Tables
<1>3. TypeOK /\ RejectInv => RejectBound
  BY DEF TypeOK, DBTypeOK, RejectInv, RejectBound
<1> QED
  BY <1>1, <1>2, <1>3, TablesHold, Typing, PTL DEF Spec

-----------------------------------------------------------------------------
(* Deliveries *)

LEMMA DeliverCount ==
  ASSUME TypeOK, NEW m \in Lead, NEW k \in Steps, Deliver(m, k)
  PROVE  /\ delivered'[m][k] = delivered[m][k] + 1
         /\ \A l \in Lead : \A j \in Steps :
               l # m \/ j # k => delivered'[l][j] = delivered[l][j]
  BY DEF TypeOK, DBTypeOK, Deliver

LEMMA ColdSend ==
  ASSUME Tables, ColdInv, Send
  PROVE  ColdInv'
<1>1. TypeOK /\ EmailInv
  BY DEF Tables
<1>2. 0 \in Steps
  BY StepAssumption DEF Steps
<1>3. /\ faults \in Nat /\ faults' \in Nat /\ faults <= faults'
      /\ \A l \in Lead : delivered[l][0] \in Nat
  BY <1>1, <1>2, SendFrame DEF TypeOK, DBTypeOK
<1>4. sPc \notin {"idle", "loop"} => sLead \in Lead
  BY <1>1 DEF TypeOK, SendTypeOK
<1>5. email0 \in [Lead -> EmailStatuses]
  BY <1>1 DEF TypeOK, DBTypeOK
<1> USE DEF ColdInv, EmailInv, dbVars, tableVars, metricVars, ghostVars,
            SendGoto, SendContinue, SendReset, SendRecording, SendBouncing
<1>6. CASE SendAccepted
  <2>1. sLead \in Lead /\ email0[sLead] = "pending" /\ Deliver(sLead, 0)
    BY <1>1, <1>4, <1>6 DEF SendAccepted
  <2>2. /\ delivered'[sLead][0] = delivered[sLead][0] + 1
        /\ \A l \in Lead : l # sLead => delivered'[l][0] = delivered[l][0]
    BY <1>1, <1>2, <2>1, DeliverCount
  <2>3. delivered[sLead][0] <= faults
    BY <1>6, <2>1 DEF SendAccepted
  <2> QED
    BY <1>3, <1>6, <2>1, <2>2, <2>3 DEF SendAccepted
<1>7. CASE SendNoAnswer
  <2>1. sLead \in Lead /\ email0[sLead] = "pending"
    BY <1>1, <1>4, <1>7 DEF SendNoAnswer
  <2>2. CASE UNCHANGED ghostVars
    BY <1>3, <1>7, <2>1, <2>2 DEF SendNoAnswer
  <2>3. CASE Fault /\ Deliver(sLead, 0)
    <3>1. /\ delivered'[sLead][0] = delivered[sLead][0] + 1
          /\ \A l \in Lead : l # sLead => delivered'[l][0] = delivered[l][0]
      BY <1>1, <1>2, <2>1, <2>3, DeliverCount
    <3>2. delivered[sLead][0] <= faults
      BY <1>7, <2>1 DEF SendNoAnswer
    <3> QED
      BY <1>3, <1>7, <2>1, <2>3, <3>1, <3>2 DEF SendNoAnswer, Fault
  <2> QED
    BY <1>7, <2>2, <2>3 DEF SendNoAnswer
<1>8. CASE SendRecordEmail \/ SendContentRejected \/ SendSoftBounce
  BY <1>3, <1>4, <1>5, <1>8 DEF SendRecordEmail, SendContentRejected,
     SendSoftBounce
<1>9. CASE SendBounceEmail
  BY <1>3, <1>4, <1>5, <1>9 DEF SendBounceEmail
<1>10. CASE \/ SendStart \/ SendStop \/ SendSkip \/ SendTake
            \/ \E l \in Lead : SendCheck(l)
            \/ SendValidated \/ SendHardBounce
  BY <1>3, <1>10 DEF SendStart, SendStop, SendSkip, SendTake, SendCheck,
                     SendValidated, SendHardBounce
<1>11. CASE \/ SendRejectLead \/ SendRecordLead \/ SendRecordSequence
            \/ SendRecordMetrics
  BY <1>3, <1>11 DEF SendRejectLead, SendRecordLead, SendRecordSequence,
                     SendRecordMetrics
<1>12. CASE \/ SendBounceRow \/ SendBounceReject \/ SendBounceLead
            \/ SendBounceMetrics
  BY <1>3, <1>12 DEF SendBounceRow, SendBounceReject, SendBounceLead,
                     SendBounceMetrics
<1>13. CASE SendCallFails
  BY <1>3, <1>13 DEF SendCallFails, Fault
<1> QED
  BY <1>6, <1>7, <1>8, <1>9, <1>10, <1>11, <1>12, <1>13 DEF Send, SendEngine

LEMMA ColdOthers ==
  ASSUME Tables, ColdInv, Followup \/ Aside
  PROVE  ColdInv'
<1>1. /\ email0' = email0
      /\ \A l \in Lead : delivered'[l][0] = delivered[l][0]
      /\ faults \in Nat /\ faults' \in Nat /\ faults <= faults'
      /\ UNCHANGED <<sPc, sLead>> \/ (sPc' = "idle" /\ faults' = faults + 1)
  BY FollowupFrame, AsideFrame DEF Tables, sendVars, SendReset
<1>2. \A l \in Lead : delivered[l][0] \in Nat
  BY StepAssumption DEF Tables, TypeOK, DBTypeOK, Steps
<1> QED
  BY <1>1, <1>2 DEF ColdInv

(* A step that delivers nothing, forgets no row and keeps the sequences.   *)
LEMMA StepKeeps ==
  ASSUME TypeOK, StepInv, faults' \in Nat, faults <= faults',
         \A l \in Lead, k \in 1 .. LastStep :
           /\ delivered'[l][k] = delivered[l][k]
           /\ (k \in sentRows'[l] \/ FollowRecords(l, k)')
                => (k \in sentRows[l] \/ FollowRecords(l, k))
           /\ faults' > faults
                \/ ((SeqExists(l)' => k > seq'[l].step) /\ ~FollowRecords(l, k)'
                       => (SeqExists(l) => k > seq[l].step)
                            /\ ~FollowRecords(l, k))
  PROVE  StepInv'
<1>1. /\ faults \in Nat
      /\ \A l \in Lead, k \in 1 .. LastStep : delivered[l][k] \in Nat
  BY StepAssumption DEF TypeOK, DBTypeOK, Steps
<1> SUFFICES ASSUME NEW l \in Lead, NEW k \in 1 .. LastStep
             PROVE  /\ delivered'[l][k] <= 1 + faults'
                    /\ k \in sentRows'[l] \/ FollowRecords(l, k)'
                         => delivered'[l][k] > 0
                    /\ (SeqExists(l)' => k > seq'[l].step)
                          /\ ~FollowRecords(l, k)'
                         => delivered'[l][k] <= faults'
  BY DEF StepInv, SeqExists, FollowRecords
<1> QED
  BY <1>1 DEF StepInv, SeqExists, FollowRecords

LEMMA StepSend ==
  ASSUME Tables, StepInv, Send
  PROVE  StepInv'
<1>1. TypeOK /\ EmailInv
  BY DEF Tables
<1>2. /\ UNCHANGED <<followVars, sentRows>>
      /\ \A l \in Lead : SeqExists(l) => seq'[l] = seq[l]
      /\ \A l \in Lead : \A k \in 1 .. LastStep :
            delivered'[l][k] = delivered[l][k]
      /\ faults' \in Nat /\ faults <= faults'
  BY <1>1, SendFrame
<1>3. \A l \in Lead, k \in 1 .. LastStep :
        FollowRecords(l, k)' <=> FollowRecords(l, k)
  BY <1>2 DEF FollowRecords, followVars
<1>4. \A l \in Lead, k \in 1 .. LastStep :
        (SeqExists(l)' => k > seq'[l].step) => (SeqExists(l) => k > seq[l].step)
  BY <1>2 DEF SeqExists
<1> QED
  BY <1>1, <1>2, <1>3, <1>4, StepKeeps DEF FollowRecords, SeqExists

LEMMA StepFollowup ==
  ASSUME Tables, StepInv, Followup
  PROVE  StepInv'
<1>1. TypeOK /\ FollowInv
  BY DEF Tables
<1>2. faults \in Nat /\ faults' \in Nat /\ faults <= faults'
  BY <1>1, FollowupFrame
<1>3. \A l \in Lead, k \in 1 .. LastStep : delivered[l][k] \in Nat
  BY <1>1, StepAssumption DEF TypeOK, DBTypeOK, Steps
<1>4. fPc \notin {"idle", "loop"} =>
        /\ fItem.lead \in Lead
        /\ fItem.step \in 1 .. LastStep
        /\ SeqExists(fItem.lead)
  BY <1>1 DEF TypeOK, FollowTypeOK, Item, FollowInv, FollowItems
<1>5. fPc = "send" => fItem.step = seq[fItem.lead].step + 1
  BY <1>1 DEF FollowInv
<1>6. \A l \in Lead : seq[l].step \in Nat
  BY <1>1 DEF TypeOK, DBTypeOK, Sequence, Steps
<1>7. seq \in [Lead -> Sequence] /\ sentRows \in [Lead -> SUBSET (1 .. LastStep)]
  BY <1>1 DEF TypeOK, DBTypeOK
<1> USE DEF dbVars, tableVars, metricVars, ghostVars, FollowGoto,
            FollowContinue, FollowReset, FollowRecords, SeqExists
<1>8. CASE FollowAccepted
  <2>1. Deliver(fItem.lead, fItem.step) /\ fItem.step \in Steps
    BY <1>4, <1>8 DEF FollowAccepted, Steps
  <2>2. /\ delivered'[fItem.lead][fItem.step]
             = delivered[fItem.lead][fItem.step] + 1
        /\ \A l \in Lead, k \in 1 .. LastStep :
             l # fItem.lead \/ k # fItem.step
               => delivered'[l][k] = delivered[l][k]
    BY <1>1, <1>4, <1>8, <2>1, DeliverCount DEF FollowAccepted, Steps
  <2>3. delivered[fItem.lead][fItem.step] <= faults
    BY <1>4, <1>5, <1>6, <1>8 DEF FollowAccepted, StepInv
  <2> QED
    BY <1>2, <1>3, <1>4, <1>8, <2>2, <2>3 DEF FollowAccepted, StepInv
<1>9. CASE FollowNotSent
  <2>1. CASE UNCHANGED ghostVars
    BY <1>2, <1>3, <1>9, <2>1 DEF FollowNotSent, StepInv
  <2>2. CASE Fault /\ Deliver(fItem.lead, fItem.step)
    <3>1. fItem.step \in Steps
      BY <1>4, <1>9 DEF FollowNotSent, Steps
    <3>2. /\ delivered'[fItem.lead][fItem.step]
               = delivered[fItem.lead][fItem.step] + 1
          /\ \A l \in Lead, k \in 1 .. LastStep :
               l # fItem.lead \/ k # fItem.step
                 => delivered'[l][k] = delivered[l][k]
      BY <1>1, <1>4, <1>9, <2>2, <3>1, DeliverCount DEF FollowNotSent, Steps
    <3>3. delivered[fItem.lead][fItem.step] <= faults
      BY <1>4, <1>5, <1>6, <1>9 DEF FollowNotSent, StepInv
    <3> QED
      BY <1>2, <1>3, <1>4, <1>9, <2>2, <3>2, <3>3 DEF FollowNotSent, StepInv,
         Fault
  <2> QED
    BY <1>9, <2>1, <2>2 DEF FollowNotSent
<1>10. CASE FollowRecordEmail
  BY <1>2, <1>3, <1>4, <1>7, <1>10 DEF FollowRecordEmail, StepInv
<1>11. CASE FollowRecordSequence
  <2>1. /\ seq'[fItem.lead].step = fItem.step
        /\ seq'[fItem.lead].status # "none"
        /\ \A l \in Lead : l # fItem.lead => seq'[l] = seq[l]
    BY <1>4, <1>7, <1>11 DEF FollowRecordSequence, Sequence
  <2>2. fItem.step = seq[fItem.lead].step + 1
    BY <1>1, <1>11 DEF FollowRecordSequence, FollowInv
  <2> QED
    BY <1>2, <1>3, <1>4, <1>6, <1>11, <2>1, <2>2 DEF FollowRecordSequence,
       StepInv
<1>12. CASE FollowDrop
  <2>1. PICK status \in SeqStatuses \ {"none"} : SetSeqStatus(fItem.lead, status)
    BY <1>12 DEF FollowDrop, SeqStatuses
  <2>2. \A l \in Lead : /\ seq'[l].step = seq[l].step
                        /\ SeqExists(l)' <=> SeqExists(l)
    BY <1>1, <1>4, <1>12, <2>1, SetSeqStatusFrame DEF TypeOK, FollowDrop
  <2> QED
    BY <1>2, <1>3, <1>12, <2>2 DEF FollowDrop, StepInv
<1>13. CASE \/ FollowStart \/ FollowStop \/ FollowTake
            \/ \E e \in Item : FollowCheck(e)
  BY <1>2, <1>3, <1>13 DEF FollowStart, FollowStop, FollowTake, FollowCheck,
     StepInv
<1>14. CASE FollowGenerated \/ FollowNotGenerated \/ FollowRecordMetrics
  BY <1>2, <1>3, <1>14 DEF FollowGenerated, FollowNotGenerated,
     FollowRecordMetrics, StepInv
<1>15. CASE FollowCallFails
  BY <1>2, <1>3, <1>15 DEF FollowCallFails, Fault, FollowRecording, StepInv
<1> QED
  BY <1>8, <1>9, <1>10, <1>11, <1>12, <1>13, <1>14, <1>15
     DEF Followup, FollowEngine

LEMMA StepAside ==
  ASSUME Tables, StepInv, Aside
  PROVE  StepInv'
<1>1. TypeOK
  BY DEF Tables
<1>2. /\ UNCHANGED <<sentRows, delivered>>
      /\ faults' \in Nat /\ faults <= faults'
      /\ \A l \in Lead : /\ seq'[l].step = seq[l].step
                         /\ SeqExists(l)' <=> SeqExists(l)
      /\ UNCHANGED <<fPc, fItem>> \/ (fPc' = "idle" /\ faults' = faults + 1)
      /\ faults \in Nat
  BY <1>1, AsideFrame DEF followVars, FollowReset
<1>3. \A l \in Lead, k \in 1 .. LastStep : delivered[l][k] \in Nat
  BY <1>1, StepAssumption DEF TypeOK, DBTypeOK, Steps
<1> QED
  BY <1>2, <1>3 DEF StepInv, SeqExists, FollowRecords

Deliveries == Tables /\ ColdInv /\ StepInv

LEMMA DeliveriesHold == Spec => []Deliveries
<1>1. Init => ColdInv /\ StepInv
  BY StepAssumption DEF Init, DBInit, SendInit, FollowInit, ColdInv, StepInv,
     FollowRecords, Steps
<1>2. Tables /\ ColdInv /\ StepInv /\ [Next]_vars => ColdInv' /\ StepInv'
  BY ColdSend, ColdOthers, StepSend, StepFollowup, StepAside DEF Next, Aside
<1> QED
  BY <1>1, <1>2, TablesHold, PTL DEF Spec, Deliveries

(* Nobody gets the same step twice, a fault apart: AtMostOnce, for         *)
(* sequences of any length and any number of faults.                       *)
THEOREM AtMostOnceHolds == Spec => []AtMostOnce
<1>1. Deliveries => AtMostOnce
  BY StepAssumption DEF Deliveries, ColdInv, StepInv, AtMostOnce, Steps
<1> QED
  BY <1>1, DeliveriesHold, PTL

(* Only the send actions deliver, the step they hold.                      *)
LEMMA SendDelivers ==
  ASSUME TypeOK, Send
  PROVE  \/ UNCHANGED delivered
         \/ sLead \in Lead /\ Deliver(sLead, 0)
<1> USE DEF dbVars, tableVars, ghostVars
<1>1. CASE SendAccepted \/ SendNoAnswer
  BY <1>1 DEF SendAccepted, SendNoAnswer, TypeOK, SendTypeOK
<1>2. CASE \/ SendStart \/ SendStop \/ SendSkip \/ SendTake
           \/ \E l \in Lead : SendCheck(l)
           \/ SendValidated \/ SendHardBounce
  BY <1>2 DEF SendStart, SendStop, SendSkip, SendTake, SendCheck,
              SendValidated, SendHardBounce
<1>3. CASE \/ SendContentRejected \/ SendRejectLead \/ SendSoftBounce
           \/ SendRecordEmail \/ SendRecordLead \/ SendRecordSequence
           \/ SendRecordMetrics
  BY <1>3 DEF SendContentRejected, SendRejectLead, SendSoftBounce,
              SendRecordEmail, SendRecordLead, SendRecordSequence,
              SendRecordMetrics
<1>4. CASE \/ SendBounceEmail \/ SendBounceRow \/ SendBounceReject
           \/ SendBounceLead \/ SendBounceMetrics \/ SendCallFails
  BY <1>4 DEF SendBounceEmail, SendBounceRow, SendBounceReject,
              SendBounceLead, SendBounceMetrics, SendCallFails
<1> QED
  BY <1>1, <1>2, <1>3, <1>4 DEF Send, SendEngine

LEMMA FollowupDelivers ==
  ASSUME TypeOK, Followup
  PROVE  \/ UNCHANGED delivered
         \/ fPc = "send" /\ fItem \in Item /\ Deliver(fItem.lead, fItem.step)
<1> USE DEF dbVars, tableVars, ghostVars
<1>1. CASE FollowAccepted \/ FollowNotSent
  BY <1>1 DEF FollowAccepted, FollowNotSent, TypeOK, FollowTypeOK
<1>2. CASE \/ FollowStart \/ FollowStop \/ FollowDrop \/ FollowTake
           \/ \E e \in Item : FollowCheck(e)
           \/ FollowGenerated \/ FollowNotGenerated
  BY <1>2 DEF FollowStart, FollowStop, FollowDrop, FollowTake, FollowCheck,
              FollowGenerated, FollowNotGenerated
<1>3. CASE \/ FollowRecordEmail \/ FollowRecordSequence
           \/ FollowRecordMetrics \/ FollowCallFails
  BY <1>3 DEF FollowRecordEmail, FollowRecordSequence, FollowRecordMetrics,
              FollowCallFails
<1> QED
  BY <1>1, <1>2, <1>3 DEF Followup, FollowEngine

(* The steps of a sequence arrive in their order: InOrder.                 *)
THEOREM InOrderHolds == Spec => []InOrder
<1>1. Init => InOrder
  BY DEF Init, DBInit, InOrder
<1>2. ASSUME Deliveries, InOrder, [Next]_vars
      PROVE  InOrder'
  <2>1. TypeOK /\ EmailInv /\ FollowInv
    BY <1>2 DEF Deliveries, Tables
  <2>2. \A l \in Lead : \A k \in Steps : delivered[l][k] \in Nat
    BY <2>1 DEF TypeOK, DBTypeOK
  <2>3. CASE UNCHANGED delivered
    BY <1>2, <2>3 DEF InOrder
  <2>4. CASE sLead \in Lead /\ Deliver(sLead, 0)
    <3>1. 0 \in Steps
      BY StepAssumption DEF Steps
    <3>2. /\ delivered'[sLead][0] = delivered[sLead][0] + 1
          /\ \A l \in Lead : \A j \in Steps :
                l # sLead \/ j # 0 => delivered'[l][j] = delivered[l][j]
      BY <2>1, <2>4, <3>1, DeliverCount
    <3>3. \A l \in Lead : \A j \in Steps :
            delivered'[l][j] = delivered[l][j]
              \/ delivered'[l][j] = delivered[l][j] + 1
      BY <2>2, <2>4, <3>1, <3>2
    <3> SUFFICES ASSUME NEW l \in Lead, NEW k \in Steps,
                        delivered'[l][k] > 0, NEW j \in 0 .. k
                 PROVE  delivered'[l][j] > 0
      BY DEF InOrder
    <3>4. j \in Steps
      BY StepAssumption DEF Steps
    <3>5. CASE l = sLead /\ k = 0
      BY <2>2, <3>5
    <3>6. CASE ~(l = sLead /\ k = 0)
      <4>1. delivered[l][k] > 0
        BY <3>2, <3>6
      <4>2. delivered[l][j] > 0
        BY <1>2, <4>1 DEF InOrder
      <4> QED
        BY <2>2, <3>3, <3>4, <4>2
    <3> QED
      BY <3>5, <3>6
  <2>5. CASE /\ fPc = "send" /\ fItem \in Item
             /\ Deliver(fItem.lead, fItem.step)
    <3>1. fItem.lead \in Lead /\ fItem.step \in 1 .. LastStep
      BY <2>5 DEF Item
    <3>2. \A j \in 0 .. fItem.step - 1 : delivered[fItem.lead][j] > 0
      <4>1. /\ SeqExists(fItem.lead)
            /\ fItem.step = seq[fItem.lead].step + 1
            /\ seq[fItem.lead].step \in Nat
        BY <2>1, <2>5, <3>1 DEF FollowInv, FollowItems, TypeOK, DBTypeOK,
           Sequence, Steps
      <4>2. email0[fItem.lead] = "sent"
        BY <2>1, <3>1, <4>1 DEF EmailInv
      <4>3. 1 .. seq[fItem.lead].step \subseteq sentRows[fItem.lead]
        BY <2>1, <3>1, <4>1 DEF FollowInv
      <4> QED
        BY <1>2, <3>1, <4>1, <4>2, <4>3, StepAssumption
           DEF Deliveries, ColdInv, StepInv
    <3>3. /\ delivered'[fItem.lead][fItem.step]
               = delivered[fItem.lead][fItem.step] + 1
          /\ \A l \in Lead : \A j \in Steps :
                l # fItem.lead \/ j # fItem.step
                  => delivered'[l][j] = delivered[l][j]
      BY <2>1, <2>5, <3>1, DeliverCount DEF Steps
    <3>4. \A l \in Lead : \A k \in Steps :
            delivered'[l][k] = delivered[l][k]
              \/ delivered'[l][k] = delivered[l][k] + 1
      BY <2>2, <3>1, <3>3 DEF Steps
    <3> SUFFICES ASSUME NEW l \in Lead, NEW k \in Steps,
                        delivered'[l][k] > 0, NEW j \in 0 .. k
                 PROVE  delivered'[l][j] > 0
      BY DEF InOrder
    <3>5. j \in Steps
      BY StepAssumption DEF Steps
    <3>6. CASE l = fItem.lead /\ k = fItem.step
      BY <2>2, <3>1, <3>2, <3>3, <3>4, <3>5, <3>6
    <3>7. CASE ~(l = fItem.lead /\ k = fItem.step)
      <4>1. delivered[l][k] > 0
        BY <3>3, <3>7
      <4>2. delivered[l][j] > 0
        BY <1>2, <4>1 DEF InOrder
      <4> QED
        BY <2>2, <3>4, <3>5, <4>2
    <3> QED
      BY <3>6, <3>7
  <2> QED
    BY <1>2, <2>1, <2>3, <2>4, <2>5, SendDelivers, FollowupDelivers,
       AsideFrame DEF Next, Aside
<1> QED
  BY <1>1, <1>2, DeliveriesHold, PTL DEF Spec
=============================================================================
