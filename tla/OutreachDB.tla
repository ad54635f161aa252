----------------------------- MODULE OutreachDB -----------------------------
(***************************************************************************)
(* One organisation's outreach tables, as the engines of src/engines and   *)
(* the dashboard share them: leads, their step-0 email, sequence_state,    *)
(* reject_list, bounces, daily_metrics and the daily_send_limit config     *)
(* key, and the queries of core/db/index.js that the engines decide by.    *)
(*                                                                         *)
(* A lead stands for its contact_email, and DomainOf for the part after    *)
(* the '@'.  Texts, costs, timestamps and the counters nobody decides by   *)
(* (attempted, per inbox, replies by class) are left out.                  *)
(***************************************************************************)
EXTENDS Integers, FiniteSets

CONSTANTS Lead,        \* leads of the organisation that own a step-0 email
          NoLead,      \* "no lead"
          Domain,      \* mail domains
          DomainOf,    \* the domain of each lead's contact_email
          DailyLimit,  \* daily_send_limit as the operator configured it
          BounceNum,   \* bounce_rate_hard_stop is BounceNum / BounceDen
          BounceDen,
          LastStep,    \* last step of the sequence (4 in the code)
          GoodInbox,   \* the inboxes whose user is on OUTREACH_DOMAIN
          MaxFaults    \* bound: crashes, failed writes and lost answers

ASSUME LeadAssumption  == DomainOf \in [Lead -> Domain]
ASSUME NoLeadAssumption == NoLead \notin Lead
ASSUME LimitAssumption == DailyLimit \in Nat
ASSUME BounceAssumption == BounceNum \in Nat /\ BounceDen \in Nat \ {0}
ASSUME StepAssumption  == LastStep \in Nat \ {0}
ASSUME InboxAssumption == GoodInbox \subseteq {1, 2}
ASSUME FaultAssumption  == MaxFaults \in Nat

VARIABLES
  leadStatus,    \* leads.status
  email0,        \* emails.status of the row with sequence_step = 0
  seq,           \* the sequence_state row: currentStep, status, nextSendDate
  sentRows,      \* steps >= 1 that have an emails row with a message id
  rejectList,    \* leads whose address has a reject_list row
  hardBounces,   \* leads with a 'hard' row in bounces
  sentToday,     \* daily_metrics.emails_sent
  bouncedToday,  \* daily_metrics.emails_hard_bounced
  limit,         \* config.daily_send_limit
  delivered,     \* ghost: mails the SMTP server accepted, by lead and step
  late,          \* ghost: of those, the ones after the address was rejected
  acceptedToday, \* ghost: mails accepted since midnight
  faults         \* ghost: crashes, failures and lost answers so far

metricVars == <<sentToday, bouncedToday>>
ghostVars  == <<delivered, late, acceptedToday>>
tableVars  == <<leadStatus, email0, seq, sentRows, rejectList, hardBounces>>
dbVars     == <<tableVars, metricVars, limit, ghostVars, faults>>

Steps        == 0 .. LastStep
LeadStatuses == {"ready", "nurture", "sent", "bounced", "replied",
                 "unsubscribed", "content_rejected"}
EmailStatuses == {"pending", "sent", "hard_bounce", "soft_bounce",
                  "content_rejected"}
SeqStatuses  == {"none", "active", "replied", "unsubscribed", "paused",
                 "completed"}
(* nextSendDate is a date, not a time: due tells whether it has come.      *)
Sequence     == [step : Steps, status : SeqStatuses, due : BOOLEAN]

DBTypeOK ==
  /\ leadStatus \in [Lead -> LeadStatuses]
  /\ email0 \in [Lead -> EmailStatuses]
  /\ seq \in [Lead -> Sequence]
  /\ sentRows \in [Lead -> SUBSET (1 .. LastStep)]
  /\ rejectList \subseteq Lead
  /\ hardBounces \subseteq Lead
  /\ sentToday \in Nat
  /\ bouncedToday \in Nat
  /\ limit \in {0, DailyLimit}
  /\ delivered \in [Lead -> [Steps -> Nat]]
  /\ late \in [Lead -> Nat]
  /\ acceptedToday \in Nat
  /\ faults \in 0 .. MaxFaults

(* findLeads has just inserted every lead: status 'ready', step 0 pending. *)
DBInit ==
  /\ leadStatus = [l \in Lead |-> "ready"]
  /\ email0 = [l \in Lead |-> "pending"]
  /\ seq = [l \in Lead |-> [step |-> 0, status |-> "none", due |-> FALSE]]
  /\ sentRows = [l \in Lead |-> {}]
  /\ rejectList = {}
  /\ hardBounces = {}
  /\ sentToday = 0
  /\ bouncedToday = 0
  /\ limit = DailyLimit
  /\ delivered = [l \in Lead |-> [k \in Steps |-> 0]]
  /\ late = [l \in Lead |-> 0]
  /\ acceptedToday = 0
  /\ faults = 0

-----------------------------------------------------------------------------
(* Queries *)

(* isRejected: a row matches by address or by domain.                      *)
IsRejected(l) == \E r \in rejectList : DomainOf[r] = DomainOf[l]

(* todayBounceRate() > bounceStop; the rate of a day without sends is 0.   *)
BounceStopped ==
  /\ sentToday # 0
  /\ bouncedToday * BounceDen > BounceNum * sentToday

(* Two or more hard bounces among the leads of this lead's domain.         *)
DomainBounced(l) ==
  \E a, b \in hardBounces : a # b /\ DomainOf[a] = DomainOf[l]
                                  /\ DomainOf[b] = DomainOf[l]

SeqExists(l) == seq[l].status # "none"

(* The inbox the round robin picks: todaySentCount() % 2 + 1.              *)
NextInbox == (sentToday % 2) + 1

-----------------------------------------------------------------------------
(* Writes *)

(* addToRejectList is an upsert: a second call changes nothing.            *)
AddToRejectList(l) == rejectList' = rejectList \cup {l}

SetLead(l, status) == leadStatus' = [leadStatus EXCEPT ![l] = status]

(* sequenceState.updateMany: no row, no effect.                            *)
SetSeqStatus(l, status) ==
  seq' = IF SeqExists(l) THEN [seq EXCEPT ![l].status = status] ELSE seq

(* bumpMetric('emailsSent').                                               *)
BumpSent == sentToday' = sentToday + 1 /\ UNCHANGED bouncedToday

(* The SMTP server takes responsibility for step k of lead l.              *)
Deliver(l, k) ==
  /\ delivered' = [delivered EXCEPT ![l][k] = @ + 1]
  /\ late' = IF IsRejected(l) THEN [late EXCEPT ![l] = @ + 1] ELSE late
  /\ acceptedToday' = acceptedToday + 1

(* One unit of the fault budget.                                           *)
Fault == faults < MaxFaults /\ faults' = faults + 1
=============================================================================
