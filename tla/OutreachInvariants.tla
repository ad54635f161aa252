------------------------- MODULE OutreachInvariants --------------------------
(***************************************************************************)
(* The inductive invariants behind the safety properties of Outreach.      *)
(***************************************************************************)
EXTENDS Outreach

SendBusy   == sPc \in {"check", "validate", "send"} \cup SendRecording
FollowBusy == fPc \in {"check", "generate", "send"} \cup FollowRecording
Bit(b)     == IF b THEN 1 ELSE 0

SendLeads   == IF sPc \in {"idle", "loop"} THEN {} ELSE {sLead}
FollowItems == IF fPc \in {"idle", "loop"} THEN {} ELSE {fItem}

(* The places of the day's limit: those counted and those an engine holds. *)
(* What was accepted is counted, about to be counted, or lost to a fault.  *)
LimitInv ==
  /\ SendBusy \/ FollowBusy => DailyLimit > 0
  /\ sentToday + Bit(SendBusy) + Bit(FollowBusy) <= DailyLimit + 1
  /\ acceptedToday <= sentToday + Bit(sPc \in SendRecording)
                        + Bit(fPc \in FollowRecording) + 2 * faults

(* The step-0 email decides what the cold run and the sequence may be      *)
(* doing about a lead: a run holds and queues pending emails only, every   *)
(* sequence rests on a sent one, every hard bounce on a bounced one.       *)
EmailInv ==
  /\ \A l \in sQueue : email0[l] = "pending" /\ l \notin SendLeads
  /\ sPc \in {"check", "validate", "send", "recEmail", "hbEmail"}
       => email0[sLead] = "pending"
  /\ sPc \in {"recLead", "recSeq", "recBump"} => email0[sLead] = "sent"
  /\ sPc \in {"recLead", "recSeq"} => ~SeqExists(sLead)
  /\ sPc \in SendBouncing \ {"hbEmail"} => email0[sLead] = "hard_bounce"
  /\ \A l \in Lead : SeqExists(l) => email0[l] = "sent"
  /\ \A l \in hardBounces : email0[l] = "hard_bounce"

(* What a follow-up run remembers of a sequence stays true: the row        *)
(* exists, its step is the one before, and the mails before are recorded.  *)
FollowInv ==
  /\ \A e \in fQueue : /\ SeqExists(e.lead)
                       /\ e.step = seq[e.lead].step + 1
                       /\ e \notin FollowItems
  /\ \A e \in FollowItems : SeqExists(e.lead)
  /\ fPc \in {"check", "generate", "send", "recEmail", "recSeq"}
       => fItem.step = seq[fItem.lead].step + 1
  /\ fPc = "recSeq" => fItem.step \in sentRows[fItem.lead]
  /\ \A l \in Lead : SeqExists(l) => 1 .. seq[l].step \subseteq sentRows[l]

SendInFlight(l)   == sPc \in {"validate", "send"} /\ sLead = l
FollowInFlight(l) == fPc \in {"generate", "send"} /\ fItem.lead = l

(* A late mail was the one in flight when its address was rejected.        *)
RejectInv ==
  \A l \in Lead :
     late[l] # 0 => /\ late[l] = 1
                    /\ IsRejected(l)
                    /\ ~SendInFlight(l)
                    /\ ~FollowInFlight(l)

(* What the tables say was sent was delivered; what they do not say yet    *)
(* was delivered at most once per fault.  ColdInv says so of step 0,       *)
(* StepInv of the steps after it.                                          *)
ColdInv ==
  \A l \in Lead :
     /\ delivered[l][0] <= 1 + faults
     /\ email0[l] = "sent" => delivered[l][0] > 0
     /\ sPc = "recEmail" /\ sLead = l => delivered[l][0] > 0
     /\ email0[l] = "pending" /\ ~(sPc = "recEmail" /\ sLead = l)
          => delivered[l][0] <= faults

FollowRecords(l, k) == /\ fPc \in {"recEmail", "recSeq"}
                       /\ fItem.lead = l
                       /\ fItem.step = k

StepInv ==
  \A l \in Lead, k \in 1 .. LastStep :
     /\ delivered[l][k] <= 1 + faults
     /\ k \in sentRows[l] \/ FollowRecords(l, k) => delivered[l][k] > 0
     /\ (SeqExists(l) => k > seq[l].step) /\ ~FollowRecords(l, k)
          => delivered[l][k] <= faults

DeliveryInv == ColdInv /\ StepInv
=============================================================================
