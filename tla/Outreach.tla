------------------------------ MODULE Outreach ------------------------------
(***************************************************************************)
(* The outreach engines composed: sendEmails, sendFollowups and            *)
(* checkReplies interleave over one organisation's tables, in a worker     *)
(* process that may crash and be restarted (BullMQ then runs the stalled   *)
(* jobs again, which a later Start stands for), beside the dashboard and   *)
(* the passing of time.                                                    *)
(***************************************************************************)
EXTENDS SendEmails, SendFollowups, Dashboard

vars == <<dbVars, sendVars, followVars, replyVars, dashVars>>

Init ==
  /\ DBInit
  /\ SendInit
  /\ FollowInit
  /\ ReplyInit
  /\ DashInit

-----------------------------------------------------------------------------

Send     == /\ SendStart \/ SendEngine \/ SendCallFails
            /\ UNCHANGED <<followVars, replyVars, dashVars>>
Followup == /\ FollowStart \/ FollowEngine \/ FollowCallFails
            /\ UNCHANGED <<sendVars, replyVars, dashVars>>
Reply    == /\ \/ ReplyFetch \/ ReplyFetchFails \/ ReplyEngine
               \/ ReplyWriteFails
               \/ \E m \in Message : ReplyArrives(m) \/ ReplyNotStored(m)
            /\ UNCHANGED <<sendVars, followVars, dashVars>>
Dash     == /\ DashMutation
            /\ UNCHANGED <<sendVars, followVars, replyVars>>

(* The worker process dies: every run is gone, the tables stay.            *)
WorkerCrash ==
  /\ sPc # "idle" \/ fPc # "idle" \/ rPc # "idle"
  /\ Fault
  /\ SendReset
  /\ FollowReset
  /\ ReplyReset
  /\ UNCHANGED <<unseen, replies, dashVars, tableVars, metricVars, limit,
                 ghostVars>>

(* Midnight UTC: today() names a new daily_metrics row, and the            *)
(* nextSendDate of some of the active sequences has come (it was set 3 to  *)
(* 76 days ahead).  A run may be under way: it sleeps minutes between      *)
(* mails.                                                                  *)
NewDay ==
  /\ sentToday' = 0
  /\ bouncedToday' = 0
  /\ acceptedToday' = 0
  /\ \E come \in SUBSET {l \in Lead : seq[l].status = "active"} :
       seq' = [l \in Lead |-> IF l \in come THEN [seq[l] EXCEPT !.due = TRUE]
                                             ELSE seq[l]]
  /\ UNCHANGED <<sendVars, followVars, replyVars, dashVars, leadStatus,
                 email0, sentRows, rejectList, hardBounces, limit,
                 delivered, late, faults>>

Next ==
  \/ Send
  \/ Followup
  \/ Reply
  \/ Dash
  \/ WorkerCrash
  \/ NewDay

Spec == Init /\ [][Next]_vars

-----------------------------------------------------------------------------
(* Safety *)

TypeOK ==
  /\ DBTypeOK
  /\ SendTypeOK
  /\ FollowTypeOK
  /\ ReplyTypeOK
  /\ DashTypeOK

(* The daily limit, as the recipients see it: both engines may pass the    *)
(* check on the last free place, and a crash can lose the counts of both   *)
(* mails in flight, but no interleaving exceeds the limit by more.         *)
(* (sendEmails.js:116-120 and :148, sendFollowups.js:129)                  *)
DailyLimitBound == acceptedToday <= DailyLimit + 1 + 2 * faults

(* Once an address is rejected (by a bounce, an unsubscribe, an operator,  *)
(* or through its domain), at most the one mail that was past the check is *)
(* still delivered to it, whatever is crashed, restarted or reactivated.   *)
(* (sendEmails.js:151, sendFollowups.js:133)                               *)
RejectBound == \A l \in Lead : late[l] <= 1

(* Each step of a sequence reaches its lead once, plus once more for every *)
(* crash, failed write or lost answer that hid a delivery from the tables. *)
(* (sendEmails.js:229-262, sendFollowups.js:222-279)                       *)
AtMostOnce == \A l \in Lead, k \in Steps : delivered[l][k] <= 1 + faults

(* No step reaches a lead before all the steps in front of it have.        *)
InOrder ==
  \A l \in Lead, k \in Steps :
     delivered[l][k] > 0 => \A j \in 0 .. k : delivered[l][j] > 0

(* A sequence_state row at step k rests on k + 1 recorded mails, so the    *)
(* References header of the next step names every earlier message.         *)
(* (sendFollowups.js:178-187)                                              *)
ThreadComplete ==
  \A l \in Lead : SeqExists(l) => /\ email0[l] = "sent"
                                  /\ 1 .. seq[l].step \subseteq sentRows[l]

(* A lead with a hard bounce on file never enters a sequence, although the *)
(* email row, the bounce row, the reject list and the lead's status are    *)
(* written apart.  (sendEmails.js:299-324)                                 *)
BouncedStaysOut == \A l \in hardBounces : ~SeqExists(l)

-----------------------------------------------------------------------------
(* Liveness *)

(* The event loop runs every pending continuation, cron triggers           *)
(* checkReplies three times a day, for ever, and a dashboard mutation that *)
(* was started goes on.  Sends are triggered too, but nothing below needs  *)
(* that, and nobody has to answer a mail or use the dashboard.             *)
Fairness ==
  /\ WF_vars(SendEngine /\ UNCHANGED <<followVars, replyVars, dashVars>>)
  /\ WF_vars(FollowEngine /\ UNCHANGED <<sendVars, replyVars, dashVars>>)
  /\ WF_vars((ReplyFetch \/ ReplyEngine)
               /\ UNCHANGED <<sendVars, followVars, dashVars>>)

FairSpec == Spec /\ Fairness

(* A run of either send engine ends: no lead or sequence is looked at for  *)
(* ever, although its status, its limits and the lists change underneath.  *)
(* (sendEmails.js:136-350, sendFollowups.js:123-296)                       *)
RunsEnd == /\ (sPc # "idle") ~> (sPc = "idle")
           /\ (fPc # "idle") ~> (fPc = "idle")

(* An unsubscribe that reached the mailbox gets its address rejected, as   *)
(* long as nothing fails: whatever else the same lead writes, and whatever *)
(* the operator does meanwhile.  (checkReplies.js:110-195)                 *)
UnsubscribeHonoured ==
  \A l \in Lead :
     (\E m \in unseen : m.lead = l /\ m.category = "unsubscribe")
       ~> (IsRejected(l) \/ faults > 0)

-----------------------------------------------------------------------------
(* What the documents promise of the send engines.  Each of these is       *)
(* violated by the code: see the findings in PROJECT.json.                 *)

Takes(l)   == sPc = "loop" /\ sPc' = "check" /\ sLead' = l
Follows(l) == fPc = "check" /\ fPc' = "generate" /\ fItem.lead = l

(* The design's stop rule, "any reply": no step is begun for a lead that   *)
(* has a row in replies.                                                   *)
AnyReplyStops ==
  [][\A l \in Lead : Follows(l) => \A m \in replies : m.lead # l]_vars

(* The design's stop rule, "unsubscribed": no step is begun for a lead an  *)
(* operator marked unsubscribed.                                           *)
UnsubscribedStops ==
  [][\A l \in Lead : Follows(l) => leadStatus[l] # "unsubscribed"]_vars

(* Rule 5, "bounce rate > 2% = immediate hard stop": no cold mail is begun *)
(* when today's hard bounces exceed the threshold share of today's sends.  *)
BounceHardStop ==
  [][\A l \in Lead :
        Takes(l) => bouncedToday * BounceDen <= BounceNum * sentToday]_vars

(* Rule 11, "DAILY_SEND_LIMIT=0 is a hard stop": no cold mail is begun     *)
(* while the configured limit is 0.                                        *)
LimitZeroStops == [][\A l \in Lead : Takes(l) => limit # 0]_vars

=============================================================================
