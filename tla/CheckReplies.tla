---------------------------- MODULE CheckReplies ----------------------------
(***************************************************************************)
(* Engine 4, src/engines/checkReplies.js with core/email/imap.js: unseen   *)
(* mail is fetched (and flagged \Seen as it is read), matched to a lead,   *)
(* deduplicated, classified, stored, and acted upon.  The two inboxes are  *)
(* one here.  A message is a lead and the category its text is given; two  *)
(* texts of a lead with the same category count as the same text.          *)
(***************************************************************************)
EXTENDS OutreachDB

CONSTANTS RepliesEnabled, \* config.check_replies_enabled
          Category,       \* categories of replies that occur
          NoMessage       \* "no message is being handled"

Categories == {"hot", "schedule", "soft_no", "unsubscribe", "ooo", "other"}
Message    == [lead : Lead, category : Category]

ASSUME RepliesAssumption   == RepliesEnabled \in BOOLEAN
ASSUME CategoryAssumption  == Category \subseteq Categories
ASSUME NoMessageAssumption == NoMessage \notin Message

VARIABLES unseen,   \* messages in the mailbox without the \Seen flag
          replies,  \* rows of the replies table
          rPc,      \* where the run is
          rBatch,   \* messages fetched and not yet handled
          rMessage  \* the message being handled

replyVars == <<unseen, replies, rPc, rBatch, rMessage>>

ReplyPcs == {"idle", "next", "reject", "lead", "seq"}

ReplyTypeOK ==
  /\ unseen \subseteq Message
  /\ replies \subseteq Message
  /\ rPc \in ReplyPcs
  /\ rBatch \subseteq Message
  /\ rMessage \in Message \cup {NoMessage}
  /\ rPc \notin {"idle", "next"} => rMessage \in Message

ReplyInit ==
  /\ unseen = {}
  /\ replies = {}
  /\ rPc = "idle"
  /\ rBatch = {}
  /\ rMessage = NoMessage

-----------------------------------------------------------------------------

(* Someone we have mailed answers (environment), maybe once more with a    *)
(* text we have seen.                                                      *)
ReplyArrives(m) ==
  /\ \E k \in Steps : delivered[m.lead][k] > 0
  /\ m \notin unseen
  /\ unseen' = unseen \cup {m}
  /\ UNCHANGED <<replies, rPc, rBatch, rMessage, dbVars>>

ReplyReset == rPc' = "idle" /\ rBatch' = {} /\ rMessage' = NoMessage

(* fetchUnseen returns every unseen message, all of them flagged now.      *)
ReplyFetch ==
  /\ rPc = "idle"
  /\ RepliesEnabled
  /\ unseen # {}
  /\ rBatch' = unseen
  /\ unseen' = {}
  /\ rPc' = "next"
  /\ UNCHANGED <<replies, rMessage, dbVars>>

(* fetchUnseen throws after flagging some messages: they are dropped with  *)
(* the array, and the next fetch does not see them.                        *)
ReplyFetchFails ==
  /\ rPc = "idle"
  /\ RepliesEnabled
  /\ Fault
  /\ \E seen \in SUBSET unseen : seen # {} /\ unseen' = unseen \ seen
  /\ UNCHANGED <<replies, rPc, rBatch, rMessage, tableVars, metricVars,
                 limit, ghostVars>>

ReplyFinish ==
  /\ rPc = "next"
  /\ rBatch = {}
  /\ ReplyReset
  /\ UNCHANGED <<unseen, replies, dbVars>>

(* A message whose text is already in replies is skipped.                  *)
ReplyDuplicate(m) ==
  /\ rPc = "next"
  /\ m \in rBatch \cap replies
  /\ rBatch' = rBatch \ {m}
  /\ UNCHANGED <<unseen, replies, rPc, rMessage, dbVars>>

(* Mutant: an unsubscribe does not reach the reject list.                  *)
FirstWriteMutant(category) ==
  IF category \in {"hot", "schedule", "unsubscribe"} THEN "lead"
  ELSE IF category = "other" THEN "next" ELSE "seq"

(* Where handleClassification starts for a category.                       *)
FirstWrite(category) ==
  CASE category \in {"hot", "schedule"} -> "lead"
    [] category = "unsubscribe"         -> "reject"
    [] category \in {"soft_no", "ooo"}  -> "seq"
    [] category = "other"               -> "next"

(* Classified and stored; then handleClassification writes, in its order.  *)
ReplyStore(m) ==
  /\ rPc = "next"
  /\ m \in rBatch \ replies
  /\ rBatch' = rBatch \ {m}
  /\ replies' = replies \cup {m}
  /\ rPc' = FirstWrite(m.category)
  /\ rMessage' = IF m.category = "other" THEN NoMessage ELSE m
  /\ UNCHANGED <<unseen, dbVars>>

(* Classification, or storing the row, throws: logged, and on to the next. *)
ReplyNotStored(m) ==
  /\ rPc = "next"
  /\ m \in rBatch \ replies
  /\ Fault
  /\ rBatch' = rBatch \ {m}
  /\ UNCHANGED <<unseen, replies, rPc, rMessage, tableVars, metricVars,
                 limit, ghostVars>>

ReplyReject ==
  /\ rPc = "reject"
  /\ AddToRejectList(rMessage.lead)
  /\ rPc' = "lead"
  /\ UNCHANGED <<unseen, replies, rBatch, rMessage, leadStatus, email0, seq,
                 sentRows, hardBounces, metricVars, limit, ghostVars,
                 faults>>

ReplyLead ==
  /\ rPc = "lead"
  /\ SetLead(rMessage.lead, IF rMessage.category = "unsubscribe"
                              THEN "unsubscribed" ELSE "replied")
  /\ rPc' = "seq"
  /\ UNCHANGED <<unseen, replies, rBatch, rMessage, email0, seq, sentRows,
                 rejectList, hardBounces, metricVars, limit, ghostVars,
                 faults>>

(* soft_no puts the sequence back to 'active', whatever it was, 14 days    *)
(* from now; ooo only moves the date, 5 days from now.                     *)
ReplySequence ==
  LET l == rMessage.lead
      c == rMessage.category
  IN /\ rPc = "seq"
     /\ \/ c \in {"hot", "schedule"} /\ SetSeqStatus(l, "replied")
        \/ c = "unsubscribe" /\ SetSeqStatus(l, "unsubscribed")
        \/ /\ c = "soft_no"
           /\ seq' = IF SeqExists(l)
                       THEN [seq EXCEPT ![l].status = "active",
                                        ![l].due = FALSE]
                       ELSE seq
        \/ c = "ooo" /\ seq' = [seq EXCEPT ![l].due = FALSE]
     /\ rPc' = "next"
     /\ rMessage' = NoMessage
     /\ UNCHANGED <<unseen, replies, rBatch, leadStatus, email0, sentRows,
                    rejectList, hardBounces, metricVars, limit, ghostVars,
                    faults>>

(* One of those writes throws: the rest of the message's writes are lost,  *)
(* and its row in replies keeps it from being handled again.               *)
ReplyWriteFails ==
  /\ rPc \in {"reject", "lead", "seq"}
  /\ Fault
  /\ rPc' = "next"
  /\ rMessage' = NoMessage
  /\ UNCHANGED <<unseen, replies, rBatch, tableVars, metricVars, limit,
                 ghostVars>>

ReplyEngine ==
  \/ ReplyFinish
  \/ \E m \in Message : ReplyDuplicate(m) \/ ReplyStore(m)
  \/ ReplyReject
  \/ ReplyLead
  \/ ReplySequence
=============================================================================
