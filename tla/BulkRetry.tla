----------------------------- MODULE BulkRetry ------------------------------
(***************************************************************************)
(* Bulk retry: one stage of the pipeline run again for a batch of leads,   *)
(* by a subscription of the API or a streamed answer of the old server,    *)
(* beside the engine that sends the mails the batch rewrites.  A text is   *)
(* the number of the request that wrote it, 0 for the pipeline.            *)
(***************************************************************************)
EXTENDS Tenancy

CONSTANTS Scores,  \* the ICP scores; 0 is no score
          Batches  \* bound: the sets of leads a batch is asked for

VARIABLES
  leads,    \* the leads of organisation 1, by id
  mails,    \* the step-0 mail of each lead that was not rejected
  sender,   \* the sending engine: the bodies it has loaded, the lead it is mailing, 0 for none
  mailed,   \* ghost: the body each lead was mailed, -1 for none
  clashes,  \* ghost: the leads marked sent while a regeneration was open
  batches,  \* ghost: each batch, its request, the leads it loaded and told of, whether it
            \* said done, whether its client is gone, the leads paid for since
  edits     \* ghost: writes to leads

book == <<leads, mails, sender, mailed, clashes, batches, edits>>

Stages == <<"verify_email", "rescore_icp", "regen_hook", "regen_body", "reextract", "rejudge">>
Stage(p) == Stages[proc[p].id]
Regenerates(p) == proc[p].op \in {"retry", "legacy"} /\ Stage(p) \in {"regen_hook", "regen_body"}

BookInit ==
  /\ leads = <<[score |-> 3, verdict |-> "none", address |-> 0, tech |-> TRUE, signals |-> 1, rejected |-> FALSE],
               [score |-> 0, verdict |-> "none", address |-> 0, tech |-> FALSE, signals |-> 0, rejected |-> TRUE],
               [score |-> 1, verdict |-> "none", address |-> 0, tech |-> TRUE, signals |-> 2, rejected |-> FALSE]>>
  /\ mails = [l \in {k \in DOMAIN leads : ~leads[k].rejected} |-> [status |-> "pending", hook |-> 0, body |-> 0]]
  /\ sender = [queue |-> <<>>, at |-> 0]
  /\ mailed = [l \in DOMAIN mails |-> -1]
  /\ clashes = {} /\ batches = <<>> /\ edits = 0

(***************************************************************************)
(* The batch.  saw: its number; marks: the leads still to do; who: the one *)
(* in hand.  A subscription's socket is admitted by its token alone, the   *)
(* plan is not asked; the old server verifies the token, and nothing else. *)
(***************************************************************************)
Retry(p) == \E s \in Tokens, i \in DOMAIN Stages, ids \in Batches :
  LET request == [Idle EXCEPT !.by = s, !.org = OrgOf(s), !.id = i, !.marks = ids] IN
  /\ \/ s # 0 /\ Begin(p, Stages[i], [request EXCEPT !.op = "retry", !.todo = <<"context", "load">>])
     \/ Begin(p, Stages[i], [request EXCEPT !.op = "legacy", !.todo = <<"token", "load">>])
  /\ UNCHANGED <<accounts, tenancy, book>>
Load(p) ==
  LET found == {l \in proc[p].marks : Sees(p, [org |-> 1])} IN
  /\ At(p, "load")
  /\ batches' = Append(batches, [of |-> proc[p].no, loaded |-> found, told |-> {}, done |-> FALSE, gone |-> FALSE, after |-> 0])
  /\ proc' = [proc EXCEPT ![p].todo = <<"next">>, ![p].marks = found, ![p].saw = Len(batches) + 1]
  /\ Going /\ UNCHANGED <<accounts, tenancy, leads, mails, sender, mailed, clashes, edits>>
Batch(p) == batches[proc[p].saw]
Finished(p) ==
  /\ batches' = [batches EXCEPT ![proc[p].saw].done = ~Batch(p).gone]
  /\ proc' = Ended(p)
\* The stream is looked at before each lead; a generator that is left ends at its next yield.
Stops(p) == Batch(p).gone /\ (proc[p].op = "legacy" \/ Batch(p).told # {})
NextOf(p, stops) ==
  /\ At(p, "next")
  /\ IF proc[p].marks = {} \/ stops THEN Finished(p)
     ELSE /\ \E l \in proc[p].marks :
               proc' = [proc EXCEPT ![p].who = l, ![p].marks = @ \ {l}, ![p].todo =
                 IF Regenerates(p) THEN <<"find mail", "call", "rewrite">> ELSE <<"call", "write lead">>]
          /\ UNCHANGED batches
  /\ Going /\ UNCHANGED <<accounts, tenancy, leads, mails, sender, mailed, clashes, edits>>
\* Mutant: aborted is not looked at.
NextLeadAnyway(p) == NextOf(p, FALSE)
NextLead(p) == NextOf(p, Stops(p))
\* The event of a lead, with its cost or with its error.
Told(p, cost) == [batches EXCEPT ![proc[p].saw].told = @ \cup {proc[p].who}, ![proc[p].saw].after = @ + cost]
Tell(p) == batches' = Told(p, 0)
\* Mutant: the catch is outside the loop.
FailLast(p, cost) == batches' = [Told(p, cost) EXCEPT ![proc[p].saw].done = TRUE] /\ proc' = Ended(p)
\* The error is told and the next lead comes, also when it cannot be logged.
Fail(p, cost) == batches' = Told(p, cost) /\ proc' = Goes(p, <<"next">>)

Pending(l) == l \in DOMAIN mails /\ mails[l].status = "pending"
MailFor(p, pending) ==
  /\ At(p, "find mail")
  /\ IF pending THEN proc' = Advance(p) /\ UNCHANGED batches ELSE Fail(p, 0)
  /\ Going /\ UNCHANGED <<accounts, tenancy, leads, mails, sender, mailed, clashes, edits>>
\* Mutant: any mail of step 0 will do.
FindAnyMail(p) == MailFor(p, proc[p].who \in DOMAIN mails)
FindMail(p) == MailFor(p, Pending(proc[p].who))
\* The models or the verifier are asked, and paid, a hook as two variants in one await; they
\* answer, or the stage fails.
CallModel(p) ==
  LET cost == IF Batch(p).gone THEN 1 ELSE 0 IN
  /\ At(p, "call")
  /\ \/ batches' = [batches EXCEPT ![proc[p].saw].after = @ + cost] /\ proc' = Advance(p)
     \/ Fail(p, cost)
  /\ Going /\ UNCHANGED <<accounts, tenancy, leads, mails, sender, mailed, clashes, edits>>
\* What a stage writes into a lead.  The scores stand for their order, 0 for null: the
\* lowest that a rescore writes may be the number 0.
Written(p, l) ==
  IF Stage(p) = "verify_email" THEN {[leads[l] EXCEPT !.verdict = v] : v \in {"valid", "invalid"}}
  ELSE IF Stage(p) = "rescore_icp" THEN {[leads[l] EXCEPT !.score = s] : s \in Scores \ {0}}
  ELSE IF Stage(p) = "reextract" THEN {[leads[l] EXCEPT !.address = proc[p].no, !.tech = t] : t \in BOOLEAN}
  ELSE {leads[l]}
WriteLead(p) ==
  LET l == proc[p].who IN
  /\ At(p, "write lead")
  /\ \E row \in Written(p, l) : leads' = [leads EXCEPT ![l] = row]
  /\ edits' = edits + 1
  /\ Tell(p) /\ proc' = Goes(p, <<"next">>)
  /\ Going /\ UNCHANGED <<accounts, tenancy, mails, sender, mailed, clashes>>
\* By id: whatever has become of the mail since it was found.
Rewrite(p) ==
  LET l == proc[p].who IN
  /\ At(p, "rewrite")
  /\ mails' = [mails EXCEPT ![l] = IF Stage(p) = "regen_hook" THEN [@ EXCEPT !.hook = proc[p].no]
                                                              ELSE [@ EXCEPT !.body = proc[p].no]]
  /\ Tell(p) /\ proc' = Goes(p, <<"next">>)
  /\ Going /\ UNCHANGED <<accounts, tenancy, leads, sender, mailed, clashes, edits>>
InBatch(p) == \E step \in {"next", "call", "write lead", "rewrite"} : Awaits(p, step)
\* The browser closes the stream, or the socket.
Close(p) ==
  /\ "close" \in menu.kinds /\ p \in Busy /\ InBatch(p)
  /\ ~Batch(p).gone
  /\ batches' = [batches EXCEPT ![proc[p].saw].gone = TRUE]
  /\ UNCHANGED <<requests, accounts, tenancy, leads, mails, sender, mailed, clashes, edits>>

(***************************************************************************)
(* The sending engine: a queue loaded at once, mail by mail sent and then  *)
(* marked, with the body it had loaded.                                    *)
(***************************************************************************)
LoadQueue ==
  LET ready == {l \in DOMAIN mails : Pending(l)} IN
  /\ "mailing" \in menu.kinds /\ sender.queue = <<>> /\ sender.at = 0 /\ ready # {}
  /\ sender' = [sender EXCEPT !.queue = [l \in ready |-> mails[l].body]]
  /\ UNCHANGED <<requests, accounts, tenancy, leads, mails, mailed, clashes, batches, edits>>
SendMail == \E l \in DOMAIN sender.queue :
  /\ sender.at = 0
  /\ sender' = [sender EXCEPT !.at = l]
  /\ mailed' = [mailed EXCEPT ![l] = sender.queue[l]]
  /\ UNCHANGED <<requests, accounts, tenancy, leads, mails, clashes, batches, edits>>
Rewriting(l) == {p \in Busy : proc[p].who = l /\ proc[p].op \in {"retry", "legacy"} /\ Awaits(p, "rewrite") /\ ~At(p, "find mail")}
MarkSent ==
  LET l == sender.at IN
  /\ l # 0
  /\ mails' = [mails EXCEPT ![l].status = "sent", ![l].body = sender.queue[l]]
  /\ clashes' = IF Rewriting(l) = {} THEN clashes ELSE clashes \cup {l}
  /\ sender' = [queue |-> [k \in DOMAIN sender.queue \ {l} |-> sender.queue[k]], at |-> 0]
  /\ UNCHANGED <<requests, accounts, tenancy, leads, mailed, batches, edits>>

BookStep ==
  \/ \E p \in Handlers :
       \/ Retry(p) \/ Load(p) \/ NextLead(p) \/ FindMail(p) \/ CallModel(p)
       \/ WriteLead(p) \/ Rewrite(p) \/ Close(p)
  \/ LoadQueue \/ SendMail \/ MarkSent

-----------------------------------------------------------------------------
\* The row of a mail that was sent has the body that was sent, unless a regeneration of
\* it was open when it was marked.
SentAsRecorded == \A l \in DOMAIN mails :
  mails[l].status = "sent" => mails[l].body = mailed[l] \/ l \in clashes

\* A batch that says done has told of every lead it loaded, whatever failed on the way.
DoneToldAll == \A b \in Range(batches) : b.done => b.told = b.loaded

\* Once its client is gone a batch pays for the stage of one more lead at most.
OneMoreLead == \A b \in Range(batches) : b.after <= 1

\* A batch tells of everything it did, and pays for next to nothing nobody hears of.
BatchAccounted == DoneToldAll /\ OneMoreLead
=============================================================================
