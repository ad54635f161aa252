------------------------------ MODULE LeadWork ------------------------------
(***************************************************************************)
(* What a findLeads run promises about its raw leads: each is worked on at *)
(* most once, by one worker, and a run that reports success has settled    *)
(* every lead it found.  A run that failed may leave work going on behind  *)
(* its back; a crash forgets everything.                                   *)
(***************************************************************************)
CONSTANT Raw \* entries of the discovery answers of one run

VARIABLES run,      \* the run's state, as its cron_log row tells it
          waiting,  \* found, and nobody works on it yet
          working,  \* being worked on
          settled   \* inserted, skipped or given up

workVars == <<run, waiting, working, settled>>

Idle == /\ waiting = {}
        /\ working = {}
        /\ settled = {}

WorkInit == run = "off" /\ Idle

Begin == /\ run # "on"
         /\ working = {}
         /\ run' = "on"
         /\ Idle'

Find == \E found \in SUBSET Raw :
          /\ run \in {"on", "failed"}
          /\ found # {}
          /\ found \cap (waiting \cup working \cup settled) = {}
          /\ waiting' = waiting \cup found
          /\ UNCHANGED <<run, working, settled>>

Take(r) == /\ r \in waiting
           /\ run \in {"on", "failed"}
           /\ waiting' = waiting \ {r}
           /\ working' = working \cup {r}
           /\ UNCHANGED <<run, settled>>

(* A worker that breaks down may take the run with it.                     *)
Settle(r) == /\ r \in working
             /\ working' = working \ {r}
             /\ settled' = settled \cup {r}
             /\ run' = run \/ (run = "on" /\ run' = "failed")
             /\ UNCHANGED waiting

Succeed == /\ run = "on"
           /\ waiting = {}
           /\ working = {}
           /\ run' = "success"
           /\ UNCHANGED <<waiting, working, settled>>

Fail == /\ run = "on"
        /\ run' = "failed"
        /\ UNCHANGED <<waiting, working, settled>>

Crash == run' = "off" /\ Idle'

WorkNext ==
  \/ Begin
  \/ Find
  \/ \E r \in Raw : Take(r) \/ Settle(r)
  \/ Succeed
  \/ Fail
  \/ Crash

WorkSpec == WorkInit /\ [][WorkNext]_workVars
=============================================================================
