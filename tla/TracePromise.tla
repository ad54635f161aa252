----------------------------- MODULE TracePromise -----------------------------
(***************************************************************************)
(* What a trace promises: every adapter in scope is answered once, the     *)
(* gated ones after all the others, and a dossier is handed over when all  *)
(* are answered, or never. A run may be given up at any time.              *)
(***************************************************************************)
CONSTANTS Names, Late
VARIABLES open, scope, answered, handed

vars == <<open, scope, answered, handed>>

Init == open = FALSE /\ scope = {} /\ answered = {} /\ handed = FALSE

Ask == ~open /\ open' \in BOOLEAN /\ scope' \in SUBSET Names /\ answered' = {} /\ handed' = FALSE
Answer(a) ==
  /\ open /\ a \in scope \ answered
  /\ a \in Late => scope \ Late \subseteq answered
  /\ answered' = answered \cup {a}
  /\ UNCHANGED <<open, scope, handed>>
Close == open /\ open' = FALSE /\ scope' = {} /\ answered' = {}
HandOver == Close /\ answered = scope /\ handed' = TRUE
GiveUp == Close /\ handed' = FALSE

Next == Ask \/ HandOver \/ GiveUp \/ \E a \in Names : Answer(a)
Spec == Init /\ [][Next]_vars
=============================================================================
