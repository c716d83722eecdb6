----------------------------- MODULE DnsCutover -----------------------------
(***************************************************************************)
(* What a rotation does with the A records of a server, in one word for    *)
(* all of them.  The promise is in the claim: the checkpoint says that the *)
(* cutover happened only when it did, after it said that it had begun, and *)
(* never where there is no record to move.  That the records never go back *)
(* is no promise: it is what the code's rollback, which is meant to take   *)
(* them back, comes to as long as it exchanges the addresses twice         *)
(* (CleanMeansBack of CloudflareDns).  A Move back joins the others when   *)
(* that is repaired.  All of it ends where somebody else writes a record.  *)
(***************************************************************************)
CONSTANT Tx

VARIABLES records, claim, foreign

vars == <<records, claim, foreign>>

TypeOK == /\ records \in [Tx -> {"none", "old", "mixed", "new"}]
          /\ claim \in [Tx -> {"none", "started", "ok"}]
          /\ foreign \in [Tx -> BOOLEAN]

Init == /\ records \in [Tx -> {"none", "old"}]
        /\ claim = [t \in Tx |-> "none"]
        /\ foreign = [t \in Tx |-> FALSE]

\* ip-change, the apply and, with the addresses exchanged twice, its
\* rollback: some more of the records have moved.
Move(t) ==
  /\ \/ records[t] = "old" /\ records' = [records EXCEPT ![t] = "mixed"]
     \/ records[t] \in {"old", "mixed"} /\ records' = [records EXCEPT ![t] = "new"]
  /\ UNCHANGED <<claim, foreign>>

\* The marker of an apply, or of one that is done again.
Start(t) == /\ records[t] # "none"
            /\ claim' = [claim EXCEPT ![t] = "started"]
            /\ UNCHANGED <<records, foreign>>

Claim(t) == /\ claim[t] = "started" /\ records[t] = "new"
            /\ claim' = [claim EXCEPT ![t] = "ok"]
            /\ UNCHANGED <<records, foreign>>

\* Somebody else has written a record.
Disturb(t) == /\ foreign' = [foreign EXCEPT ![t] = TRUE]
              /\ \A u \in Tx \ {t} : records'[u] = records[u] /\ claim'[u] = claim[u]
              /\ TypeOK'

Step(t) == \/ ~foreign[t] /\ (Move(t) \/ Start(t) \/ Claim(t))
           \/ Disturb(t)

Next == \E t \in Tx : Step(t)

Spec == Init /\ [][Next]_vars

=============================================================================
