-------------------------- MODULE AddressHandover --------------------------
(***************************************************************************)
(* What a DataForest rotation promises about the addresses of a Seed: NEW  *)
(* comes beside OLD, and whichever of the two leaves does so only after    *)
(* that was announced on disk; to give OLD up is announced only while both *)
(* are there; the rotation is done only with NEW alone.                    *)
(***************************************************************************)
VARIABLES held, announced, done

vars == <<held, announced, done>>

Init == held = {"old"} /\ announced = {} /\ done = FALSE

AddNew == /\ held' = held \cup {"new"}
          /\ UNCHANGED <<announced, done>>

\* Giving NEW back may be announced again and again; giving OLD up needs both.
Announce(half) ==
  /\ held = {"old", "new"}
  /\ announced' = announced \cup {half}
  /\ UNCHANGED <<held, done>>

Drop(h, half) == /\ half \in announced
                 /\ held' = held \ {h}
                 /\ UNCHANGED <<announced, done>>

Finish == /\ held = {"new"} /\ "finalize" \in announced
          /\ done' = TRUE
          /\ UNCHANGED <<held, announced>>

\* The operator rolls back what had ended.
Reopen == done' = FALSE /\ UNCHANGED <<held, announced>>

Next == \/ AddNew
        \/ \E half \in {"finalize", "rollback"} : Announce(half)
        \/ Drop("old", "finalize") \/ Drop("new", "rollback")
        \/ Finish \/ Reopen

Spec == Init /\ [][Next]_vars

=============================================================================
