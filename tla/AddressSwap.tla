---------------------------- MODULE AddressSwap -----------------------------
(***************************************************************************)
(* What a rotation promises about a server's address, whatever provider    *)
(* calls, saves, failures and remedies it takes: the address moves only    *)
(* while the rotation is open, one hop at a time, and a verdict is given   *)
(* only on the address it speaks of.                                       *)
(***************************************************************************)
CONSTANT Tx

VARIABLES where, status

vars == <<where, status>>

TypeOK == /\ where \in [Tx -> {"old", "none", "new"}]
          /\ status \in [Tx -> {"open", "swapped", "restored"}]

Init == /\ where = [t \in Tx |-> "old"]
        /\ status = [t \in Tx |-> "open"]

\* Detach, attach, and the remedy's attach of the old address, which may
\* stop half-way; never from the old address to the new one in one hop.
Move(t, from, to) ==
  /\ status[t] = "open" /\ where[t] = from
  /\ where' = [where EXCEPT ![t] = to]
  /\ UNCHANGED status

Commit(t) == /\ status[t] = "open" /\ where[t] = "new"
             /\ status' = [status EXCEPT ![t] = "swapped"]
             /\ UNCHANGED where

Restore(t) == /\ status[t] = "open" /\ where[t] = "old"
              /\ status' = [status EXCEPT ![t] = "restored"]
              /\ UNCHANGED where

\* The operator rolls back what had ended.
Reopen(t) == /\ status[t] # "open"
             /\ status' = [status EXCEPT ![t] = "open"]
             /\ UNCHANGED where

Step(t) == \/ Move(t, "old", "none") \/ Move(t, "none", "new")
           \/ Move(t, "new", "none") \/ Move(t, "new", "old") \/ Move(t, "none", "old")
           \/ Commit(t) \/ Restore(t) \/ Reopen(t)

Next == \E t \in Tx : Step(t)

Spec == Init /\ [][Next]_vars

=============================================================================
