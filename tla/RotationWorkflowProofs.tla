----------------------- MODULE RotationWorkflowProofs -----------------------
(***************************************************************************)
(* Proofs about RotationWorkflow, for any set of servers and any number of *)
(* transactions and faults.  IInv is inductive; that records follow their  *)
(* box and a rollback undoes the last move are read off from it.           *)
(***************************************************************************)
EXTENDS RotationWorkflow, SequenceTheorems, TLAPS

-----------------------------------------------------------------------------
(* Artifacts.                                                              *)

\* A sequence over a set is one over any larger set.
LEMMA SeqMonotone ==
  ASSUME NEW S, NEW T, S \subseteq T, NEW s \in Seq(S)
  PROVE  s \in Seq(T)
  OBVIOUS

\* Dropping one element keeps the rest.
LEMMA RemoveAtIsSeq ==
  ASSUME NEW S, NEW s \in Seq(S), NEW i \in 1..Len(s)
  PROVE  RemoveAt(s, i) \in Seq(S)
<1>1. SubSeq(s, 1, i - 1) \in Seq(S)
  <2>1. \A j \in 1 .. i - 1 : s[j] \in S
    BY ElementOfSeq, LenProperties
  <2> QED BY <2>1, LenProperties, SubSeqProperties
<1>2. SubSeq(s, i + 1, Len(s)) \in Seq(S)
  <2>1. \A j \in i + 1 .. Len(s) : s[j] \in S
    BY ElementOfSeq, LenProperties
  <2> QED BY <2>1, LenProperties, SubSeqProperties
<1> QED BY <1>1, <1>2, ConcatProperties DEF RemoveAt

\* Keeping one copy of an artifact adds none.
LEMMA KeptIsSeq ==
  ASSUME NEW S, store \in Seq(S), NEW cp
  PROVE  Kept(cp) \in Seq(S)
<1> DEFINE copies == {i \in DOMAIN store : store[i] = cp}
<1>1. CASE copies = {}
  BY <1>1 DEF Kept
<1>2. CASE copies # {}
  <2>1. (CHOOSE i \in copies : TRUE) \in 1..Len(store)
    BY <1>2, LenProperties
  <2> HIDE DEF copies
  <2>2. RemoveAt(store, CHOOSE i \in copies : TRUE) \in Seq(S)
    BY <2>1, RemoveAtIsSeq
  <2> QED BY <1>2, <2>2 DEF Kept, copies
<1> QED BY <1>1, <1>2

\* Checkpoints of planned transactions are checkpoints.
LEMMA PlannedAreCheckpoints ==
  ASSUME IInv
  PROVE  Planned \subseteq Checkpoint
<1>1. Len(plan) \in Nat /\ Len(plan) <= MaxTx
  BY LenProperties DEF IInv, TypeOK, CheckpointsPlanned
<1> QED BY <1>1, WorkflowAssumption DEF Planned, Checkpoint

\* What a checkpoint's transaction says about addresses is an address.
LEMMA AddressesOfPlanned ==
  ASSUME IInv, NEW cp \in Planned
  PROVE  /\ OldOf(cp) \in Addresses /\ NewOf(cp) \in Addresses
         /\ plan[cp.tx].only \in BOOLEAN
<1>1. cp.tx \in 1..Len(plan) BY DEF Planned
<1>2. plan[cp.tx] \in [box : Boxes, old : Addresses, only : BOOLEAN]
  BY <1>1, ElementOfSeq DEF IInv, TypeOK
<1>3. cp.tx \in 1..MaxTx
  BY PlannedAreCheckpoints DEF Checkpoint
<1> QED BY <1>2, <1>3 DEF OldOf, NewOf, Addresses

-----------------------------------------------------------------------------
(* IInv is inductive.                                                      *)

\* Initially there is no transaction, no artifact and no job.
LEMMA InitInv == Init => IInv
<1> SUFFICES ASSUME Init PROVE IInv OBVIOUS
<1>1. TypeOK
  BY WorkflowAssumption, EmptySeq DEF Init, TypeOK, Addresses, Jobs
<1>2. CheckpointsPlanned
  <2>1. store \in Seq(Planned) BY EmptySeq DEF Init
  <2>2. Len(plan) <= MaxTx BY WorkflowAssumption DEF Init
  <2> QED BY <2>1, <2>2 DEF Init, CheckpointsPlanned
<1>3. JobFitsAddress
  BY DEF Init, JobFitsAddress, Runs, Idle
<1> QED BY <1>1, <1>2, <1>3 DEF IInv

\* A running job has all its fields.
LEMMA JobIsRecord ==
  ASSUME IInv, NEW b \in Boxes, job[b] # Idle
  PROVE  /\ CpOf(b) \in Planned
         /\ job[b] \in [op : {"swap", "dns", "resume", "rollback"},
                        cp : Checkpoint,
                        step : Steps, honest : BOOLEAN]
BY DEF IInv, TypeOK, CheckpointsPlanned, Jobs

\* What runs is a job.
LEMMA RunsAJob ==
  ASSUME NEW b \in Boxes, NEW ops, Runs(b, ops), "idle" \notin ops
  PROVE  job[b] # Idle
BY DEF Runs, Idle

\* Writing two fields of a job leaves the other two.
LEMMA JobUpdated ==
  ASSUME IInv, NEW b \in Boxes, job[b] # Idle, NEW cp, NEW step
  PROVE  [job[b] EXCEPT !.cp = cp, !.step = step] =
         [op |-> job[b].op, cp |-> cp, step |-> step, honest |-> job[b].honest]
<1> DEFINE j == job[b]
           k == [j EXCEPT !.cp = cp, !.step = step]
<1>1. j \in [op : {"swap", "dns", "resume", "rollback"}, cp : Checkpoint,
             step : Steps, honest : BOOLEAN]
  BY JobIsRecord
<1> HIDE DEF j
<1>2. /\ DOMAIN k = {"op", "cp", "step", "honest"}
      /\ k["op"] = j.op /\ k["cp"] = cp
      /\ k["step"] = step /\ k["honest"] = j.honest
  BY <1>1
<1>3. k = [x \in {"op", "cp", "step", "honest"} |-> k[x]]
  BY <1>1, <1>2
<1> HIDE DEF k
<1>4. k = [op |-> j.op, cp |-> cp, step |-> step, honest |-> j.honest]
  BY <1>2, <1>3
<1> QED BY <1>4, Zenon DEF k, j

\* A job that goes on, on its own box: only the stage that calls rotate.py
\* next must agree with the address.
LEMMA GoOnInv ==
  ASSUME IInv, NEW b \in Boxes, job[b] # Idle,
         NEW cp \in Planned, NEW step \in Steps,
         GoOn(b, cp, step), UNCHANGED plan,
         NEW a \in Addresses \cup {NoAddr}, addr' = [addr EXCEPT ![b] = a],
         step = "rotate" => /\ Runs(b, {"dns", "resume"}) /\ a = addr[b]
                            /\ NewOf(cp) = NewOf(CpOf(b)),
         step \in {"restore_dns", "undo_dns"} => a = OldOf(cp),
         job[b].op = "swap" /\ cp.at = "connectivity_ok" => a = NewOf(cp)
  PROVE  /\ addr' \in [Boxes -> Addresses \cup {NoAddr}]
         /\ job' \in [Boxes -> Jobs]
         /\ \A c \in Boxes : job'[c] # Idle => job'[c].cp \in Planned
         /\ JobFitsAddress'
<1> DEFINE rec == [op |-> job[b].op, cp |-> cp, step |-> step,
                   honest |-> job[b].honest]
<1>1. job' = [job EXCEPT ![b] = rec]
  <2> DEFINE updated == [job[b] EXCEPT !.cp = cp, !.step = step]
  <2>1. updated = rec
    BY JobUpdated, Zenon
  <2>2. job' = [job EXCEPT ![b] = updated]
    BY DEF GoOn, IInv, TypeOK
  <2> HIDE DEF updated, rec
  <2> QED BY <2>1, <2>2
<1>2. rec \in Jobs
  BY JobIsRecord, PlannedAreCheckpoints DEF Jobs
<1>3. job' \in [Boxes -> Jobs] /\ addr' \in [Boxes -> Addresses \cup {NoAddr}]
  BY <1>1, <1>2 DEF IInv, TypeOK
<1>4. /\ job'[b] = rec /\ addr'[b] = a
      /\ \A c \in Boxes \ {b} : job'[c] = job[c] /\ addr'[c] = addr[c]
  BY <1>1 DEF IInv, TypeOK
<1>5. \A c \in Boxes : job'[c] # Idle => job'[c].cp \in Planned
  BY <1>4 DEF IInv, CheckpointsPlanned, CpOf
<1>6. JobFitsAddress'
  <2> SUFFICES ASSUME NEW c \in Boxes
               PROVE  /\ Runs(c, {"swap"})' => CpOf(c)'.at = "planned"
                      /\ (job[c].op = "swap" /\ job[c].step = "upload"
                            /\ CpOf(c).at = "connectivity_ok")'
                           => addr'[c] = NewOf(CpOf(c)')
                      /\ Runs(c, {"dns", "resume"})' /\ job'[c].honest
                           => addr'[c] = NewOf(CpOf(c)')
                      /\ Runs(c, {"rollback"})' /\ job'[c].honest
                           => addr'[c] = Now(CpOf(c))'
                      /\ job'[c] # Idle /\ job'[c].step \in {"restore_dns", "undo_dns"}
                           => addr'[c] = OldOf(CpOf(c))'
    BY DEF JobFitsAddress, NewOf, Idle
  <2>1. CASE c # b
    BY <1>4, <2>1 DEF IInv, JobFitsAddress, Runs, CpOf, Now, NewOf, OldOf
  <2>2. CASE c = b
    BY <1>4, <2>2 DEF IInv, JobFitsAddress, Runs, CpOf, NewOf, OldOf
  <2> QED BY <2>1, <2>2
<1> QED BY <1>3, <1>5, <1>6

\* What GoOnInv establishes, with the types of the rest, is the invariant.
LEMMA PartsInv ==
  ASSUME IInv, UNCHANGED <<plan, store>>,
         names' \in [Boxes -> Addresses], faults' \in 0..MaxFaults,
         addr' \in [Boxes -> Addresses \cup {NoAddr}],
         job' \in [Boxes -> Jobs],
         \A c \in Boxes : job'[c] # Idle => job'[c].cp \in Planned,
         JobFitsAddress'
  PROVE  IInv'
<1>1. TypeOK' BY DEF IInv, TypeOK
<1>2. Planned' = Planned BY DEF Planned
<1>3. CheckpointsPlanned'
  BY <1>2 DEF IInv, CheckpointsPlanned, CpOf
<1> QED BY <1>1, <1>3 DEF IInv

\* A fault counts; without one the count stays.
LEMMA FaultsInv == ASSUME IInv, Fault \/ NoFault PROVE faults' \in 0..MaxFaults
BY WorkflowAssumption DEF IInv, TypeOK, Fault, NoFault

\* The job swap.
LEMMA SwapInv ==
  ASSUME IInv, NEW b \in Boxes,
         SwapRefused(b) \/ SwapMoves(b) \/ SwapBreaks(b)
  PROVE  IInv'
<1> USE DEF Steps
<1> DEFINE cp == CpOf(b)
<1>1. /\ Runs(b, {"swap"}) /\ job[b] # Idle /\ job[b].op = "swap"
      /\ cp.at = "planned"
  <2>1. Runs(b, {"swap"})
    BY DEF SwapRefused, SwapMoves, SwapBreaks
  <2>2. cp.at = "planned"
    BY <2>1 DEF IInv, JobFitsAddress
  <2> QED BY <2>1, <2>2, RunsAJob DEF Runs
<1>2. /\ cp \in Planned /\ OldOf(cp) \in Addresses /\ NewOf(cp) \in Addresses
  BY <1>1, JobIsRecord, AddressesOfPlanned
<1>3. /\ addr \in [Boxes -> Addresses \cup {NoAddr}]
      /\ names \in [Boxes -> Addresses]
      /\ addr = [addr EXCEPT ![b] = addr[b]] /\ addr[b] \in Addresses \cup {NoAddr}
  BY DEF IInv, TypeOK
<1>4. /\ faults' \in 0..MaxFaults /\ UNCHANGED <<plan, store>>
      /\ names' \in [Boxes -> Addresses]
  BY <1>3, FaultsInv DEF SwapRefused, SwapMoves, SwapBreaks
<1> HIDE DEF cp
<1>5. CASE SwapRefused(b)
  <2>1. GoOn(b, cp, "upload") /\ UNCHANGED addr
    BY <1>5 DEF SwapRefused, StageFails, cp
  <2> QED BY <1>1, <1>2, <1>3, <1>4, <2>1, GoOnInv, PartsInv
<1>6. CASE SwapMoves(b)
  <2> DEFINE moved == [cp EXCEPT !.at = "connectivity_ok", !.new = TRUE]
  <2>1. /\ GoOn(b, moved, "upload")
        /\ addr' = [addr EXCEPT ![b] = NewOf(cp)]
    BY <1>6 DEF SwapMoves, cp
  <2>2. moved \in Planned /\ NewOf(moved) = NewOf(cp)
    BY <1>2 DEF Planned, NewOf, Late
  <2> HIDE DEF moved
  <2> QED BY <1>1, <1>2, <1>3, <1>4, <2>1, <2>2, GoOnInv, PartsInv
<1>7. CASE SwapBreaks(b)
  <2>1. \A known, back \in BOOLEAN :
          /\ [cp EXCEPT !.at = "midswap", !.new = known] \in Planned
          /\ [cp EXCEPT !.at = "midswap", !.new = known].at # "connectivity_ok"
          /\ [cp EXCEPT !.at = "rolled_back", !.new = known, !.back = back]
               \in Planned
          /\ [cp EXCEPT !.at = "rolled_back", !.new = known, !.back = back].at
               # "connectivity_ok"
    BY <1>2 DEF Planned, Early, Undo
  <2>2. \E broken \in Planned, a \in Addresses \cup {NoAddr} :
          /\ broken.at # "connectivity_ok"
          /\ GoOn(b, broken, "upload")
          /\ addr' = [addr EXCEPT ![b] = a]
    <3>1. CASE /\ addr' \in {[addr EXCEPT ![b] = a] :
                              a \in {addr[b], NoAddr, NewOf(cp)}}
               /\ GoOn(b, [cp EXCEPT !.at = "midswap", !.new = TRUE], "upload")
      <4> DEFINE broken == [cp EXCEPT !.at = "midswap", !.new = TRUE]
      <4>1. broken \in Planned /\ broken.at # "connectivity_ok"
        BY <2>1
      <4> HIDE DEF broken
      <4> QED BY <1>2, <1>3, <3>1, <4>1 DEF broken
    <3>2. CASE /\ UNCHANGED addr
               /\ \E known \in BOOLEAN :
                    GoOn(b, [cp EXCEPT !.at = "rolled_back", !.new = known,
                                       !.back = TRUE], "upload")
      BY <1>2, <1>3, <2>1, <3>2
    <3> QED BY <1>7, <3>1, <3>2 DEF SwapBreaks, StageFails, cp
  <2>3. PICK broken \in Planned, a \in Addresses \cup {NoAddr} :
          /\ broken.at # "connectivity_ok"
          /\ GoOn(b, broken, "upload")
          /\ addr' = [addr EXCEPT ![b] = a]
    BY <2>2
  <2> QED BY <1>1, <1>2, <1>3, <1>4, <2>3, GoOnInv, PartsInv
<1> QED BY <1>5, <1>6, <1>7

\* The records stay, or hold one of the transaction's two addresses.
LEMMA PatchedInv ==
  ASSUME IInv, NEW b \in Boxes, CpOf(b) \in Planned,
         UNCHANGED names \/ \E a \in Patched(b) : SetNames(b, a)
  PROVE  names' \in [Boxes -> Addresses]
<1>1. names \in [Boxes -> Addresses] BY DEF IInv, TypeOK
<1>2. Patched(b) \subseteq Addresses
  BY <1>1, AddressesOfPlanned DEF Patched
<1> QED BY <1>1, <1>2 DEF SetNames

\* The stages of `rotate.py resume`.
LEMMA ResumeInv ==
  ASSUME IInv, NEW b \in Boxes,
         Inventory(b) \/ Replace(b) \/ Verify(b)
  PROVE  IInv'
<1> USE DEF Steps
<1> DEFINE cp == CpOf(b)
<1>1. Runs(b, {"dns", "resume"})
  BY DEF Inventory, Replace, Verify, Resumes
<1>2. job[b] # Idle /\ job[b].op # "swap" /\ cp \in Planned
  BY <1>1, RunsAJob, JobIsRecord DEF Runs
<1>3. addr[b] \in Addresses \cup {NoAddr} BY DEF IInv, TypeOK
<1>4. addr' = [addr EXCEPT ![b] = addr[b]]
  BY DEF IInv, TypeOK, Inventory, Replace, Verify
<1>5. faults' \in 0..MaxFaults /\ UNCHANGED <<plan, store>>
  BY FaultsInv DEF Inventory, Replace, Verify
<1>6. UNCHANGED names \/ \E a \in Patched(b) : SetNames(b, a)
  <2>1. NewOf(cp) \in Patched(b) \/ names[b] # OldOf(cp)
    BY DEF Patched
  <2>2. names = [names EXCEPT ![b] = names[b]]
    BY DEF IInv, TypeOK
  <2>3. CASE Replace(b)
    <3>1. \/ UNCHANGED names
          \/ \E a \in Patched(b) : SetNames(b, a)
          \/ /\ names[b] \in {OldOf(cp), NewOf(cp)}
             /\ SetNames(b, NewOf(cp))
      BY <2>3, <1>2 DEF Replace, OldOf, NewOf, Planned
    <3> QED BY <3>1, <2>1, <2>2 DEF SetNames
  <2>4. CASE Inventory(b) BY <2>4 DEF Inventory
  <2>5. CASE Verify(b) BY <2>5 DEF Verify
  <2> QED BY <2>3, <2>4, <2>5
<1>7. names' \in [Boxes -> Addresses]
  BY <1>2, <1>6, PatchedInv
<1>8. \A s \in Early \cup Late \cup Undo, d \in BOOLEAN :
        /\ [cp EXCEPT !.at = s] \in Planned
        /\ [cp EXCEPT !.at = s, !.dns = d] \in Planned
        /\ [cp EXCEPT !.dns = d] \in Planned
        /\ NewOf([cp EXCEPT !.at = s]) = NewOf(cp)
        /\ NewOf([cp EXCEPT !.at = s, !.dns = d]) = NewOf(cp)
        /\ NewOf([cp EXCEPT !.dns = d]) = NewOf(cp)
        /\ [[cp EXCEPT !.dns = d] EXCEPT !.at = s] \in Planned
        /\ NewOf([[cp EXCEPT !.dns = d] EXCEPT !.at = s]) = NewOf(cp)
  BY <1>2 DEF Planned, NewOf
<1>9. \E next \in Planned, step \in {"rotate", "upload"} :
        GoOn(b, next, step) /\ NewOf(next) = NewOf(cp)
  <2>1. CASE Inventory(b)
    <3>1. \/ GoOn(b, [cp EXCEPT !.at = "ansible_done", !.dns = TRUE], "rotate")
          \/ GoOn(b, [cp EXCEPT !.at = "ansible_done"], "rotate")
          \/ GoOn(b, cp, "upload")
      BY <2>1 DEF Inventory, StageFails
    <3>2. "ansible_done" \in Early \cup Late \cup Undo BY DEF Late
    <3> HIDE DEF cp
    <3> QED BY <1>2, <1>8, <3>1, <3>2
  <2>2. CASE Replace(b)
    <3> DEFINE tried == [cp EXCEPT !.dns = TRUE]
    <3>1. \/ GoOn(b, [tried EXCEPT !.at = "cloudflare_replaced"], "rotate")
          \/ GoOn(b, tried, "upload")
      BY <2>2 DEF Replace, StageFails
    <3>2. "cloudflare_replaced" \in Early \cup Late \cup Undo BY DEF Late
    <3> HIDE DEF cp
    <3> QED BY <1>2, <1>8, <3>1, <3>2
  <2>3. CASE Verify(b)
    <3>1. GoOn(b, [cp EXCEPT !.at = "done"], "upload") \/ GoOn(b, cp, "upload")
      BY <2>3 DEF Verify, StageFails
    <3>2. "done" \in Early \cup Late \cup Undo BY DEF Late
    <3> HIDE DEF cp
    <3> QED BY <1>2, <1>8, <3>1, <3>2
  <2> QED BY <2>1, <2>2, <2>3
<1>10. PICK next \in Planned, step \in {"rotate", "upload"} :
         GoOn(b, next, step) /\ NewOf(next) = NewOf(cp)
  BY <1>9
<1>11. /\ addr' \in [Boxes -> Addresses \cup {NoAddr}]
       /\ job' \in [Boxes -> Jobs]
       /\ \A c \in Boxes : job'[c] # Idle => job'[c].cp \in Planned
       /\ JobFitsAddress'
  BY <1>1, <1>2, <1>3, <1>4, <1>5, <1>10, GoOnInv
<1> QED BY <1>5, <1>7, <1>11, PartsInv

\* The remedy of the replace step.
LEMMA RemedyInv ==
  ASSUME IInv, NEW b \in Boxes,
         \/ ReplaceUnreadable(b) \/ RestoreAddress(b)
         \/ RestoreBreaks(b) \/ RestoreDns(b)
  PROVE  IInv'
<1> DEFINE cp == CpOf(b)
<1>1. job[b].op \in {"dns", "resume"}
  BY DEF ReplaceUnreadable, RestoreAddress, RestoreBreaks, RestoreDns,
         Resumes, Runs, Restores
<1>2. job[b] # Idle /\ job[b].op # "swap" /\ cp \in Planned
  BY <1>1, JobIsRecord DEF Idle
<1>3. OldOf(cp) \in Addresses BY <1>2, AddressesOfPlanned
<1>4. /\ addr = [addr EXCEPT ![b] = addr[b]] /\ addr[b] \in Addresses \cup {NoAddr}
      /\ names' \in [Boxes -> Addresses]
      /\ faults' \in 0..MaxFaults /\ UNCHANGED <<plan, store>>
  BY <1>2, PatchedInv, FaultsInv DEF IInv, TypeOK, ReplaceUnreadable,
     RestoreAddress, RestoreBreaks, RestoreDns
<1>5. \A s \in Undo, k \in BOOLEAN :
        /\ [cp EXCEPT !.at = s, !.dns = k] \in Planned
        /\ [cp EXCEPT !.at = s, !.back = k] \in Planned
  BY <1>2 DEF Planned
<1>6. \E next \in Planned, step \in {"restore", "restore_dns", "upload"},
         a \in Addresses \cup {NoAddr} :
        /\ GoOn(b, next, step) /\ addr' = [addr EXCEPT ![b] = a]
        /\ step = "restore_dns" => a = OldOf(next)
  <2>1. CASE ReplaceUnreadable(b)
    <3>1. /\ GoOn(b, [cp EXCEPT !.at = "needs_rollback", !.dns = TRUE], "restore")
          /\ UNCHANGED addr
      BY <2>1 DEF ReplaceUnreadable
    <3>2. "needs_rollback" \in Undo BY DEF Undo
    <3> HIDE DEF cp
    <3> QED BY <1>4, <1>5, <3>1, <3>2
  <2>2. CASE RestoreAddress(b)
    BY <1>2, <1>3, <2>2 DEF RestoreAddress
  <2>3. CASE RestoreBreaks(b)
    BY <1>2, <1>3, <1>4, <2>3 DEF RestoreBreaks, BrokenOff, StageFails
  <2>4. CASE RestoreDns(b)
    <3>1. /\ \/ \E verdict \in {"rolled_back", "rollback_incomplete"} :
                GoOn(b, [cp EXCEPT !.at = verdict, !.back = TRUE], "upload")
             \/ GoOn(b, cp, "upload")
          /\ UNCHANGED addr
      BY <2>4 DEF RestoreDns, StageFails
    <3>2. {"rolled_back", "rollback_incomplete"} \subseteq Undo BY DEF Undo
    <3> HIDE DEF cp
    <3> QED BY <1>2, <1>4, <1>5, <3>1, <3>2
  <2> QED BY <2>1, <2>2, <2>3, <2>4
<1>7. PICK next \in Planned, step \in {"restore", "restore_dns", "upload"},
           a \in Addresses \cup {NoAddr} :
        /\ GoOn(b, next, step) /\ addr' = [addr EXCEPT ![b] = a]
        /\ step = "restore_dns" => a = OldOf(next)
  BY <1>6
<1>8. /\ addr' \in [Boxes -> Addresses \cup {NoAddr}]
      /\ job' \in [Boxes -> Jobs]
      /\ \A c \in Boxes : job'[c] # Idle => job'[c].cp \in Planned
      /\ JobFitsAddress'
  <2>1. step \in Steps /\ step \notin {"rotate", "undo_dns"} BY DEF Steps
  <2> HIDE DEF cp
  <2> QED BY <1>2, <1>4, <1>7, <2>1, GoOnInv
<1> QED BY <1>4, <1>8, PartsInv

\* The job rollback.
LEMMA UndoInv ==
  ASSUME IInv, NEW b \in Boxes, UndoSwap(b) \/ UndoDns(b)
  PROVE  IInv'
<1> DEFINE cp == CpOf(b)
<1>1. job[b] # Idle /\ job[b].op = "rollback" /\ cp \in Planned
  <2>1. job[b].op = "rollback" BY DEF UndoSwap, UndoDns, Runs
  <2> QED BY <2>1, JobIsRecord DEF Idle
<1>2. OldOf(cp) \in Addresses BY <1>1, AddressesOfPlanned
<1>3. /\ addr = [addr EXCEPT ![b] = addr[b]] /\ addr[b] \in Addresses \cup {NoAddr}
      /\ faults' \in 0..MaxFaults /\ UNCHANGED <<plan, store>>
  BY FaultsInv DEF IInv, TypeOK, UndoSwap, UndoDns
<1>4. names' \in [Boxes -> Addresses]
  BY <1>1, PatchedInv DEF UndoSwap, UndoDns
<1>5. \A s \in {"needs_rollback", "rolled_back"}, k, m \in BOOLEAN :
        /\ [cp EXCEPT !.at = s] \in Planned
        /\ [cp EXCEPT !.at = s, !.back = k] \in Planned
        /\ [[cp EXCEPT !.at = s, !.back = k] EXCEPT !.back = m] \in Planned
        /\ OldOf([cp EXCEPT !.at = s, !.back = k]) = OldOf(cp)
  BY <1>1 DEF Planned, Undo, OldOf
<1>6. \E next \in Planned, step \in {"undo_dns", "upload"},
         a \in Addresses \cup {NoAddr} :
        /\ GoOn(b, next, step) /\ addr' = [addr EXCEPT ![b] = a]
        /\ step = "undo_dns" => a = OldOf(next)
  <2>1. CASE UndoDns(b)
    <3>1. /\ UNCHANGED addr
          /\ \/ GoOn(b, [cp EXCEPT !.at = "rolled_back"], "upload")
             \/ GoOn(b, cp, "upload")
      BY <2>1 DEF UndoDns, StageFails
    <3> HIDE DEF cp
    <3> QED BY <1>1, <1>3, <1>5, <3>1
  <2>2. CASE UndoSwap(b)
    <3> DEFINE undone == [cp EXCEPT !.at = "needs_rollback", !.back = TRUE]
    <3>1. \/ /\ addr' = [addr EXCEPT ![b] = OldOf(undone)]
             /\ \/ GoOn(b, undone, "undo_dns") \/ GoOn(b, undone, "upload")
          \/ /\ \E a \in {addr[b], OldOf(cp), NoAddr} :
                  addr' = [addr EXCEPT ![b] = a]
             /\ GoOn(b, [undone EXCEPT !.back = FALSE], "upload")
      BY <2>2 DEF UndoSwap, BrokenOff, StageFails
    <3>2. /\ undone \in Planned /\ [undone EXCEPT !.back = FALSE] \in Planned
          /\ OldOf(undone) = OldOf(cp)
      BY <1>5
    <3> HIDE DEF cp, undone
    <3> QED BY <1>1, <1>2, <1>3, <3>1, <3>2
  <2> QED BY <2>1, <2>2
<1>7. PICK next \in Planned, step \in {"undo_dns", "upload"},
           a \in Addresses \cup {NoAddr} :
        /\ GoOn(b, next, step) /\ addr' = [addr EXCEPT ![b] = a]
        /\ step = "undo_dns" => a = OldOf(next)
  BY <1>6
<1>8. /\ addr' \in [Boxes -> Addresses \cup {NoAddr}]
      /\ job' \in [Boxes -> Jobs]
      /\ \A c \in Boxes : job'[c] # Idle => job'[c].cp \in Planned
      /\ JobFitsAddress'
  <2>1. /\ step \notin {"rotate", "restore_dns"} /\ job[b].op # "swap"
        /\ step \in Steps /\ UNCHANGED plan
    BY <1>1, <1>3 DEF Steps
  <2> HIDE DEF cp
  <2> QED BY <1>1, <1>7, <2>1, GoOnInv
<1> QED BY <1>3, <1>4, <1>8, PartsInv

\* A job that begins on an idle box, whatever it plans.
LEMMA BeginInv ==
  ASSUME IInv, NEW b \in Boxes, job[b] = Idle,
         NEW op \in {"swap", "resume", "rollback"}, NEW typed \in Addresses,
         NEW cp, cp \in Planned', Begin(b, op, cp, typed), UNCHANGED addr,
         Planned \subseteq Planned', Planned' \subseteq Checkpoint,
         \A c \in Planned : plan'[c.tx] = plan[c.tx],
         op = "swap" => cp.at = "planned",
         op = "resume" => typed = NewOf(cp),
         op = "rollback" => typed = Now(cp)'
  PROVE  /\ job' \in [Boxes -> Jobs]
         /\ \A c \in Boxes : job'[c] # Idle => job'[c].cp \in Planned'
         /\ JobFitsAddress'
<1> DEFINE rec == [op |-> op, cp |-> cp, step |-> "rotate",
                   honest |-> typed = addr[b]]
<1>1. job' = [job EXCEPT ![b] = rec] BY DEF Begin
<1>2. rec \in Jobs BY DEF Jobs, Steps
<1>3. job' \in [Boxes -> Jobs]
  BY <1>1, <1>2 DEF IInv, TypeOK
<1>4. /\ job'[b] = rec
      /\ \A c \in Boxes \ {b} : job'[c] = job[c]
  BY <1>1 DEF IInv, TypeOK
<1>5. \A c \in Boxes : job'[c] # Idle => job'[c].cp \in Planned'
  BY <1>4 DEF IInv, CheckpointsPlanned, CpOf
<1>6. JobFitsAddress'
  <2> SUFFICES ASSUME NEW c \in Boxes
               PROVE  /\ Runs(c, {"swap"})' => CpOf(c)'.at = "planned"
                      /\ (job[c].op = "swap" /\ job[c].step = "upload"
                            /\ CpOf(c).at = "connectivity_ok")'
                           => addr'[c] = NewOf(CpOf(c)')
                      /\ Runs(c, {"dns", "resume"})' /\ job'[c].honest
                           => addr'[c] = NewOf(CpOf(c)')
                      /\ Runs(c, {"rollback"})' /\ job'[c].honest
                           => addr'[c] = Now(CpOf(c))'
                      /\ job'[c] # Idle /\ job'[c].step \in {"restore_dns", "undo_dns"}
                           => addr'[c] = OldOf(CpOf(c))'
    BY DEF JobFitsAddress, NewOf, Idle
  <2>1. CASE c # b
    <3>1. CASE job[c] = Idle
      BY <1>4, <2>1, <3>1 DEF Idle, Runs
    <3>2. CASE job[c] # Idle
      <4>1. /\ job'[c] = job[c] /\ addr'[c] = addr[c]
            /\ plan'[CpOf(c).tx] = plan[CpOf(c).tx]
        BY <1>4, <2>1, <3>2, JobIsRecord
      <4>2. Now(CpOf(c))' = Now(CpOf(c))
        BY <4>1 DEF Now, OldOf, NewOf, CpOf
      <4> QED BY <4>1, <4>2 DEF IInv, JobFitsAddress, Runs, CpOf, NewOf, OldOf
    <3> QED BY <3>1, <3>2
  <2>2. CASE c = b
    <3>1. /\ job'[c].op = op /\ CpOf(c)' = cp /\ addr'[c] = addr[b]
          /\ job'[c].step = "rotate"
          /\ job'[c].honest => typed = addr[b]
      <4>1. /\ rec.op = op /\ rec.cp = cp /\ rec.step = "rotate"
            /\ rec.honest => typed = addr[b]
        OBVIOUS
      <4>2. job'[c] = rec BY <1>4, <2>2
      <4> HIDE DEF rec
      <4> QED BY <2>2, <4>1, <4>2 DEF CpOf
    <3> HIDE DEF rec
    <3>2. CASE op = "swap"
      BY <3>1, <3>2 DEF Runs
    <3>3. CASE op = "resume"
      BY <3>1, <3>3 DEF Runs, NewOf
    <3>4. CASE op = "rollback"
      <4>1. Now(CpOf(c))' = Now(cp)' BY <3>1 DEF Now, OldOf, NewOf
      <4> QED BY <3>1, <3>4, <4>1 DEF Runs
    <3> QED BY <3>2, <3>3, <3>4
  <2> QED BY <2>1, <2>2
<1> QED BY <1>3, <1>5, <1>6

\* The commands an operator dispatches.
LEMMA StartSwapInv ==
  ASSUME IInv, NEW b \in Boxes, NEW typed \in Addresses, NEW only \in BOOLEAN,
         StartSwap(b, only, typed)
  PROVE  IInv'
<1> DEFINE entry == [box |-> b, old |-> addr[b], only |-> only]
           Entries == [box : Boxes, old : Addresses, only : BOOLEAN]
           cp == [tx |-> Len(plan'), at |-> "planned", new |-> FALSE,
                  dns |-> FALSE, back |-> FALSE]
<1>1. /\ plan \in Seq(Entries) /\ entry \in Entries /\ Len(plan) \in Nat
      /\ plan' = Append(plan, entry) /\ Len(plan) < MaxTx /\ MaxTx \in Nat
  BY WorkflowAssumption, LenProperties DEF StartSwap, IInv, TypeOK
<1>2. /\ plan' \in Seq(Entries) /\ Len(plan') = Len(plan) + 1
      /\ \A i \in 1..Len(plan) : plan'[i] = plan[i]
  <2> HIDE DEF entry, Entries
  <2> QED BY <1>1, AppendProperties
<1>3. /\ Planned \subseteq Planned' /\ Planned' \subseteq Checkpoint
      /\ \A c \in Planned : plan'[c.tx] = plan[c.tx]
  BY <1>1, <1>2 DEF Planned, Checkpoint
<1>4. cp \in Planned' /\ cp.at = "planned"
  BY <1>1, <1>2 DEF Planned, Early
<1>5. job[b] = Idle /\ Begin(b, "swap", cp, typed)
      /\ UNCHANGED <<addr, names, store, faults>>
  BY DEF StartSwap, NoFault
<1>6. /\ job' \in [Boxes -> Jobs]
      /\ \A c \in Boxes : job'[c] # Idle => job'[c].cp \in Planned'
      /\ JobFitsAddress'
  <2> HIDE DEF cp
  <2> QED BY <1>3, <1>4, <1>5, BeginInv
<1>7. store' \in Seq(Planned')
  BY <1>3, <1>5, SeqMonotone DEF IInv, CheckpointsPlanned
<1>8. TypeOK' BY <1>2, <1>5, <1>6 DEF IInv, TypeOK
<1>9. CheckpointsPlanned'
  BY <1>1, <1>2, <1>6, <1>7 DEF CheckpointsPlanned, CpOf
<1> QED BY <1>6, <1>8, <1>9 DEF IInv

\* A checkpoint that is found, or picked, is one of the artifacts.
LEMMA FoundIsPlanned ==
  ASSUME IInv, NEW b \in Boxes, NEW typed, NEW unread,
         NEW cp \in Found(b, typed, unread)
  PROVE  cp \in Planned /\ NewOf(cp) = typed
<1>1. PICK i \in DOMAIN store : cp = store[i] /\ Resumable(store[i], b, typed)
  BY DEF Found
<1>2. store[i] \in Planned
  BY LenProperties, ElementOfSeq DEF IInv, CheckpointsPlanned
<1> QED BY <1>1, <1>2 DEF Resumable

LEMMA StartAgainInv ==
  ASSUME IInv, NEW b \in Boxes, NEW typed \in Addresses,
         StartResume(b, typed) \/ StartRollback(b, typed)
  PROVE  IInv'
<1>1. /\ job[b] = Idle /\ UNCHANGED <<addr, names, plan, store>>
      /\ faults' \in 0..MaxFaults
  BY FaultsInv DEF StartResume, StartRollback
<1>2. /\ Planned' = Planned /\ Planned \subseteq Checkpoint
      /\ \A c \in Planned : plan'[c.tx] = plan[c.tx]
  BY <1>1, PlannedAreCheckpoints DEF Planned
<1>3. /\ job' \in [Boxes -> Jobs]
      /\ \A c \in Boxes : job'[c] # Idle => job'[c].cp \in Planned'
      /\ JobFitsAddress'
  <2>1. CASE StartResume(b, typed)
    <3>1. PICK cp : /\ cp \in Planned /\ NewOf(cp) = typed
                    /\ Begin(b, "resume", cp, typed)
      BY <2>1, FoundIsPlanned DEF StartResume
    <3> QED BY <1>1, <1>2, <3>1, BeginInv
  <2>2. CASE StartRollback(b, typed)
    <3>1. store[Len(store)] \in Planned
      BY <2>2, LenProperties, ElementOfSeq, EmptySeq
      DEF StartRollback, IInv, CheckpointsPlanned
    <3>2. PICK cp \in Planned : /\ Begin(b, "rollback", cp, typed)
                               /\ Now(cp) = typed
      BY <2>2, <3>1 DEF StartRollback
    <3>3. Now(cp)' = typed BY <1>1, <3>2 DEF Now, OldOf, NewOf
    <3> QED BY <1>1, <1>2, <3>2, <3>3, BeginInv
  <2> QED BY <2>1, <2>2
<1>4. addr' \in [Boxes -> Addresses \cup {NoAddr}] /\ names' \in [Boxes -> Addresses]
  BY <1>1 DEF IInv, TypeOK
<1> QED BY <1>1, <1>2, <1>3, <1>4, PartsInv

\* A step that only changes jobs and artifacts: each job stays, ends, or is
\* the job dns that follows a swap.
LEMMA ArtifactsInv ==
  ASSUME IInv, UNCHANGED <<addr, names, plan>>,
         store' \in Seq(Planned), faults' \in 0..MaxFaults,
         job' \in [Boxes -> Jobs],
         \A c \in Boxes :
           \/ job'[c] = job[c] \/ job'[c] = Idle
           \/ /\ job[c].op = "swap" /\ job[c].step = "upload"
              /\ CpOf(c).at = "connectivity_ok"
              /\ job'[c].op = "dns" /\ job'[c].cp = job[c].cp
              /\ job'[c].step = "rotate"
  PROVE  IInv'
<1>1. Planned' = Planned /\ Planned \subseteq Checkpoint
  BY PlannedAreCheckpoints DEF Planned
<1>2. TypeOK'
  <2>1. store' \in Seq(Checkpoint) BY <1>1, SeqMonotone
  <2> QED BY <2>1 DEF IInv, TypeOK
<1>3. CheckpointsPlanned'
  <2> SUFFICES ASSUME NEW c \in Boxes, job'[c] # Idle
               PROVE  job'[c].cp \in Planned
    BY <1>1 DEF IInv, CheckpointsPlanned, CpOf
  <2> QED BY DEF IInv, CheckpointsPlanned, CpOf, Idle
<1>4. JobFitsAddress'
  <2>1. \A c \in Boxes : CpOf(c)' = CpOf(c) => Now(CpOf(c))' = Now(CpOf(c))
    BY DEF Now, OldOf, NewOf
  <2> SUFFICES ASSUME NEW c \in Boxes
               PROVE  /\ Runs(c, {"swap"})' => CpOf(c)'.at = "planned"
                      /\ (job[c].op = "swap" /\ job[c].step = "upload"
                            /\ CpOf(c).at = "connectivity_ok")'
                           => addr'[c] = NewOf(CpOf(c)')
                      /\ Runs(c, {"dns", "resume"})' /\ job'[c].honest
                           => addr'[c] = NewOf(CpOf(c)')
                      /\ Runs(c, {"rollback"})' /\ job'[c].honest
                           => addr'[c] = Now(CpOf(c))'
                      /\ job'[c] # Idle /\ job'[c].step \in {"restore_dns", "undo_dns"}
                           => addr'[c] = OldOf(CpOf(c))'
    BY DEF JobFitsAddress, NewOf, Idle
  <2>2. CASE job'[c] = job[c]
    BY <2>1, <2>2 DEF IInv, JobFitsAddress, Runs, CpOf, NewOf, OldOf
  <2>3. CASE job'[c] = Idle
    BY <2>3 DEF Idle, Runs
  <2>4. CASE /\ job[c].op = "swap" /\ job[c].step = "upload"
             /\ CpOf(c).at = "connectivity_ok"
             /\ job'[c].op = "dns" /\ job'[c].cp = job[c].cp
             /\ job'[c].step = "rotate"
    BY <2>4 DEF IInv, JobFitsAddress, Runs, CpOf, NewOf
  <2> QED BY <2>2, <2>3, <2>4
<1> QED BY <1>2, <1>3, <1>4 DEF IInv

\* The upload, a runner that is lost and an artifact that expires.
LEMMA EndsInv ==
  ASSUME IInv, Expire \/ \E b \in Boxes : Upload(b) \/ JobLost(b)
  PROVE  IInv'
<1>1. store \in Seq(Planned) /\ job \in [Boxes -> Jobs] /\ Idle \in Jobs
  BY DEF IInv, TypeOK, CheckpointsPlanned, Jobs
<1>2. CASE Expire
  <2>1. store' \in Seq(Planned) BY <1>1, <1>2, HeadTailProperties DEF Expire
  <2> QED BY <1>1, <1>2, <2>1, FaultsInv, ArtifactsInv DEF Expire
<1>3. ASSUME NEW b \in Boxes, JobLost(b) PROVE IInv'
  BY <1>1, <1>3, FaultsInv, ArtifactsInv DEF JobLost
<1>4. ASSUME NEW b \in Boxes, Upload(b) PROVE IInv'
  <2> DEFINE onward == [job[b] EXCEPT !.op = "dns", !.step = "rotate"]
             follows == /\ job[b].op = "swap" /\ CpOf(b).at = "connectivity_ok"
                        /\ ~plan[CpOf(b).tx].only
  <2>1. job[b] # Idle /\ job[b].step = "upload" BY <1>4 DEF Upload
  <2>2. /\ onward \in Jobs /\ onward.op = "dns" /\ onward.cp = job[b].cp
        /\ onward.step = "rotate"
    BY <2>1, JobIsRecord DEF Jobs, Steps
  <2>3. job' = [job EXCEPT ![b] = IF follows THEN onward ELSE Idle]
    BY <1>4 DEF Upload
  <2> HIDE DEF onward, follows
  <2>4. /\ job' \in [Boxes -> Jobs]
        /\ \A c \in Boxes \ {b} : job'[c] = job[c]
        /\ job'[b] = Idle \/ (follows /\ job'[b] = onward)
    BY <1>1, <2>2, <2>3
  <2>5. \A c \in Boxes :
           \/ job'[c] = job[c] \/ job'[c] = Idle
           \/ /\ job[c].op = "swap" /\ job[c].step = "upload"
              /\ CpOf(c).at = "connectivity_ok"
              /\ job'[c].op = "dns" /\ job'[c].cp = job[c].cp
              /\ job'[c].step = "rotate"
    BY <2>1, <2>2, <2>4 DEF follows
  <2>6. store' \in Seq(Planned)
    <3>1. Kept(CpOf(b)) \in Seq(Planned) BY <1>1, KeptIsSeq
    <3>2. CpOf(b) \in Planned BY <2>1, JobIsRecord
    <3> QED BY <1>4, <3>1, <3>2, AppendProperties DEF Upload
  <2>7. UNCHANGED <<addr, names, plan>> /\ faults' \in 0..MaxFaults
    BY <1>4, FaultsInv DEF Upload
  <2> QED BY <2>4, <2>5, <2>6, <2>7, ArtifactsInv
<1> QED BY <1>2, <1>3, <1>4

\* Every step keeps the invariant.
LEMMA NextInv == IInv /\ [Next]_vars => IInv'
<1> SUFFICES ASSUME IInv, [Next]_vars PROVE IInv' OBVIOUS
<1>1. ASSUME NEW b \in Boxes, Dispatch(b) PROVE IInv'
  BY <1>1, StartSwapInv, StartAgainInv DEF Dispatch
<1>2. ASSUME NEW b \in Boxes, JobStep(b) PROVE IInv'
  BY <1>2, SwapInv, ResumeInv, RemedyInv, UndoInv, EndsInv DEF JobStep
<1>3. CASE Expire \/ \E b \in Boxes : JobLost(b) BY <1>3, EndsInv
<1>4. CASE UNCHANGED vars
  BY <1>4 DEF vars, IInv, TypeOK, CheckpointsPlanned, Planned, JobFitsAddress,
              Runs, CpOf, Now, OldOf, NewOf
<1> QED BY <1>1, <1>2, <1>3, <1>4 DEF Next

-----------------------------------------------------------------------------
(* The theorems.                                                           *)

\* The jobs of every run know where their box is, whatever is typed, lost,
\* or expires: IInv holds in every reachable state.
THEOREM Invariance == Spec => []IInv
<1> QED BY InitInv, NextInv, PTL DEF Spec

\* The types, and with them that only the states rotate.py names are saved
\* in an artifact.
THEOREM TypeCorrect == Spec => []TypeOK
<1>1. IInv => TypeOK BY DEF IInv
<1> QED BY <1>1, Invariance, PTL

\* A run that was dispatched for the address the box is on moves the records
\* only there, however old the checkpoint is that is_resumable accepted; a
\* remedy or a rollback moves them only when the box is on OLD again.
THEOREM RecordsFollow == Spec => RecordsFollowBox
<1> DEFINE A == \A b \in Boxes : names'[b] # names[b] =>
                  /\ Runs(b, {"dns", "resume"}) /\ job[b].honest
                       => names'[b] = addr[b]
                  /\ job[b].step # "rotate" => addr[b] = OldOf(CpOf(b))
<1>1. ASSUME IInv, [Next]_vars PROVE A
  <2> SUFFICES ASSUME NEW b \in Boxes, names'[b] # names[b]
               PROVE  /\ Runs(b, {"dns", "resume"}) /\ job[b].honest
                            => names'[b] = addr[b]
                      /\ job[b].step # "rotate" => addr[b] = OldOf(CpOf(b))
    OBVIOUS
  <2>1. names \in [Boxes -> Addresses] BY <1>1 DEF IInv, TypeOK
  <2>2. PICK c \in Boxes : \/ Inventory(c) \/ Replace(c)
                           \/ ReplaceUnreadable(c) \/ RestoreDns(c) \/ UndoDns(c)
    BY <1>1 DEF Next, vars, Dispatch, JobStep, StartSwap, StartResume,
                StartRollback, SwapRefused, SwapMoves, SwapBreaks, Verify,
                RestoreAddress, RestoreBreaks, UndoSwap, Upload, JobLost, Expire
  <2>3. \E a : SetNames(c, a) /\ (a \in Patched(c) \/ a = NewOf(CpOf(c)))
    BY <2>1, <2>2 DEF Inventory, Replace, ReplaceUnreadable, RestoreDns,
                      UndoDns, NewOf
  <2>4. c = b BY <2>1, <2>3 DEF SetNames
  <2>5. CASE Runs(b, {"dns", "resume"})
    <3>1. job[b].honest => addr[b] = NewOf(CpOf(b))
      BY <1>1, <2>5 DEF IInv, JobFitsAddress
    <3>2. names'[b] = NewOf(CpOf(b))
      BY <2>1, <2>3, <2>4 DEF SetNames, Patched
    <3> QED BY <2>5, <3>1, <3>2 DEF Runs
  <2>6. CASE ~Runs(b, {"dns", "resume"})
    <3>1. RestoreDns(b) \/ UndoDns(b)
      BY <2>2, <2>4, <2>6 DEF Inventory, Replace, ReplaceUnreadable, Resumes
    <3>2. job[b] # Idle /\ job[b].step \in {"restore_dns", "undo_dns"}
      BY <3>1 DEF RestoreDns, Restores, UndoDns, Idle
    <3> QED BY <1>1, <2>6, <3>2 DEF IInv, JobFitsAddress
  <2> QED BY <2>5, <2>6
<1>2. IInv /\ [Next]_vars => A BY <1>1
<1> QED BY <1>2, Invariance, PTL DEF Spec, RecordsFollowBox

\* A rollback dispatched for the address the box is on takes the box off the
\* NEW of the transaction it undoes, to that transaction's OLD or to none:
\* the newest artifact of all is the one of the box's last move.
THEOREM RollbackUndoes == Spec => RollbackUndoesLastMove
<1> DEFINE A == \A b \in Boxes :
                  addr'[b] # addr[b] /\ Runs(b, {"rollback"}) /\ job[b].honest
                    => /\ addr[b] = NewOf(CpOf(b))
                       /\ addr'[b] \in {OldOf(CpOf(b)), NoAddr}
<1>1. ASSUME IInv, [Next]_vars PROVE A
  <2> SUFFICES ASSUME NEW b \in Boxes, addr'[b] # addr[b],
                      Runs(b, {"rollback"}), job[b].honest
               PROVE  /\ addr[b] = NewOf(CpOf(b))
                      /\ addr'[b] \in {OldOf(CpOf(b)), NoAddr}
    OBVIOUS
  <2>1. addr[b] = Now(CpOf(b)) BY <1>1 DEF IInv, JobFitsAddress
  <2>2. addr \in [Boxes -> Addresses \cup {NoAddr}] BY <1>1 DEF IInv, TypeOK
  <2>3. PICK c \in Boxes : \/ SwapMoves(c) \/ SwapBreaks(c)
                           \/ RestoreAddress(c) \/ RestoreBreaks(c) \/ UndoSwap(c)
    BY <1>1 DEF Next, vars, Dispatch, JobStep, StartSwap, StartResume,
                StartRollback, SwapRefused, Inventory, Replace, Verify,
                ReplaceUnreadable, RestoreDns, UndoDns, Upload, JobLost, Expire
  <2>4. \E a : addr' = [addr EXCEPT ![c] = a]
    BY <2>2, <2>3 DEF SwapMoves, SwapBreaks, RestoreAddress, RestoreBreaks,
                      UndoSwap
  <2>5. c = b BY <2>2, <2>4
  <2>6. UndoSwap(b)
    BY <2>3, <2>5 DEF SwapMoves, SwapBreaks, RestoreAddress, RestoreBreaks,
                      Restores, Runs
  <2>7. OldOf([CpOf(b) EXCEPT !.at = "needs_rollback", !.back = TRUE])
          = OldOf(CpOf(b))
    <3>1. CpOf(b) \in Planned BY <1>1, RunsAJob, JobIsRecord
    <3> QED BY <3>1 DEF OldOf, Planned
  <2>8. addr'[b] \in {addr[b], OldOf(CpOf(b)), NoAddr}
    BY <2>2, <2>6, <2>7 DEF UndoSwap, BrokenOff
  <2>9. addr[b] # OldOf(CpOf(b))
    BY <2>2, <2>6, <2>7 DEF UndoSwap, BrokenOff
  <2> QED BY <2>1, <2>8, <2>9 DEF Now
<1>2. IInv /\ [Next]_vars => A BY <1>1
<1> QED BY <1>2, Invariance, PTL DEF Spec, RollbackUndoesLastMove

-----------------------------------------------------------------------------
(* HomeInv is inductive beside IInv.                                       *)

\* Both addresses of a planned transaction are its box's.
LEMMA OwnAddresses ==
  ASSUME HomeInv, NEW cp \in Planned
  PROVE  OldOf(cp) \in Own(BoxOf(cp)) /\ NewOf(cp) \in Own(BoxOf(cp))
BY DEF Planned, HomeInv, PlansHome, Own, OldOf, NewOf, BoxOf

\* A step that moves a box or its records to an address of their own, or
\* takes its address away, and leaves every job with its transaction.
LEMMA HomeKept ==
  ASSUME HomeInv, UNCHANGED plan,
         \A b \in Boxes :
           /\ addr'[b] \in Own(b) \cup {NoAddr} /\ names'[b] \in Own(b)
           /\ job'[b] # Idle => BoxOf(CpOf(b)') = b
  PROVE  HomeInv'
<1>1. plan' = plan OBVIOUS
<1>2. \A b \in Boxes : Own(b)' = Own(b) BY <1>1 DEF Own
<1>3. BoxesHome' BY <1>2 DEF BoxesHome
<1>4. PlansHome' BY <1>1 DEF HomeInv, PlansHome, Own
<1>5. JobsHome' BY <1>1 DEF JobsHome, BoxOf
<1> QED BY <1>3, <1>4, <1>5 DEF HomeInv

\* A job writes a checkpoint of the same transaction to its disk.
LEMMA GoOnHome ==
  ASSUME IInv, NEW b \in Boxes, job[b] # Idle, NEW cp, NEW step, GoOn(b, cp, step)
  PROVE  job'[b].cp = cp /\ \A c \in Boxes \ {b} : job'[c] = job[c]
<1> DEFINE updated == [job[b] EXCEPT !.cp = cp, !.step = step]
<1>1. updated = [op |-> job[b].op, cp |-> cp, step |-> step,
                 honest |-> job[b].honest]
  BY JobUpdated, Zenon
<1>2. updated.cp = cp BY <1>1
<1>3. /\ job'[b] = updated
      /\ \A c \in Boxes \ {b} : job'[c] = job[c]
  BY DEF GoOn, IInv, TypeOK
<1> HIDE DEF updated
<1> QED BY <1>2, <1>3

\* A step of a job moves the box and its records to addresses of the job's
\* transaction, or takes the address away.
LEMMA JobHome ==
  ASSUME IInv, HomeInv, NEW b \in Boxes, job[b] # Idle, UNCHANGED plan,
         job'[b].cp.tx = CpOf(b).tx,
         \A c \in Boxes \ {b} : job'[c] = job[c],
         NEW a \in {addr[b], NoAddr, OldOf(CpOf(b)), NewOf(CpOf(b))},
         addr' = [addr EXCEPT ![b] = a],
         NEW n \in {names[b], OldOf(CpOf(b)), NewOf(CpOf(b))},
         names' = [names EXCEPT ![b] = n]
  PROVE  HomeInv'
<1>1. CpOf(b) \in Planned /\ BoxOf(CpOf(b)) = b
  BY JobIsRecord DEF HomeInv, JobsHome
<1>2. OldOf(CpOf(b)) \in Own(b) /\ NewOf(CpOf(b)) \in Own(b)
  BY <1>1, OwnAddresses
<1>3. \A c \in Boxes : /\ addr'[c] = IF c = b THEN a ELSE addr[c]
                       /\ names'[c] = IF c = b THEN n ELSE names[c]
  BY DEF IInv, TypeOK
<1>4. \A c \in Boxes : /\ addr'[c] \in Own(c) \cup {NoAddr}
                       /\ names'[c] \in Own(c)
  BY <1>2, <1>3 DEF HomeInv, BoxesHome
<1>5. \A c \in Boxes : job'[c] # Idle => BoxOf(CpOf(c)') = c
  BY <1>1 DEF HomeInv, JobsHome, CpOf, BoxOf
<1> QED BY <1>4, <1>5, HomeKept

\* A new job, with a checkpoint of its box.
LEMMA BeginHome ==
  ASSUME IInv, HomeInv, UNCHANGED <<addr, names, plan>>, NEW b \in Boxes,
         NEW op, NEW cp, NEW typed, Begin(b, op, cp, typed), BoxOf(cp) = b
  PROVE  HomeInv'
<1>1. job \in [Boxes -> Jobs] BY DEF IInv, TypeOK
<1>2. \A c \in Boxes : job'[c] # Idle => BoxOf(CpOf(c)') = c
  BY <1>1 DEF HomeInv, JobsHome, CpOf, Begin
<1> QED BY <1>2, HomeKept DEF HomeInv, BoxesHome

\* The swap of a new transaction, whose addresses are the box's.
LEMMA StartSwapHome ==
  ASSUME IInv, HomeInv, NEW b \in Boxes, NEW typed \in Addresses,
         NEW only \in BOOLEAN, StartSwap(b, only, typed)
  PROVE  HomeInv'
<1> DEFINE entry == [box |-> b, old |-> addr[b], only |-> only]
<1>1. /\ addr' = addr /\ names' = names /\ plan' = Append(plan, entry)
      /\ addr[b] = typed /\ job[b] = Idle
  BY DEF StartSwap
<1>2. plan \in Seq([box : Boxes, old : Addresses, only : BOOLEAN])
  BY DEF IInv, TypeOK
<1>3. entry.box = b /\ entry.old = addr[b]
  OBVIOUS
<1> HIDE DEF entry
<1>4. /\ Len(plan) \in Nat /\ Len(plan') = Len(plan) + 1
      /\ plan'[Len(plan) + 1] = entry
      /\ \A t \in 1..Len(plan) : plan'[t] = plan[t]
  BY <1>1, <1>2, AppendProperties, LenProperties
<1>5. \A c : Own(c) \subseteq Own(c)'
  BY <1>4 DEF Own
<1>6. BoxesHome' BY <1>1, <1>5 DEF HomeInv, BoxesHome
<1>7. addr[b] \in Own(b)
  BY <1>1, WorkflowAssumption DEF HomeInv, BoxesHome, Addresses
<1>8. PlansHome'
  <2> SUFFICES ASSUME NEW t \in 1..Len(plan')
               PROVE  plan'[t].old \in {plan'[t].box} \cup
                        {u \in 1..Len(plan') : plan'[u].box = plan'[t].box}
    BY DEF PlansHome, Own
  <2>1. CASE t = Len(plan) + 1
    BY <1>3, <1>4, <1>5, <1>7, <2>1 DEF Own
  <2>2. CASE t # Len(plan) + 1
    <3>1. t \in 1..Len(plan) BY <1>4, <2>2
    <3>2. plan[t].old \in Own(plan[t].box) BY <3>1 DEF HomeInv, PlansHome
    <3> QED BY <1>4, <3>1, <3>2 DEF Own
  <2> QED BY <2>1, <2>2
<1>9. JobsHome'
  <2> SUFFICES ASSUME NEW c \in Boxes, job'[c] # Idle
               PROVE  plan'[job'[c].cp.tx].box = c
    BY DEF JobsHome, BoxOf, CpOf
  <2>1. CASE c = b
    <3>1. job'[b].cp.tx = Len(plan) + 1
      BY <1>4 DEF StartSwap, Begin, IInv, TypeOK
    <3> QED BY <1>3, <1>4, <2>1, <3>1
  <2>2. CASE c # b
    <3>1. job'[c] = job[c] BY <2>2 DEF StartSwap, Begin, IInv, TypeOK
    <3>2. CpOf(c) \in Planned BY <3>1, JobIsRecord
    <3>3. CpOf(c).tx \in 1..Len(plan) BY <3>2 DEF Planned
    <3>4. plan[CpOf(c).tx].box = c BY <3>1 DEF HomeInv, JobsHome, BoxOf
    <3> QED BY <1>4, <3>1, <3>3, <3>4 DEF CpOf
  <2> QED BY <2>1, <2>2
<1> QED BY <1>6, <1>8, <1>9 DEF HomeInv

\* The lookups take artifacts of the typed server only.
LEMMA StartAgainHome ==
  ASSUME IInv, HomeInv, NEW b \in Boxes, NEW typed,
         StartResume(b, typed) \/ StartRollback(b, typed)
  PROVE  HomeInv'
<1>1. UNCHANGED <<addr, names, plan>> BY DEF StartResume, StartRollback
<1>2. \A unread : \A cp \in Found(b, typed, unread) : BoxOf(cp) = b
  BY DEF Found, Resumable
<1>3. \E op, cp : Begin(b, op, cp, typed) /\ BoxOf(cp) = b
  BY <1>2 DEF StartResume, StartRollback
<1> QED BY <1>1, <1>3, BeginHome

\* A swap that breaks off leaves the box where it was, on NEW, or without
\* an address.
LEMMA BreaksHome ==
  ASSUME IInv, HomeInv, NEW b \in Boxes, SwapBreaks(b)
  PROVE  HomeInv'
<1> DEFINE cp == CpOf(b)
           midway == [cp EXCEPT !.at = "midswap", !.new = TRUE]
           undone(known) == [cp EXCEPT !.at = "rolled_back", !.new = known,
                                       !.back = TRUE]
<1>1. Runs(b, {"swap"}) BY Zenon DEF SwapBreaks
<1>2. job[b] # Idle /\ cp \in Planned BY <1>1, RunsAJob, JobIsRecord
<1>3. /\ midway.tx = cp.tx
      /\ \A known : undone(known).tx = cp.tx
  BY <1>2 DEF Planned
<1>4. /\ \/ /\ addr' \in {[addr EXCEPT ![b] = a] : a \in {addr[b], NoAddr, NewOf(cp)}}
            /\ GoOn(b, midway, "upload")
         \/ /\ addr' = addr
            /\ \E known \in BOOLEAN : GoOn(b, undone(known), "upload")
      /\ UNCHANGED <<names, plan>>
  BY ZenonT(30) DEF SwapBreaks, StageFails
<1> HIDE DEF midway, undone
<1>5. \E next, step : GoOn(b, next, step) /\ next.tx = cp.tx BY <1>3, <1>4
<1>6. /\ job'[b].cp.tx = cp.tx
      /\ \A c \in Boxes \ {b} : job'[c] = job[c]
  BY <1>2, <1>5, GoOnHome
<1>7. /\ addr = [addr EXCEPT ![b] = addr[b]]
      /\ names = [names EXCEPT ![b] = names[b]]
  BY DEF IInv, TypeOK
<1>8. \E a \in {addr[b], NoAddr, OldOf(cp), NewOf(cp)} : addr' = [addr EXCEPT ![b] = a]
  BY <1>4, <1>7
<1> QED BY <1>2, <1>4, <1>6, <1>7, <1>8, JobHome

\* What a job does to its box, to its records and to its checkpoint.
LEMMA MovesHome ==
  ASSUME IInv, HomeInv, NEW b \in Boxes,
         \/ SwapRefused(b) \/ SwapMoves(b)
         \/ Inventory(b) \/ Replace(b) \/ Verify(b)
         \/ ReplaceUnreadable(b) \/ RestoreAddress(b) \/ RestoreBreaks(b)
         \/ RestoreDns(b) \/ UndoSwap(b) \/ UndoDns(b)
  PROVE  HomeInv'
<1> DEFINE cp == CpOf(b)
           Goes == /\ job'[b].cp.tx = cp.tx
                   /\ \A c \in Boxes \ {b} : job'[c] = job[c]
           Ends == \E a \in {addr[b], NoAddr, OldOf(cp), NewOf(cp)} :
                     addr' = [addr EXCEPT ![b] = a]
           Leads == \E n \in {names[b], OldOf(cp), NewOf(cp)} :
                      names' = [names EXCEPT ![b] = n]
<1>1. job[b] # Idle
  <2>1. CASE SwapRefused(b) \/ SwapMoves(b)
    BY <2>1, RunsAJob DEF SwapRefused, SwapMoves
  <2>2. CASE RestoreAddress(b) \/ RestoreBreaks(b) \/ RestoreDns(b)
    BY <2>2 DEF RestoreAddress, RestoreBreaks, RestoreDns, Restores, Idle
  <2>3. CASE Inventory(b) \/ Replace(b) \/ ReplaceUnreadable(b) \/ Verify(b)
    BY <2>3, RunsAJob DEF Inventory, Replace, ReplaceUnreadable, Verify, Resumes
  <2>4. CASE UndoSwap(b) BY <2>4, RunsAJob DEF UndoSwap
  <2>5. CASE UndoDns(b) BY <2>5 DEF UndoDns, Idle
  <2> QED BY <2>1, <2>2, <2>3, <2>4, <2>5
<1>2. UNCHANGED plan
  <2>1. CASE SwapRefused(b) \/ SwapMoves(b) BY <2>1 DEF SwapRefused, SwapMoves
  <2>2. CASE RestoreAddress(b) \/ RestoreBreaks(b) \/ RestoreDns(b)
    BY <2>2 DEF RestoreAddress, RestoreBreaks, RestoreDns
  <2>3. CASE Inventory(b) \/ Replace(b) \/ ReplaceUnreadable(b) \/ Verify(b)
    BY <2>3 DEF Inventory, Replace, ReplaceUnreadable, Verify
  <2>4. CASE UndoSwap(b) \/ UndoDns(b) BY <2>4 DEF UndoSwap, UndoDns
  <2> QED BY <2>1, <2>2, <2>3, <2>4
<1>3. cp \in Planned BY <1>1, JobIsRecord
<1> HIDE DEF cp
<1>4. \A next, step : GoOn(b, next, step) /\ next.tx = cp.tx => Goes
  BY <1>1, GoOnHome
<1>5. \A next : next.tx = cp.tx => OldOf(next) = OldOf(cp) /\ NewOf(next) = NewOf(cp)
  BY DEF OldOf, NewOf
<1>6. /\ addr' = addr => Ends
      /\ names' = names => Leads
  BY DEF IInv, TypeOK
<1>7. \A a \in Patched(b) : SetNames(b, a) => Leads
  BY DEF Patched, SetNames, cp
<1>8. Goes /\ Ends /\ Leads => HomeInv'
  BY <1>1, <1>2, JobHome DEF cp
<1> HIDE DEF Goes
<1>9. CASE SwapRefused(b)
  <2>1. Goes BY <1>4, <1>9 DEF SwapRefused, StageFails, cp
  <2> QED BY <1>6, <1>8, <1>9, <2>1 DEF SwapRefused
<1>10. CASE SwapMoves(b)
  <2>1. [cp EXCEPT !.at = "connectivity_ok", !.new = TRUE].tx = cp.tx
    BY <1>3 DEF Planned
  <2>2. Goes BY <1>4, <1>10, <2>1 DEF SwapMoves, cp
  <2>3. Ends BY <1>10 DEF SwapMoves, cp
  <2> QED BY <1>6, <1>8, <1>10, <2>2, <2>3 DEF SwapMoves
<1>11. CASE Inventory(b)
  <2>1. /\ [cp EXCEPT !.at = "ansible_done", !.dns = TRUE].tx = cp.tx
        /\ [cp EXCEPT !.at = "ansible_done"].tx = cp.tx
    BY <1>3 DEF Planned
  <2>2. Goes BY <1>4, <1>11, <2>1 DEF Inventory, StageFails, cp
  <2> QED BY <1>6, <1>7, <1>8, <1>11, <2>2 DEF Inventory
<1>12. CASE Replace(b)
  <2> DEFINE tried == [cp EXCEPT !.dns = TRUE]
             over  == [tried EXCEPT !.at = "cloudflare_replaced"]
  <2>1. tried.tx = cp.tx /\ over.tx = cp.tx BY <1>3 DEF Planned
  <2>2. /\ \/ GoOn(b, over, "rotate") \/ GoOn(b, tried, "upload")
        /\ \/ SetNames(b, NewOf(tried)) \/ names' = names
           \/ \E a \in Patched(b) : SetNames(b, a)
        /\ addr' = addr
    BY <1>12 DEF Replace, StageFails, cp
  <2> HIDE DEF tried, over
  <2>3. Goes BY <1>4, <2>1, <2>2
  <2>4. Leads BY <1>5, <1>6, <1>7, <2>1, <2>2 DEF SetNames
  <2> QED BY <1>6, <1>8, <2>2, <2>3, <2>4
<1>13. CASE ReplaceUnreadable(b)
  <2>1. [cp EXCEPT !.at = "needs_rollback", !.dns = TRUE].tx = cp.tx
    BY <1>3 DEF Planned
  <2>2. Goes BY <1>4, <1>13, <2>1 DEF ReplaceUnreadable, cp
  <2> QED BY <1>6, <1>7, <1>8, <1>13, <2>2 DEF ReplaceUnreadable
<1>14. CASE Verify(b)
  <2>1. [cp EXCEPT !.at = "done"].tx = cp.tx BY <1>3 DEF Planned
  <2>2. Goes BY <1>4, <1>14, <2>1 DEF Verify, StageFails, cp
  <2> QED BY <1>6, <1>8, <1>14, <2>2 DEF Verify
<1>15. CASE UndoSwap(b)
  <2> DEFINE undone == [cp EXCEPT !.at = "needs_rollback", !.back = TRUE]
             open   == [undone EXCEPT !.back = FALSE]
  <2>1. undone.tx = cp.tx /\ open.tx = cp.tx BY <1>3 DEF Planned
  <2>2. /\ \/ addr' = [addr EXCEPT ![b] = OldOf(undone)]
           \/ addr' \in {[addr EXCEPT ![b] = a] :
                a \in {addr[b], OldOf(cp), NoAddr}}
        /\ \/ GoOn(b, undone, IF undone.dns THEN "undo_dns" ELSE "upload")
           \/ GoOn(b, open, "upload")
        /\ names' = names
    BY <1>15 DEF UndoSwap, BrokenOff, StageFails, cp
  <2> HIDE DEF undone, open
  <2>3. Goes BY <1>4, <2>1, <2>2
  <2>4. Ends BY <1>5, <2>1, <2>2
  <2> QED BY <1>6, <1>8, <2>2, <2>3, <2>4
<1>16. CASE UndoDns(b)
  <2>1. [cp EXCEPT !.at = "rolled_back"].tx = cp.tx BY <1>3 DEF Planned
  <2>2. Goes BY <1>4, <1>16, <2>1 DEF UndoDns, StageFails, cp
  <2> QED BY <1>6, <1>7, <1>8, <1>16, <2>2 DEF UndoDns
<1>17. CASE RestoreAddress(b)
  <2>1. Goes BY <1>4, <1>17 DEF RestoreAddress, cp
  <2>2. Ends BY <1>17 DEF RestoreAddress, cp
  <2> QED BY <1>6, <1>8, <1>17, <2>1, <2>2 DEF RestoreAddress
<1>18. CASE RestoreBreaks(b)
  <2>1. Goes BY <1>4, <1>18 DEF RestoreBreaks, StageFails, cp
  <2>2. Ends BY <1>18 DEF RestoreBreaks, BrokenOff, cp
  <2> QED BY <1>6, <1>8, <1>18, <2>1, <2>2 DEF RestoreBreaks
<1>19. CASE RestoreDns(b)
  <2>1. \A verdict : [cp EXCEPT !.at = verdict, !.back = TRUE].tx = cp.tx
    BY <1>3 DEF Planned
  <2>2. Goes BY <1>4, <1>19, <2>1 DEF RestoreDns, StageFails, cp
  <2> QED BY <1>6, <1>7, <1>8, <1>19, <2>2 DEF RestoreDns
<1> QED BY <1>9, <1>10, <1>11, <1>12, <1>13, <1>14, <1>15, <1>16, <1>17, <1>18,
           <1>19

\* Jobs that end or go on with the checkpoint they have.
LEMMA StillHome ==
  ASSUME HomeInv, UNCHANGED <<addr, names, plan>>,
         \A c \in Boxes : job'[c] # Idle => job[c] # Idle /\ CpOf(c)' = CpOf(c)
  PROVE  HomeInv'
<1>1. \A c \in Boxes : job'[c] # Idle => BoxOf(CpOf(c)') = c
  BY DEF HomeInv, JobsHome
<1>2. \A c \in Boxes : addr'[c] \in Own(c) \cup {NoAddr} /\ names'[c] \in Own(c)
  BY DEF HomeInv, BoxesHome
<1> QED BY <1>1, <1>2, HomeKept

\* The upload, ...
LEMMA UploadHome ==
  ASSUME IInv, HomeInv, NEW b \in Boxes, Upload(b)
  PROVE  HomeInv'
<1> DEFINE onward == [job[b] EXCEPT !.op = "dns", !.step = "rotate"]
           follows == /\ job[b].op = "swap" /\ CpOf(b).at = "connectivity_ok"
                      /\ ~plan[CpOf(b).tx].only
<1>1. job[b] # Idle BY DEF Upload
<1>2. onward.cp = job[b].cp BY <1>1, JobIsRecord
<1>3. job' = [job EXCEPT ![b] = IF follows THEN onward ELSE Idle]
  BY DEF Upload
<1>4. UNCHANGED <<addr, names, plan>> BY DEF Upload
<1> HIDE DEF onward, follows
<1>5. \A c \in Boxes : job'[c] # Idle => job[c] # Idle /\ CpOf(c)' = CpOf(c)
  BY <1>1, <1>2, <1>3 DEF CpOf, IInv, TypeOK
<1> QED BY <1>4, <1>5, StillHome

\* ... a runner that is lost, and an artifact that expires.
LEMMA EndsHome ==
  ASSUME IInv, HomeInv, Expire \/ \E b \in Boxes : JobLost(b)
  PROVE  HomeInv'
<1>1. UNCHANGED <<addr, names, plan>> BY DEF Expire, JobLost
<1>2. \A c \in Boxes : job'[c] # Idle => job[c] # Idle /\ CpOf(c)' = CpOf(c)
  BY DEF Expire, JobLost, CpOf, IInv, TypeOK
<1> QED BY <1>1, <1>2, StillHome

\* HomeInv is inductive beside IInv.
LEMMA HomeNext == IInv /\ HomeInv /\ [Next]_vars => HomeInv'
<1> SUFFICES ASSUME IInv, HomeInv, [Next]_vars PROVE HomeInv' OBVIOUS
<1>1. ASSUME NEW b \in Boxes, Dispatch(b) PROVE HomeInv'
  BY <1>1, StartSwapHome, StartAgainHome DEF Dispatch
<1>2. ASSUME NEW b \in Boxes, JobStep(b) PROVE HomeInv'
  BY <1>2, BreaksHome, MovesHome, UploadHome DEF JobStep
<1>3. CASE Expire \/ \E b \in Boxes : JobLost(b) BY <1>3, EndsHome
<1>4. CASE UNCHANGED vars
  BY <1>4 DEF vars, HomeInv, BoxesHome, PlansHome, JobsHome, Own, CpOf, BoxOf
<1> QED BY <1>1, <1>2, <1>3, <1>4 DEF Next

\* Whatever is typed, lost or expired, and for a dispatch that named an old
\* address as well: a box is never on an address of another box, nor do its
\* records lead to one.  The lookups compare the server's name besides the
\* address, and the addresses of a transaction are its server's.
THEOREM BoxesApart == Spec => []BoxesStayApart
<1>1. Init => HomeInv
  BY DEF Init, HomeInv, BoxesHome, PlansHome, JobsHome, Own
<1>2. ASSUME IInv, HomeInv PROVE BoxesStayApart
  <2>1. \A b, c \in Boxes : b # c => Own(b) \cap Own(c) = {}
    <3>1. Len(plan) \in Nat /\ Len(plan) <= MaxTx
      BY <1>2, LenProperties DEF IInv, TypeOK, CheckpointsPlanned
    <3> QED BY <3>1, WorkflowAssumption DEF Own
  <2> QED BY <1>2, <2>1 DEF HomeInv, BoxesHome, BoxesStayApart
<1>3. IInv /\ HomeInv => BoxesStayApart BY <1>2
<1> QED BY <1>1, <1>3, HomeNext, Invariance, PTL DEF Spec

=============================================================================
