------------------------- MODULE CloudflareDnsProofs -------------------------
(***************************************************************************)
(* Proofs about CloudflareDns: the inductive invariant IInv, the safety    *)
(* invariants it carries, that a rollback stays within the markers, that   *)
(* runs end and that DnsCutover is implemented, for every set of accounts  *)
(* and records, every overlap of the accounts' zones and any number of     *)
(* edits, faults and crashes.                                              *)
(***************************************************************************)
EXTENDS CloudflareDns, TLAPS

\* Exchanged by rotate.py and again by the playbook: whatever the operation,
\* records are moved from the old address to the new one.
LEMMA Addresses ==
  \A o : Source(o) = "old" /\ Target(o) = "new"
  BY DEF Source, Target, Args

\* At most one account has its turn.
LEMMA FrontIsOne ==
  ASSUME TypeOK, NEW a, NEW b, Front(a), Front(b)
  PROVE  a = b /\ a \in Accounts
  BY DnsAssumption DEF Front, TypeOK, ProcessOK

\* Starting a scan disturbs nothing that is on disk.
LEMMA PreflightInv ==
  ASSUME IInv, Preflight
  PROVE  IInv'
<1> USE DEF IInv, Preflight, NoFault, checkpoint, history
<1>1. TypeOK'
  BY DEF TypeOK, CheckpointOK, ProcessOK
<1>2. LoopsFit'
  BY DEF LoopsFit, Running
<1>3. MarkersFit'
  BY DEF MarkersFit, Running
<1>4. ReadBackFits'
  BY DEF ReadBackFits, Running
<1>5. PlanIsFresh'
  BY DEF PlanIsFresh
<1>6. ReplacedIsTrue'
  BY DEF ReplacedIsTrue
<1>7. MarkersCoverMoves'
  BY DEF MarkersCoverMoves
<1>8. CleanIsReadBack'
  BY DEF CleanIsReadBack
<1> QED BY <1>1, <1>2, <1>3, <1>4, <1>5, <1>6, <1>7, <1>8

\* Claiming records, or giving the scan up, before any apply has run.
LEMMA DiscoverInv ==
  ASSUME IInv, NEW a \in Accounts, Discover(a)
  PROVE  IInv'
<1> USE DnsAssumption DEF IInv, Discover, Claim, Idle, NoManifest, Fault,
    NoFault
<1>1. TypeOK'
  <2>1. CheckpointOK'
    BY DEF TypeOK, CheckpointOK
  <2>2. ProcessOK'
    BY DEF TypeOK, ProcessOK
  <2> QED BY <2>1, <2>2 DEF TypeOK
<1>2. LoopsFit'
  BY DEF LoopsFit, Running
<1>3. MarkersFit'
  BY DEF MarkersFit, Running
<1>4. ReadBackFits'
  BY DEF ReadBackFits, Running
<1>5. PlanIsFresh'
  BY DEF PlanIsFresh, LoopsFit
<1>6. ReplacedIsTrue'
  BY DEF ReplacedIsTrue, LoopsFit
<1>7. MarkersCoverMoves'
  BY DEF MarkersCoverMoves, MarkersFit, LoopsFit
<1>8. CleanIsReadBack'
  BY DEF CleanIsReadBack, LoopsFit
<1> QED BY <1>1, <1>2, <1>3, <1>4, <1>5, <1>6, <1>7, <1>8

\* The manifest that is saved comes with no markers.
LEMMA PreflightedInv ==
  ASSUME IInv, Preflighted
  PROVE  IInv'
<1> USE DEF IInv, Preflighted, Idle, NoFault, history
<1>1. TypeOK'
  BY DEF TypeOK, CheckpointOK, ProcessOK, Stages
<1>2. LoopsFit'
  BY DEF LoopsFit, Running
<1>3. MarkersFit'
  BY DEF MarkersFit, LoopsFit
<1>4. ReadBackFits'
  BY DEF ReadBackFits, Running
<1>5. PlanIsFresh'
  BY DEF PlanIsFresh
<1>6. ReplacedIsTrue'
  BY DEF ReplacedIsTrue, InManifest
<1>7. MarkersCoverMoves'
  BY DEF MarkersCoverMoves
<1>8. CleanIsReadBack'
  BY DEF CleanIsReadBack, LoopsFit
<1> QED BY <1>1, <1>2, <1>3, <1>4, <1>5, <1>6, <1>7, <1>8

\* What ip-change moves counts as written by somebody else.
LEMMA IpChangeInv ==
  ASSUME IInv, IpChange
  PROVE  IInv'
<1> USE DnsAssumption DEF IInv, IpChange, Fault, NoFault, process
<1>1. TypeOK'
  BY DEF TypeOK, CheckpointOK, ProcessOK, Stages
<1>2. LoopsFit'
  BY DEF LoopsFit, Running
<1>3. MarkersFit'
  BY DEF MarkersFit, Running
<1>4. ReadBackFits'
  BY DEF ReadBackFits, Running
<1>5. PlanIsFresh'
  BY DEF PlanIsFresh, LoopsFit
<1>6. ReplacedIsTrue'
  BY DEF ReplacedIsTrue
<1>7. MarkersCoverMoves'
  BY DEF MarkersCoverMoves
<1>8. CleanIsReadBack'
  BY DEF CleanIsReadBack
<1> QED BY <1>1, <1>2, <1>3, <1>4, <1>5, <1>6, <1>7, <1>8

\* Declaring ip-change out of scope only moves the stage on.
LEMMA DeclareAnsibleInv ==
  ASSUME IInv, DeclareAnsible
  PROVE  IInv'
<1> USE DEF IInv, DeclareAnsible, NoFault, process, history
<1>1. TypeOK'
  BY DEF TypeOK, CheckpointOK, ProcessOK, Stages
<1>2. LoopsFit'
  BY DEF LoopsFit, Running
<1>3. MarkersFit'
  BY DEF MarkersFit, Running
<1>4. ReadBackFits'
  BY DEF ReadBackFits, Running
<1>5. PlanIsFresh'
  BY DEF PlanIsFresh
<1>6. ReplacedIsTrue'
  BY DEF ReplacedIsTrue
<1>7. MarkersCoverMoves'
  BY DEF MarkersCoverMoves
<1>8. CleanIsReadBack'
  BY DEF CleanIsReadBack
<1> QED BY <1>1, <1>2, <1>3, <1>4, <1>5, <1>6, <1>7, <1>8

\* A repeated apply starts over all accounts of the manifest.
LEMMA StartApplyInv ==
  ASSUME IInv, StartApply
  PROVE  IInv'
<1> USE DEF IInv, StartApply, Begin, NoFault, checkpoint, history
<1>1. TypeOK'
  <2>1. Owners \subseteq Accounts
    BY DEF Owners, InManifest, TypeOK, CheckpointOK
  <2> QED BY <2>1 DEF TypeOK, CheckpointOK, ProcessOK
<1>2. LoopsFit'
  BY DEF LoopsFit
<1>3. MarkersFit'
  BY DEF MarkersFit, Scope, Owners, InManifest
<1>4. ReadBackFits'
  BY DEF ReadBackFits, Owners, InManifest
<1>5. PlanIsFresh'
  BY DEF PlanIsFresh
<1>6. ReplacedIsTrue'
  BY DEF ReplacedIsTrue
<1>7. MarkersCoverMoves'
  BY DEF MarkersCoverMoves
<1>8. CleanIsReadBack'
  BY DEF CleanIsReadBack
<1> QED BY <1>1, <1>2, <1>3, <1>4, <1>5, <1>6, <1>7, <1>8

\* A rollback starts over the accounts that may have been touched.
LEMMA StartRollbackInv ==
  ASSUME IInv, StartRollback
  PROVE  IInv'
<1> USE DnsAssumption DEF IInv, StartRollback, Begin, DnsWasDone, Fault,
    NoFault, process, history
<1>1. TypeOK'
  <2>1. Owners \subseteq Accounts
    BY DEF Owners, InManifest, TypeOK, CheckpointOK
  <2>2. CheckpointOK'
    BY DEF TypeOK, CheckpointOK, Stages
  <2>3. ProcessOK'
    BY <2>1 DEF TypeOK, ProcessOK, Eligible
  <2> QED BY <2>2, <2>3 DEF TypeOK
<1>2. LoopsFit'
  BY DEF LoopsFit, Running
<1>3. MarkersFit'
  BY DEF MarkersFit, Scope, Eligible, Owners, InManifest, Running
<1>4. ReadBackFits'
  BY DEF ReadBackFits, Scope, Eligible, Owners, InManifest, Running
<1>5. PlanIsFresh'
  BY DEF PlanIsFresh
<1>6. ReplacedIsTrue'
  BY DEF ReplacedIsTrue
<1>7. MarkersCoverMoves'
  BY DEF MarkersCoverMoves
<1>8. CleanIsReadBack'
  BY DEF CleanIsReadBack
<1> QED BY <1>1, <1>2, <1>3, <1>4, <1>5, <1>6, <1>7, <1>8

\* So does the DNS half of its own process; without markers it only says so.
LEMMA StartDnsOnlyInv ==
  ASSUME IInv, StartDnsOnly
  PROVE  IInv'
<1> USE DEF IInv, StartDnsOnly, Begin, DnsWasDone, NoFault, process, history
<1>1. TypeOK'
  BY DEF TypeOK, CheckpointOK, ProcessOK, Stages, Eligible
<1>2. LoopsFit'
  BY DEF LoopsFit, Running
<1>3. MarkersFit'
  BY DEF MarkersFit, Scope, Eligible, Running
<1>4. ReadBackFits'
  BY DEF ReadBackFits, Scope, Eligible, Owners, InManifest, Running
<1>5. PlanIsFresh'
  BY DEF PlanIsFresh
<1>6. ReplacedIsTrue'
  BY DEF ReplacedIsTrue
<1>7. MarkersCoverMoves'
  BY DEF MarkersCoverMoves
<1>8. CleanIsReadBack'
  BY DEF CleanIsReadBack
<1> QED BY <1>1, <1>2, <1>3, <1>4, <1>5, <1>6, <1>7, <1>8

\* The marker of the account in front is on disk before it is read.
LEMMA RunAccountInv ==
  ASSUME IInv, NEW a \in Accounts, RunAccount(a)
  PROVE  IInv'
<1> USE DnsAssumption DEF IInv, RunAccount, NoFault, history, Subset
<1>1. TypeOK'
  BY DEF TypeOK, CheckpointOK, ProcessOK
<1>2. LoopsFit'
  BY DEF LoopsFit, Running, Front
<1>3. MarkersFit'
  BY DEF MarkersFit, Scope, Eligible, Owners, InManifest, LoopsFit, Running,
    Front
<1>4. ReadBackFits'
  BY DEF ReadBackFits, Scope, Eligible, Owners, InManifest, Arrived, Running
<1>5. PlanIsFresh'
  BY DEF PlanIsFresh
<1>6. ReplacedIsTrue'
  BY DEF ReplacedIsTrue, InManifest
<1>7. MarkersCoverMoves'
  BY DEF MarkersCoverMoves
<1>8. CleanIsReadBack'
  BY DEF CleanIsReadBack, LoopsFit, Running
<1> QED BY <1>1, <1>2, <1>3, <1>4, <1>5, <1>6, <1>7, <1>8

\* A record is planned as it was just read, or the run gives up.
LEMMA ReadInv ==
  ASSUME IInv, NEW a \in Accounts, NEW r \in Records, Read(a, r)
  PROVE  IInv'
<1> USE Addresses DEF IInv, Read, RunFails, Idle, NoFault, checkpoint
<1>1. TypeOK'
  <2>1. CheckpointOK'
    BY DEF TypeOK, CheckpointOK
  <2>2. ProcessOK'
    BY DEF TypeOK, ProcessOK
  <2> QED BY <2>1, <2>2 DEF TypeOK
<1>2. LoopsFit'
  <2>1. \A q \in todo' \cup left' : Front(manifest[q])'
    BY DEF LoopsFit, Front
  <2> QED BY <2>1 DEF LoopsFit, Running
<1>3. MarkersFit'
  <2>1. Running /\ Scope' = Scope
    BY DEF Running, Scope, Eligible, Owners, InManifest
  <2> QED BY <2>1 DEF MarkersFit, Front
<1>4. ReadBackFits'
  BY DEF ReadBackFits, Scope, Eligible, Owners, InManifest, Arrived, LoopsFit,
    Running, Front
<1>5. PlanIsFresh'
  BY DEF PlanIsFresh, LoopsFit
<1>6. ReplacedIsTrue'
  BY DEF ReplacedIsTrue, LoopsFit, Running
<1>7. MarkersCoverMoves'
  BY DEF MarkersCoverMoves
<1>8. CleanIsReadBack'
  BY DEF CleanIsReadBack, LoopsFit, Running
<1> QED BY <1>1, <1>2, <1>3, <1>4, <1>5, <1>6, <1>7, <1>8

\* A PATCH takes a planned record to the target, or leaves it.
LEMMA PatchInv ==
  ASSUME IInv, NEW r \in Records, Patch(r)
  PROVE  IInv'
<1> USE Addresses, DnsAssumption DEF IInv, Patch, Fault, NoFault, checkpoint
<1>1. TypeOK'
  BY DEF TypeOK, CheckpointOK, ProcessOK
<1>2. LoopsFit'
  BY DEF LoopsFit, Running, Front
<1>3. MarkersFit'
  BY DEF MarkersFit, Scope, Eligible, Owners, InManifest, LoopsFit, Running,
    Front
<1>4. ReadBackFits'
  BY DEF ReadBackFits, Scope, Eligible, Owners, InManifest, Arrived, Running,
    TypeOK
<1>5. PlanIsFresh'
  BY DEF PlanIsFresh, TypeOK, ProcessOK
<1>6. ReplacedIsTrue'
  BY DEF ReplacedIsTrue, LoopsFit, Running
<1>7. MarkersCoverMoves'
  BY FrontIsOne DEF MarkersCoverMoves, MarkersFit, LoopsFit
<1>8. CleanIsReadBack'
  BY DEF CleanIsReadBack, LoopsFit, Running
<1> QED BY <1>1, <1>2, <1>3, <1>4, <1>5, <1>6, <1>7, <1>8

\* A record that is gone ends the account's run.
LEMMA PatchRefusedInv ==
  ASSUME IInv, NEW a \in Accounts, NEW r \in Records, PatchRefused(a, r)
  PROVE  IInv'
<1> USE DEF IInv, PatchRefused, RunFails, Idle, NoFault, checkpoint, history
<1>1. TypeOK'
  BY DEF TypeOK, CheckpointOK, ProcessOK
<1>2. LoopsFit'
  BY DEF LoopsFit, Running
<1>3. MarkersFit'
  <2>1. Running /\ Scope' = Scope
    BY DEF Running, Scope, Eligible, Owners, InManifest
  <2> QED BY <2>1 DEF MarkersFit
<1>4. ReadBackFits'
  BY DEF ReadBackFits, Running
<1>5. PlanIsFresh'
  BY DEF PlanIsFresh
<1>6. ReplacedIsTrue'
  BY DEF ReplacedIsTrue, InManifest
<1>7. MarkersCoverMoves'
  BY DEF MarkersCoverMoves
<1>8. CleanIsReadBack'
  BY DEF CleanIsReadBack, LoopsFit, Running
<1> QED BY <1>1, <1>2, <1>3, <1>4, <1>5, <1>6, <1>7, <1>8

\* When nothing is planned any more, everything is to be read back.
LEMMA PatchedInv ==
  ASSUME IInv, NEW a \in Accounts, Patched(a)
  PROVE  IInv'
<1> USE DEF IInv, Patched, NoFault, checkpoint, history, Subset
<1>1. TypeOK'
  BY DEF TypeOK, CheckpointOK, ProcessOK
<1>2. LoopsFit'
  BY DEF LoopsFit, Running, Front
<1>3. MarkersFit'
  BY DEF MarkersFit, Scope, Eligible, Owners, InManifest, Running, Front
<1>4. ReadBackFits'
  BY FrontIsOne DEF ReadBackFits, Scope, Eligible, Owners, InManifest, Arrived,
    Running, Front
<1>5. PlanIsFresh'
  BY DEF PlanIsFresh
<1>6. ReplacedIsTrue'
  BY DEF ReplacedIsTrue, InManifest
<1>7. MarkersCoverMoves'
  BY DEF MarkersCoverMoves
<1>8. CleanIsReadBack'
  BY DEF CleanIsReadBack, LoopsFit, Running
<1> QED BY <1>1, <1>2, <1>3, <1>4, <1>5, <1>6, <1>7, <1>8

\* A record passes the read-back at the target, or the account fails.
LEMMA ReadBackInv ==
  ASSUME IInv, NEW a \in Accounts, NEW r \in Records, ReadBack(a, r)
  PROVE  IInv'
<1> USE DEF IInv, ReadBack, RunFails, Idle, NoFault, checkpoint
<1>1. TypeOK'
  BY DEF TypeOK, CheckpointOK, ProcessOK
<1>2. LoopsFit'
  BY DEF LoopsFit, Running, Front
<1>3. MarkersFit'
  <2>1. Running /\ Scope' = Scope
    BY DEF Running, Scope, Eligible, Owners, InManifest
  <2> QED BY <2>1 DEF MarkersFit, Front
<1>4. ReadBackFits'
  BY DEF ReadBackFits, Scope, Eligible, Owners, InManifest, Arrived, Running,
    Front
<1>5. PlanIsFresh'
  BY DEF PlanIsFresh, LoopsFit
<1>6. ReplacedIsTrue'
  BY DEF ReplacedIsTrue, LoopsFit, Running
<1>7. MarkersCoverMoves'
  BY DEF MarkersCoverMoves
<1>8. CleanIsReadBack'
  BY DEF CleanIsReadBack, LoopsFit, Running
<1> QED BY <1>1, <1>2, <1>3, <1>4, <1>5, <1>6, <1>7, <1>8

\* An account is left behind only with all its records read back.
LEMMA AccountDoneInv ==
  ASSUME IInv, NEW a \in Accounts, AccountDone(a)
  PROVE  IInv'
<1> USE DnsAssumption DEF IInv, AccountDone, Fault, NoFault, checkpoint,
    history, Subset
<1>1. TypeOK'
  <2>1. CheckpointOK'
    BY DEF TypeOK, CheckpointOK
  <2>2. ProcessOK'
    BY DEF TypeOK, ProcessOK
  <2> QED BY <2>1, <2>2 DEF TypeOK
<1>2. LoopsFit'
  <2>1. CASE pc' = "next"
    BY DEF LoopsFit, Running, Front
  <2>2. CASE pc' = "read"
    <3>1. /\ queue' = queue /\ todo' = {}
          /\ left' = {q \in Records : manifest[q] = a}
      BY <2>2 DEF LoopsFit
    <3>2. \A q \in todo' \cup left' : Front(manifest[q])'
      BY <3>1 DEF Front
    <3> QED BY <3>2 DEF LoopsFit, Running
  <2> QED BY <2>1, <2>2
<1>3. MarkersFit'
  <2>1. Running /\ Scope' = Scope
    BY DEF Running, Scope, Eligible, Owners, InManifest
  <2> QED BY <2>1 DEF MarkersFit, Front
<1>4. ReadBackFits'
  BY DEF ReadBackFits, Scope, Eligible, Owners, InManifest, Arrived, Running
<1>5. PlanIsFresh'
  BY DEF PlanIsFresh
<1>6. ReplacedIsTrue'
  BY DEF ReplacedIsTrue, InManifest
<1>7. MarkersCoverMoves'
  BY DEF MarkersCoverMoves
<1>8. CleanIsReadBack'
  BY DEF CleanIsReadBack, LoopsFit, Running
<1> QED BY <1>1, <1>2, <1>3, <1>4, <1>5, <1>6, <1>7, <1>8

\* A failed request leaves at most one more record at the target.
LEMMA RequestFailsInv ==
  ASSUME IInv, NEW a \in Accounts, RequestFails(a)
  PROVE  IInv'
<1> USE Addresses, DnsAssumption DEF IInv, RequestFails, RunFails, Idle, Fault,
    checkpoint
<1>1. TypeOK'
  <2>1. CheckpointOK'
    BY DEF TypeOK, CheckpointOK
  <2>2. ProcessOK'
    BY DEF TypeOK, ProcessOK
  <2>3. /\ live' \in [Records -> {"old", "new", "other", "gone"}]
        /\ drift' \in SUBSET Records /\ moved' \in SUBSET Records
        /\ edits' \in 0..MaxEdits /\ faults' \in 0..MaxFaults
    <3>1. CASE UNCHANGED <<live, moved>>
      BY <3>1 DEF TypeOK
    <3>2. CASE \E q \in todo : /\ live' = [live EXCEPT ![q] = Target(op)]
                             /\ moved' = IF op = "apply" THEN moved \cup {q} ELSE moved
      <4> PICK q \in todo : /\ live' = [live EXCEPT ![q] = "new"]
                            /\ moved' = IF op = "apply" THEN moved \cup {q} ELSE moved
        BY <3>2
      <4> QED BY DEF TypeOK, ProcessOK
    <3> QED BY <3>1, <3>2
  <2> QED BY <2>1, <2>2, <2>3 DEF TypeOK
<1>2. LoopsFit'
  BY DEF LoopsFit, Running
<1>3. MarkersFit'
  <2>1. Running /\ Scope' = Scope
    BY DEF Running, Scope, Eligible, Owners, InManifest
  <2> QED BY <2>1 DEF MarkersFit
<1>4. ReadBackFits'
  BY DEF ReadBackFits, Running
<1>5. PlanIsFresh'
  BY DEF PlanIsFresh
<1>6. ReplacedIsTrue'
  BY DEF ReplacedIsTrue, LoopsFit, Running
<1>7. MarkersCoverMoves'
  BY FrontIsOne DEF MarkersCoverMoves, MarkersFit, LoopsFit
<1>8. CleanIsReadBack'
  BY DEF CleanIsReadBack, LoopsFit, Running
<1> QED BY <1>1, <1>2, <1>3, <1>4, <1>5, <1>6, <1>7, <1>8

\* The apply's result is saved when no account is left.
LEMMA RecordApplyInv ==
  ASSUME IInv, RecordApply
  PROVE  IInv'
<1> USE DEF IInv, RecordApply, NoFault, history
<1>1. TypeOK'
  BY DEF TypeOK, CheckpointOK, ProcessOK
<1>2. LoopsFit'
  BY DEF LoopsFit, Running
<1>3. MarkersFit'
  BY DEF MarkersFit
<1>4. ReadBackFits'
  BY DEF ReadBackFits, Scope, Owners, InManifest, Arrived, Running
<1>5. PlanIsFresh'
  BY DEF PlanIsFresh
<1>6. ReplacedIsTrue'
  BY DEF ReplacedIsTrue, InManifest
<1>7. MarkersCoverMoves'
  BY DEF MarkersCoverMoves
<1>8. CleanIsReadBack'
  BY DEF CleanIsReadBack, LoopsFit, Running
<1> QED BY <1>1, <1>2, <1>3, <1>4, <1>5, <1>6, <1>7, <1>8

\* `replaced` is saved with every record of the manifest read back.
LEMMA ReplacedInv ==
  ASSUME IInv, Replaced
  PROVE  IInv'
<1> USE Addresses DEF IInv, Replaced, Idle, NoFault, history
<1>1. TypeOK'
  BY DEF TypeOK, CheckpointOK, ProcessOK, Stages
<1>2. LoopsFit'
  BY DEF LoopsFit, Running
<1>3. MarkersFit'
  BY DEF MarkersFit
<1>4. ReadBackFits'
  BY DEF ReadBackFits, Running
<1>5. PlanIsFresh'
  BY DEF PlanIsFresh
<1>6. ReplacedIsTrue'
  BY DEF ReplacedIsTrue, ReadBackFits, Scope, Owners, Arrived, LoopsFit,
    Running, InManifest
<1>7. MarkersCoverMoves'
  BY DEF MarkersCoverMoves
<1>8. CleanIsReadBack'
  BY DEF CleanIsReadBack
<1> QED BY <1>1, <1>2, <1>3, <1>4, <1>5, <1>6, <1>7, <1>8

\* A clean verdict is saved with every eligible record read back.
LEMMA RecordRollbackInv ==
  ASSUME IInv, RecordRollback
  PROVE  IInv'
<1> USE Addresses, DnsAssumption DEF IInv, RecordRollback, Idle, Fault,
    NoFault, history
<1>1. TypeOK'
  <2>1. stage' \in Stages /\ verdict' \in {"clean", "incomplete"}
    BY DEF TypeOK, CheckpointOK, Stages
  <2>2. CheckpointOK'
    BY <2>1 DEF TypeOK, CheckpointOK
  <2>3. ProcessOK'
    BY DEF TypeOK, ProcessOK
  <2> QED BY <2>2, <2>3 DEF TypeOK
<1>2. LoopsFit'
  BY DEF LoopsFit, Running
<1>3. MarkersFit'
  BY DEF MarkersFit
<1>4. ReadBackFits'
  BY DEF ReadBackFits, Running
<1>5. PlanIsFresh'
  BY DEF PlanIsFresh
<1>6. ReplacedIsTrue'
  BY DEF ReplacedIsTrue, InManifest
<1>7. MarkersCoverMoves'
  BY DEF MarkersCoverMoves
<1>8. CleanIsReadBack'
  BY DEF CleanIsReadBack, ReadBackFits, Scope, Eligible, Owners, Arrived,
    Running, InManifest
<1> QED BY <1>1, <1>2, <1>3, <1>4, <1>5, <1>6, <1>7, <1>8

\* verify moves the stage on and nothing else.
LEMMA VerifyInv ==
  ASSUME IInv, Verify
  PROVE  IInv'
<1> USE DEF IInv, Verify, NoFault, process, history
<1>1. TypeOK'
  BY DEF TypeOK, CheckpointOK, ProcessOK, Stages
<1>2. LoopsFit'
  BY DEF LoopsFit, Running
<1>3. MarkersFit'
  BY DEF MarkersFit, Running
<1>4. ReadBackFits'
  BY DEF ReadBackFits, Running
<1>5. PlanIsFresh'
  BY DEF PlanIsFresh
<1>6. ReplacedIsTrue'
  BY DEF ReplacedIsTrue, InManifest
<1>7. MarkersCoverMoves'
  BY DEF MarkersCoverMoves
<1>8. CleanIsReadBack'
  BY DEF CleanIsReadBack
<1> QED BY <1>1, <1>2, <1>3, <1>4, <1>5, <1>6, <1>7, <1>8

\* Somebody else's write is in drift until the record is read again.
LEMMA EditInv ==
  ASSUME IInv, NEW r \in Records, Edit(r)
  PROVE  IInv'
<1> USE DnsAssumption DEF IInv, Edit, checkpoint, process
<1>1. TypeOK'
  BY DEF TypeOK, CheckpointOK, ProcessOK
<1>2. LoopsFit'
  BY DEF LoopsFit, Running, Front
<1>3. MarkersFit'
  BY DEF MarkersFit, Scope, Eligible, Owners, InManifest, Running, Front
<1>4. ReadBackFits'
  BY DEF ReadBackFits, Scope, Eligible, Owners, InManifest, Arrived, Running,
    Front
<1>5. PlanIsFresh'
  BY DEF PlanIsFresh
<1>6. ReplacedIsTrue'
  BY DEF ReplacedIsTrue, InManifest
<1>7. MarkersCoverMoves'
  BY DEF MarkersCoverMoves
<1>8. CleanIsReadBack'
  BY DEF CleanIsReadBack, Eligible, Owners, InManifest, TypeOK
<1> QED BY <1>1, <1>2, <1>3, <1>4, <1>5, <1>6, <1>7, <1>8

\* A crash loses the process and an unsaved manifest.
LEMMA CrashInv ==
  ASSUME IInv, Crash
  PROVE  IInv'
<1> USE DnsAssumption DEF IInv, Crash, Idle, NoManifest, Fault, history
<1>1. TypeOK'
  <2>1. CheckpointOK'
    BY DEF TypeOK, CheckpointOK
  <2>2. ProcessOK'
    BY DEF TypeOK, ProcessOK
  <2> QED BY <2>1, <2>2 DEF TypeOK
<1>2. LoopsFit'
  BY DEF LoopsFit, Running
<1>3. MarkersFit'
  BY DEF MarkersFit
<1>4. ReadBackFits'
  BY DEF ReadBackFits, Running
<1>5. PlanIsFresh'
  BY DEF PlanIsFresh
<1>6. ReplacedIsTrue'
  BY DEF ReplacedIsTrue, InManifest
<1>7. MarkersCoverMoves'
  BY DEF MarkersCoverMoves, MarkersFit, LoopsFit
<1>8. CleanIsReadBack'
  BY DEF CleanIsReadBack, Eligible, Owners, InManifest
<1> QED BY <1>1, <1>2, <1>3, <1>4, <1>5, <1>6, <1>7, <1>8

\* The invariant holds before the preflight.
LEMMA InitInv == Init => IInv
<1> SUFFICES ASSUME Init PROVE IInv
  OBVIOUS
<1> USE DnsAssumption DEF Init, NoManifest
<1>1. TypeOK
  <2>1. CheckpointOK BY DEF CheckpointOK, Stages
  <2>2. ProcessOK BY DEF ProcessOK
  <2> QED BY <2>1, <2>2 DEF TypeOK
<1>2. LoopsFit BY DEF LoopsFit, Running
<1>3. MarkersFit BY DEF MarkersFit
<1>4. ReadBackFits BY DEF ReadBackFits, Running
<1>5. PlanIsFresh /\ ReplacedIsTrue /\ MarkersCoverMoves /\ CleanIsReadBack
  BY DEF PlanIsFresh, ReplacedIsTrue, MarkersCoverMoves, CleanIsReadBack
<1> QED BY <1>1, <1>2, <1>3, <1>4, <1>5 DEF IInv

\* No variable changes, nothing is disturbed.
LEMMA StutterInv ==
  ASSUME IInv, UNCHANGED vars
  PROVE  IInv'
<1> USE DEF vars, Front, Running, InManifest, Owners, Eligible, Scope
<1>1. TypeOK' BY DEF IInv, TypeOK, CheckpointOK, ProcessOK
<1>2. LoopsFit' /\ MarkersFit' BY DEF IInv, LoopsFit, MarkersFit
<1>3. ReadBackFits' BY DEF IInv, ReadBackFits, Arrived
<1>4. PlanIsFresh' BY DEF IInv, PlanIsFresh
<1>5. ReplacedIsTrue' /\ MarkersCoverMoves'
  BY DEF IInv, ReplacedIsTrue, MarkersCoverMoves
<1>6. CleanIsReadBack' BY DEF IInv, CleanIsReadBack
<1> QED BY <1>1, <1>2, <1>3, <1>4, <1>5, <1>6 DEF IInv

\* One lemma per action makes the invariant inductive.
LEMMA StepInv ==
  ASSUME IInv, [Next]_vars
  PROVE  IInv'
<1>1. CASE Command
  BY <1>1, PreflightInv, IpChangeInv, DeclareAnsibleInv, StartApplyInv,
    StartRollbackInv, StartDnsOnlyInv, VerifyInv DEF Command
<1>2. ASSUME NEW a \in Accounts, AccountStep(a)
      PROVE  IInv'
  BY <1>2, DiscoverInv, RunAccountInv, PatchedInv, AccountDoneInv,
    RequestFailsInv, ReadInv, PatchRefusedInv, ReadBackInv DEF AccountStep
<1>3. CASE Process
  BY <1>2, <1>3, PreflightedInv, RecordApplyInv, ReplacedInv,
    RecordRollbackInv, PatchInv DEF Process
<1>4. CASE Environment
  BY <1>4, CrashInv, EditInv DEF Environment
<1>5. CASE UNCHANGED vars
  BY <1>5, StutterInv
<1> QED BY <1>1, <1>3, <1>4, <1>5 DEF Next

-----------------------------------------------------------------------------
(* The theorems.                                                           *)

\* The inductive invariant holds in every reachable state, whatever the
\* accounts, their overlaps, and the number of edits, faults and crashes.
THEOREM DnsInvariance == Spec => []IInv
<1>1. Init => IInv BY InitInv
<1>2. IInv /\ [Next]_vars => IInv' BY StepInv
<1> QED BY <1>1, <1>2, PTL DEF Spec

\* Every variable has its type in every reachable state.
THEOREM DnsTypeCorrect == Spec => []TypeOK
<1>1. IInv => TypeOK BY DEF IInv
<1> QED BY <1>1, DnsInvariance, PTL

\* The PATCHes of a run follow what that run has read (classify, then PATCH).
THEOREM PlanFollowsRead == Spec => []PlanIsFresh
<1>1. IInv => PlanIsFresh BY DEF IInv
<1> QED BY <1>1, DnsInvariance, PTL

\* A replace that is on disk happened to every record of the manifest, over
\* any number of accounts, crashes and resumes (_step_cloudflare_replace).
THEOREM ReplaceIsTruthful == Spec => []ReplacedIsTrue
<1>1. IInv => ReplacedIsTrue BY DEF IInv
<1> QED BY <1>1, DnsInvariance, PTL

\* Wherever an apply dies, its markers cover what it PATCHed.
THEOREM MarkersAreEnough == Spec => []MarkersCoverMoves
<1>1. IInv => MarkersCoverMoves BY DEF IInv
<1> QED BY <1>1, DnsInvariance, PTL

\* A clean rollback verdict rests on a read-back of every eligible record
\* (_do_dns_rollback).
THEOREM CleanIsEarned == Spec => []CleanIsReadBack
<1>1. IInv => CleanIsReadBack BY DEF IInv
<1> QED BY <1>1, DnsInvariance, PTL

\* The records written by a run belong to the account in front.
LEMMA WritesInFront ==
  ASSUME IInv, Next, edits' = edits, NEW r \in Records, live'[r] # live[r]
  PROVE  /\ (stage = "preflighted" /\ IpChange) \/ (Running /\ Front(manifest[r]))
         /\ live'[r] = "new"
<1> USE DEF IInv, TypeOK, CheckpointOK, ProcessOK
<1>1. CASE IpChange
  BY <1>1 DEF IpChange
<1>2. ASSUME NEW q \in Records, Patch(q)
      PROVE  r = q /\ live'[r] = "new" /\ pc = "patch" /\ q \in todo
  BY <1>2, Addresses DEF Patch
<1>3. ASSUME NEW a \in Accounts, RequestFails(a)
      PROVE  live'[r] = "new" /\ pc = "patch" /\ r \in todo
  <2>1. PICK q \in todo : pc = "patch" /\ live' = [live EXCEPT ![q] = Target(op)]
    BY <1>3 DEF RequestFails
  <2> QED BY <2>1, Addresses
<1>4. ASSUME NEW q \in Records, Edit(q)
      PROVE  FALSE
  BY <1>4 DEF Edit
<1>5. CASE UNCHANGED live
  BY <1>5
<1>6. \/ UNCHANGED live \/ IpChange
      \/ \E q \in Records : Patch(q) \/ Edit(q)
      \/ \E a \in Accounts : RequestFails(a)
  BY DEF Next, Command, Process, Environment, AccountStep, Preflight,
    DeclareAnsible, StartApply, StartRollback, StartDnsOnly, Verify, Discover,
    RunAccount, Patched, AccountDone, Read, PatchRefused, ReadBack,
    Preflighted, RecordApply, Replaced, RecordRollback, Crash
<1> QED BY <1>1, <1>2, <1>3, <1>4, <1>6 DEF LoopsFit, Running

\* With markers on disk no rollback writes to an account without one.
THEOREM RollbackKeepsOut == Spec => RollbackStaysInMarkers
<1> DEFINE Stays == op # "apply" /\ started # {} /\ edits' = edits =>
      \A r \in Records : live'[r] # live[r] => manifest[r] \in started
<1>1. ASSUME IInv, [Next]_vars
      PROVE  Stays
  <2> SUFFICES ASSUME op # "apply", started # {}, edits' = edits,
                      NEW r \in Records, live'[r] # live[r]
               PROVE  manifest[r] \in started
    OBVIOUS
  <2>1. Next BY <1>1 DEF vars
  <2>2. Running /\ Front(manifest[r])
    BY <1>1, <2>1, WritesInFront DEF IInv, MarkersFit
  <2> QED BY <1>1, <2>2 DEF IInv, MarkersFit, Scope, Eligible, Front
<1>2. IInv /\ [Next]_vars => [Stays]_vars BY <1>1
<1> QED BY <1>2, DnsInvariance, PTL DEF Spec, RollbackStaysInMarkers

-----------------------------------------------------------------------------
(* Why a run over the accounts ends.                                       *)

\* An account that failed ends an apply, and is behind a rollback.
LEMMA FailureIsNearer ==
  ASSUME NEW a \in Accounts, Front(a), pc # "idle", RunFails(a)
  PROVE  Nearer
  BY DEF Front, RunFails, Idle, Nearer

\* One record, or one stage, further on with the account in front.
LEMMA FurtherOn ==
  ASSUME queue' = queue, pc # "idle",
         \/ Phase' < Phase
         \/ pc' = pc /\ ToGo' \subseteq ToGo /\ ToGo' # ToGo
  PROVE  Nearer
  BY DEF Nearer, Phase

\* A step with an account goes on with it, leaves it behind or ends the run,
\* unless the account's subprocess is run once more.
LEMMA AccountNearer ==
  ASSUME TypeOK, NEW a \in Accounts, AccountStep(a)
  PROVE  Nearer \/ faults' > faults
<1> USE DEF TypeOK, ProcessOK
<1>1. CASE Discover(a) BY <1>1 DEF Discover, Front, Idle, Nearer
<1>2. CASE RunAccount(a) BY <1>2, FurtherOn DEF RunAccount, Phase
<1>3. CASE Patched(a) BY <1>3, FurtherOn DEF Patched, Phase
<1>4. CASE AccountDone(a)
  BY <1>4, DnsAssumption DEF AccountDone, Front, Nearer, Fault
<1>5. CASE RequestFails(a) BY <1>5, FailureIsNearer DEF RequestFails
<1>6. ASSUME NEW r \in Records, Read(a, r)
      PROVE  Nearer
  <2>1. CASE RunFails(a) BY <1>6, <2>1, FailureIsNearer DEF Read
  <2>2. CASE ~RunFails(a)
    <3>1. /\ pc = "read" /\ queue' = queue
          /\ left' = left \ {r} /\ r \in left /\ pc' \in {"read", "patch"}
      BY <1>6, <2>2 DEF Read
    <3> QED BY <3>1, FurtherOn DEF Phase, ToGo
  <2> QED BY <2>1, <2>2
<1>7. ASSUME NEW r \in Records, PatchRefused(a, r)
      PROVE  Nearer
  BY <1>7, FailureIsNearer DEF PatchRefused
<1>8. ASSUME NEW r \in Records, ReadBack(a, r)
      PROVE  Nearer
  <2>1. CASE RunFails(a) BY <1>8, <2>1, FailureIsNearer DEF ReadBack
  <2>2. CASE ~RunFails(a)
    <3>1. /\ pc = "back" /\ pc' = "back" /\ queue' = queue
          /\ left' = left \ {r} /\ r \in left
      BY <1>8, <2>2 DEF ReadBack
    <3> QED BY <3>1, FurtherOn DEF ToGo
  <2> QED BY <2>1, <2>2
<1> QED BY <1>1, <1>2, <1>3, <1>4, <1>5, <1>6, <1>7, <1>8 DEF AccountStep

\* The steps with no account in front: the ends of the run, and a PATCH.
LEMMA ProcessNearer ==
  ASSUME TypeOK, Process
  PROVE  Nearer \/ faults' > faults
<1>1. CASE Preflighted BY <1>1 DEF Preflighted, Idle, Nearer
<1>2. CASE RecordApply BY <1>2, FurtherOn DEF RecordApply, Phase
<1>3. CASE Replaced BY <1>3 DEF Replaced, Idle, Nearer
<1>4. CASE RecordRollback BY <1>4 DEF RecordRollback, Idle, Nearer
<1>5. ASSUME NEW r \in Records, Patch(r)
      PROVE  Nearer
  <2>1. /\ pc = "patch" /\ pc' = "patch" /\ queue' = queue
        /\ todo' = todo \ {r} /\ r \in todo
    BY <1>5 DEF Patch
  <2> QED BY <2>1, FurtherOn DEF ToGo
<1> QED BY <1>1, <1>2, <1>3, <1>4, <1>5, AccountNearer DEF Process

\* A run over the accounts, apply or rollback, gets shorter with every step
\* but a second attempt, whatever the records hold and whoever writes them
\* (_do_apply, _do_dns_rollback, with_retries): over finitely many accounts
\* and records it cannot go round for ever.
THEOREM RunsAreFinite == Spec => RunsGetShorter
<1>1. ASSUME TypeOK, [Next]_vars
      PROVE  /\ Process => Nearer \/ faults' > faults
             /\ pc # "idle" => Nearer \/ SameRun \/ faults' > faults
  <2>1. CASE Process BY <1>1, <2>1, ProcessNearer
  <2>2. CASE ~Process
    <3>1. CASE Command
      BY <2>2, <3>1 DEF Command, Preflight, IpChange, DeclareAnsible, StartApply,
        StartRollback, StartDnsOnly, Verify
    <3>2. CASE Environment
      BY <2>2, <3>2 DEF Environment, Crash, Edit, Idle, Nearer, SameRun
    <3>3. CASE UNCHANGED vars BY <2>2, <3>3 DEF vars, SameRun, process
    <3> QED BY <1>1, <2>2, <3>1, <3>2, <3>3 DEF Next
  <2> QED BY <2>1, <2>2
<1>2. TypeOK /\ [Next]_vars =>
        [ /\ Process => Nearer \/ faults' > faults
          /\ pc # "idle" => Nearer \/ SameRun \/ faults' > faults ]_vars
  BY <1>1
<1> QED BY <1>2, DnsTypeCorrect, PTL DEF Spec, RunsGetShorter

-----------------------------------------------------------------------------
(* The refinement of DnsCutover.                                           *)

\* Records leave the old address for the new one, or stay.
Forwards == \A r \in Records :
  live'[r] = live[r] \/ (live[r] = "old" /\ live'[r] = "new")

\* Undisturbed, no step takes a record anywhere but from OLD to NEW.
LEMMA UndisturbedForwards ==
  ASSUME IInv, UndisturbedInv, Next, edits' = edits
  PROVE  Forwards
<1> SUFFICES ASSUME NEW r \in Records, live'[r] # live[r]
             PROVE  live[r] = "old" /\ live'[r] = "new"
  BY DEF Forwards
<1>1. live'[r] = "new" BY WritesInFront
<1>2. CASE IpChange BY <1>1, <1>2 DEF IpChange
<1>3. CASE Running /\ Front(manifest[r])
  <2>1. r \in InManifest
    BY <1>3, FrontIsOne, DnsAssumption DEF IInv, InManifest
  <2> QED BY <1>1, <2>1 DEF UndisturbedInv
<1> QED BY <1>2, <1>3, WritesInFront

\* A step that neither changes what is on disk about the records, but for
\* the stage, nor begins a scan or an apply.
Ordinary ==
  /\ UNCHANGED <<manifest, started, applied>>
  /\ drift' \subseteq drift
  /\ stage' = "confirmed" =>
       stage = "confirmed" /\ ansible' = ansible /\ live' = live
  /\ stage' # "confirmed" => stage # "confirmed"
  /\ pc' = "scan" => pc = "scan" /\ queue' = queue
  /\ op' = "apply" /\ Running' =>
       /\ op = "apply" /\ Running
       /\ queue' = queue \/ \E a \in started : queue' = queue \ {a}

\* A run that fails has been ordinary.
LEMMA FailureIsOrdinary ==
  ASSUME IInv, NEW a \in Accounts, Front(a), pc \in {"read", "patch", "back"},
         RunFails(a)
  PROVE  /\ pc' # "scan"
         /\ op' = "apply" /\ Running' => FALSE
  BY DEF RunFails, Idle, Running

\* All commands but those named here are ordinary.
LEMMA CommandOrdinary ==
  ASSUME IInv, UndisturbedInv, Command
  PROVE  Ordinary \/ Preflight \/ IpChange \/ StartApply
<1> USE DEF Ordinary, checkpoint, history, process
<1>1. CASE DeclareAnsible BY <1>1 DEF DeclareAnsible, Running
<1>2. CASE StartRollback
  BY <1>2 DEF StartRollback, Begin, Running, UndisturbedInv, DnsWasDone, IInv,
    MarkersFit
<1>3. CASE StartDnsOnly
  BY <1>3 DEF StartDnsOnly, Begin, Running, UndisturbedInv, DnsWasDone, IInv,
    MarkersFit
<1>4. CASE Verify BY <1>4 DEF Verify, Running
<1> QED BY <1>1, <1>2, <1>3, <1>4 DEF Command

\* So are the steps with an account but its discovery and its dispatch.
LEMMA AccountOrdinary ==
  ASSUME IInv, NEW a \in Accounts, AccountStep(a)
  PROVE  Ordinary \/ Discover(a) \/ RunAccount(a)
<1> USE DEF Ordinary, checkpoint, history
<1>1. CASE Patched(a) BY <1>1 DEF Patched, Running
<1>2. CASE AccountDone(a)
  BY <1>2 DEF AccountDone, Running, IInv, MarkersFit
<1>3. CASE RequestFails(a)
  <2>1. stage = "confirmed" => live' = live
    BY <1>3 DEF RequestFails, IInv, LoopsFit, Running
  <2> QED BY <1>3, <2>1, FailureIsOrdinary DEF RequestFails
<1>4. ASSUME NEW r \in Records, Read(a, r)
      PROVE  Ordinary
  <2>1. CASE RunFails(a) BY <1>4, <2>1, FailureIsOrdinary DEF Read
  <2>2. CASE ~RunFails(a) BY <1>4, <2>2 DEF Read, Running
  <2> QED BY <2>1, <2>2
<1>5. ASSUME NEW r \in Records, PatchRefused(a, r)
      PROVE  Ordinary
  BY <1>5, FailureIsOrdinary DEF PatchRefused
<1>6. ASSUME NEW r \in Records, ReadBack(a, r)
      PROVE  Ordinary
  <2>1. CASE RunFails(a) BY <1>6, <2>1, FailureIsOrdinary DEF ReadBack
  <2>2. CASE ~RunFails(a) BY <1>6, <2>2 DEF ReadBack, Running
  <2> QED BY <2>1, <2>2
<1> QED BY <1>1, <1>2, <1>3, <1>4, <1>5, <1>6 DEF AccountStep

\* And the other steps of a process but the saves that end scan and apply.
LEMMA ProcessOrdinary ==
  ASSUME IInv, Process
  PROVE  \/ Ordinary \/ Preflighted \/ RecordApply
         \/ \E a \in Accounts : Discover(a) \/ RunAccount(a)
<1> USE DEF Ordinary, checkpoint, history
<1>1. CASE Replaced
  BY <1>1 DEF Replaced, Idle, Running, IInv, LoopsFit
<1>2. CASE RecordRollback
  BY <1>2 DEF RecordRollback, Idle, Running, IInv, LoopsFit
<1>3. ASSUME NEW r \in Records, Patch(r)
      PROVE  Ordinary
  BY <1>3 DEF Patch, Running, IInv, LoopsFit
<1> QED BY <1>1, <1>2, <1>3, AccountOrdinary DEF Process

\* An ordinary step leaves what nobody has disturbed as it is.
LEMMA OrdinaryKeeps ==
  ASSUME IInv, UndisturbedInv, Forwards, Ordinary
  PROVE  UndisturbedInv'
<1> USE DEF UndisturbedInv, Forwards, Ordinary, Visible
<1>1. InManifest' = InManifest /\ Owners' = Owners
      /\ InManifest \subseteq Records
  BY DEF InManifest, Owners
<1>2. Visible' = Visible /\ Visible \subseteq Records BY DnsAssumption
<1>3. \A r \in Records : live'[r] \in {"old", "new", "other"} OBVIOUS
<1>4. \A r \in drift' : live'[r] = "new" BY DEF IInv, TypeOK
<1>5. stage' = "confirmed" =>
        /\ applied' = "none" /\ ansible' = "none"
        /\ \A r \in Records : live'[r] # "new"
  OBVIOUS
<1>6. pc' = "scan" => \A a \in Accounts \ queue' : \A r \in Sees[a] :
        live'[r] = "old" => manifest'[r] # Nobody
  <2> SUFFICES ASSUME pc' = "scan", NEW a \in Accounts \ queue', NEW r \in Sees[a],
                      live'[r] = "old"
               PROVE  manifest'[r] # Nobody
    OBVIOUS
  <2>1. r \in Records BY DnsAssumption
  <2>2. live[r] = "old" BY <2>1
  <2> QED BY <2>2
<1>7. \A r \in InManifest' : r \in Visible' /\ live'[r] # "other"
  BY <1>1, <1>2
<1>8. stage' # "confirmed" =>
        /\ InManifest' # {}
        /\ \A r \in Visible' : live'[r] # "other" => r \in InManifest'
  BY <1>1, <1>2
<1>9. op' = "apply" /\ Running' => Owners' \ queue' \subseteq started'
  BY <1>1
<1>10. applied' = "ok" =>
         started' # {} /\ \A r \in InManifest' : live'[r] = "new"
  BY <1>1
<1> HIDE DEF Forwards, Ordinary, Visible
<1> QED BY <1>3, <1>4, <1>5, <1>6, <1>7, <1>8, <1>9, <1>10

\* The scan of one account.
LEMMA DiscoverKeeps ==
  ASSUME IInv, UndisturbedInv, NEW a \in Accounts, Discover(a)
  PROVE  UndisturbedInv'
<1> USE DnsAssumption DEF Discover
<1>1. /\ live' = live /\ drift' \subseteq drift /\ stage' = stage
      /\ started' = started /\ applied' = applied /\ ansible' = ansible
      /\ stage = "confirmed"
  BY DEF IInv, LoopsFit
<1>2. applied = "none" /\ ~Running' BY <1>1 DEF UndisturbedInv, Running, Idle
<1>3. pc' = "scan" =>
        /\ queue' = queue \ {a}
        /\ manifest' = Claim(a, {r \in Sees[a] : live[r] = "old"})
  BY DEF Idle
<1>4. pc' = "scan" => \A b \in Accounts \ queue' : \A r \in Sees[b] :
        live'[r] = "old" => manifest'[r] # Nobody
  <2> SUFFICES ASSUME pc' = "scan", NEW b \in Accounts \ queue', NEW r \in Sees[b],
                      live[r] = "old"
               PROVE  manifest'[r] # Nobody
    BY <1>1
  <2>1. r \in Records OBVIOUS
  <2>2. CASE b = a BY <1>3, <2>1, <2>2 DEF Claim
  <2>3. CASE b # a
    <3>1. manifest[r] # Nobody BY <1>3, <2>3 DEF UndisturbedInv
    <3> QED BY <1>3, <2>1, <3>1 DEF Claim
  <2> QED BY <2>2, <2>3
<1>5. \A r \in InManifest' : r \in Visible' /\ live'[r] # "other"
  <2> SUFFICES ASSUME NEW r \in Records, manifest'[r] # Nobody
               PROVE  r \in Visible /\ live[r] # "other"
    BY <1>1 DEF InManifest, Visible
  <2>1. manifest' = Claim(a, {q \in Sees[a] : live[q] = "old"})
    BY DEF NoManifest
  <2>2. CASE r \in Sees[a] /\ live[r] = "old" BY <2>2 DEF Visible
  <2>3. CASE ~(r \in Sees[a] /\ live[r] = "old")
    <3>1. manifest[r] # Nobody BY <2>1, <2>3 DEF Claim
    <3> QED BY <3>1 DEF UndisturbedInv, InManifest
  <2> QED BY <2>2, <2>3
<1> QED BY <1>1, <1>2, <1>4, <1>5 DEF UndisturbedInv

\* The manifest that is saved has every record that is not somebody else's.
LEMMA PreflightedKeeps ==
  ASSUME IInv, UndisturbedInv, Preflighted
  PROVE  UndisturbedInv'
<1> USE DnsAssumption DEF Preflighted, Idle
<1>1. /\ live' = live /\ drift' = drift /\ manifest' = manifest
      /\ started' = started /\ applied' = applied /\ ansible' = ansible
      /\ stage = "confirmed" /\ InManifest' = InManifest /\ Visible' = Visible
  BY DEF IInv, LoopsFit, history, InManifest, Visible
<1>2. \A r \in Visible : live[r] # "other" => r \in InManifest
  <2> SUFFICES ASSUME NEW a \in Accounts, NEW r \in Sees[a], live[r] # "other"
               PROVE  r \in InManifest
    BY DEF Visible
  <2>1. r \in Records OBVIOUS
  <2>2. live[r] = "old" BY <1>1, <2>1 DEF UndisturbedInv
  <2> QED BY <2>1, <2>2 DEF UndisturbedInv, InManifest
<1>3. stage' # "confirmed" => InManifest # {} BY <1>1
<1>4. applied = "none" /\ ~Running' /\ pc' # "scan"
  BY <1>1 DEF UndisturbedInv, Running
<1> QED BY <1>1, <1>2, <1>3, <1>4 DEF UndisturbedInv

\* What ip-change moves, it moves to the new address.
LEMMA IpChangeKeeps ==
  ASSUME IInv, UndisturbedInv, Forwards, IpChange
  PROVE  UndisturbedInv'
<1> USE DEF IpChange
<1>1. /\ manifest' = manifest /\ started' = started /\ applied' = applied
      /\ pc' = pc /\ op' = op /\ queue' = queue /\ pc = "idle"
      /\ stage # "confirmed" /\ stage' # "confirmed"
  BY DEF process
<1>2. /\ InManifest' = InManifest /\ Owners' = Owners /\ Visible' = Visible
      /\ Visible \subseteq Records /\ InManifest \subseteq Records
  BY <1>1, DnsAssumption DEF InManifest, Owners, Visible
<1>3. \A r \in drift' : live'[r] = "new"
  BY DEF Forwards, UndisturbedInv, IInv, TypeOK
<1>4. ~Running' BY <1>1 DEF Running
<1>5. \A r \in Records : live'[r] \in {"old", "new", "other"}
  BY DEF Forwards, UndisturbedInv
<1>6. \A r \in Records : /\ live'[r] = "other" <=> live[r] = "other"
                         /\ live[r] = "new" => live'[r] = "new"
  BY DEF Forwards
<1> QED BY <1>1, <1>2, <1>3, <1>4, <1>5, <1>6 DEF UndisturbedInv

\* The steps that begin a scan or an apply, dispatch an account or record
\* the apply, and the crash.
LEMMA SavesKeep ==
  ASSUME IInv, UndisturbedInv,
         \/ Preflight \/ StartApply \/ RecordApply \/ Crash
         \/ \E a \in Accounts : RunAccount(a)
  PROVE  UndisturbedInv'
<1>1. live' = live /\ drift' = drift /\ stage' = stage /\ ansible' = ansible
  BY DEF Preflight, StartApply, RecordApply, Crash, RunAccount, checkpoint,
    history
<1>2. Visible' = Visible BY DEF Visible
<1>3. CASE Preflight
  <2>1. /\ manifest' = manifest /\ started' = started /\ applied' = applied
        /\ queue' = Accounts /\ ~Running'
    BY <1>3 DEF Preflight, checkpoint, Running
  <2> QED BY <1>1, <1>2, <2>1 DEF UndisturbedInv, InManifest
<1>4. CASE StartApply
  <2>1. /\ manifest' = manifest /\ started' = started /\ applied' = applied
        /\ queue' = Owners /\ pc' # "scan"
    BY <1>4 DEF StartApply, checkpoint, Begin
  <2> QED BY <1>1, <1>2, <2>1 DEF UndisturbedInv, InManifest, Owners
<1>5. CASE RecordApply
  <2>1. /\ manifest' = manifest /\ started' = started
        /\ op = "apply" /\ pc = "next" /\ queue = {} /\ queue' = {} /\ pc' # "scan"
        /\ stage = "ansible_done"
    BY <1>5 DEF RecordApply, IInv, LoopsFit, Running
  <2>2. \A r \in InManifest : live[r] = "new"
    BY <2>1, Addresses DEF IInv, LoopsFit, ReadBackFits, Running, Scope,
      Owners, Arrived, UndisturbedInv
  <2>3. Owners \subseteq started BY <2>1 DEF UndisturbedInv, Running
  <2>4. started # {} BY <2>1, <2>3 DEF UndisturbedInv, Owners
  <2> QED BY <1>1, <1>2, <2>1, <2>2, <2>3, <2>4
          DEF UndisturbedInv, InManifest, Owners
<1>6. CASE Crash
  <2>1. /\ started' = started /\ applied' = applied /\ pc' = "idle" /\ ~Running'
        /\ manifest' = IF pc = "scan" THEN NoManifest ELSE manifest
    BY <1>6 DEF Crash, Idle, Running
  <2>2. pc = "scan" => stage = "confirmed" BY DEF IInv, LoopsFit
  <2>3. InManifest' \subseteq InManifest /\ (pc # "scan" => InManifest' = InManifest)
    BY <2>1 DEF InManifest, NoManifest
  <2> QED BY <1>1, <1>2, <2>1, <2>2, <2>3 DEF UndisturbedInv
<1>7. ASSUME NEW a \in Accounts, RunAccount(a)
      PROVE  UndisturbedInv'
  <2>1. /\ manifest' = manifest /\ applied' = applied /\ op' = op
        /\ queue' = queue /\ started \subseteq started'
        /\ Running /\ pc' # "scan"
    BY <1>7 DEF RunAccount, Running
  <2> QED BY <1>1, <1>2, <2>1 DEF UndisturbedInv, InManifest, Owners
<1> QED BY <1>3, <1>4, <1>5, <1>6, <1>7

\* As long as nobody else has written, UndisturbedInv is inductive.
LEMMA CutoverKeeps ==
  ASSUME IInv, CutoverInv, [Next]_vars
  PROVE  CutoverInv'
<1> SUFFICES ASSUME edits' = 0 PROVE UndisturbedInv'
  BY DEF CutoverInv
<1>1. CASE UNCHANGED vars
  <2>1. /\ live' = live /\ drift' = drift /\ stage' = stage /\ applied' = applied
        /\ ansible' = ansible /\ started' = started /\ manifest' = manifest
        /\ pc' = pc /\ queue' = queue /\ op' = op /\ edits' = edits
    BY <1>1 DEF vars
  <2> QED BY <2>1 DEF CutoverInv, UndisturbedInv, InManifest, Owners, Visible,
          Running
<1>2. CASE Next
  <2>1. \A r \in Records : ~Edit(r) BY DEF Edit, IInv, TypeOK
  <2>2. edits' = edits
    BY <1>2, <2>1 DEF Next, Command, Process, Environment, AccountStep,
      Preflight, IpChange, DeclareAnsible, StartApply, StartRollback,
      StartDnsOnly, Verify, Discover, RunAccount, Patched, AccountDone,
      RequestFails, Read, PatchRefused, ReadBack, Preflighted, RecordApply,
      Replaced, RecordRollback, Patch, Crash
  <2>3. UndisturbedInv BY <2>2 DEF CutoverInv
  <2>4. Forwards BY <1>2, <2>2, <2>3, UndisturbedForwards
  <2> QED BY <1>2, <2>1, <2>3, <2>4, CommandOrdinary, ProcessOrdinary,
          OrdinaryKeeps, DiscoverKeeps, PreflightedKeeps, IpChangeKeeps,
          SavesKeep DEF Next, Environment
<1> QED BY <1>1, <1>2

\* What the steps of CloudflareDns are in DnsCutover: somebody else's write
\* and whatever comes after it; ...
LEMMA DisturbedImplements ==
  ASSUME TypeOK, TypeOK', edits' > 0
  PROVE  [Cutover!Next]_(Cutover!vars)
<1>1. Summary' \in {"none", "old", "mixed", "new"} BY DEF Summary
<1>2. Claimed' \in {"none", "started", "ok"} BY DEF Claimed
<1>3. (edits > 0)' = TRUE /\ (edits > 0) \in BOOLEAN BY DEF TypeOK
<1>4. Cutover!Disturb("this")
  BY <1>1, <1>2, <1>3 DEF Cutover!Disturb, Cutover!TypeOK
<1> QED BY <1>4 DEF Cutover!Next, Cutover!Step

LEMMA OwnSteps ==
  ASSUME edits = 0,
         Cutover!Move("this") \/ Cutover!Start("this") \/ Cutover!Claim("this")
  PROVE  Cutover!Next
<1>1. ~ (edits > 0) OBVIOUS
<1>2. Cutover!Step("this") BY <1>1, Zenon DEF Cutover!Step
<1> QED BY <1>2 DEF Cutover!Next

\* ... records that move from OLD to NEW; ...
LEMMA ForwardsImplements ==
  ASSUME TypeOK, edits = 0, edits' = 0, Claimed' = Claimed, Forwards,
         \A r \in Records : live[r] \in {"old", "new", "other"}
  PROVE  [Cutover!Next]_(Cutover!vars)
<1>1. Visible' = Visible /\ Visible \subseteq Records
  BY DnsAssumption DEF Visible
<1>2. /\ SomeAt("new") => SomeAt("new")'
      /\ SomeAt("old")' => SomeAt("old")
      /\ SomeAt("old") => SomeAt("old")' \/ SomeAt("new")'
      /\ ~SomeAt("old") /\ ~SomeAt("new") => ~SomeAt("new")'
  BY <1>1 DEF SomeAt, Forwards
<1>3. \/ Summary' = Summary
      \/ Summary = "old" /\ Summary' = "mixed"
      \/ Summary \in {"old", "mixed"} /\ Summary' = "new"
  BY <1>2 DEF Summary
<1>4. CASE Summary' = Summary BY <1>4 DEF Cutover!vars
<1>5. CASE Summary' # Summary
  <2>1. Cutover!Move("this") BY <1>3, <1>5 DEF Cutover!Move
  <2> QED BY <2>1, OwnSteps
<1> QED BY <1>4, <1>5

\* ... the first marker of an apply, with records to move; ...
LEMMA MarkerImplements ==
  ASSUME IInv, UndisturbedInv, edits = 0, edits' = 0,
         NEW a \in Accounts, RunAccount(a)
  PROVE  [Cutover!Next]_(Cutover!vars)
<1>1. live' = live /\ applied' = applied BY DEF RunAccount
<1>2. Summary' = Summary BY <1>1 DEF Summary, SomeAt, Visible
<1>3. CASE Claimed' = Claimed BY <1>2, <1>3 DEF Cutover!vars
<1>4. CASE Claimed' # Claimed
  <2>1. Claimed' = "started" BY <1>1, <1>4 DEF Claimed, RunAccount
  <2>2. stage # "confirmed"
    BY DEF RunAccount, IInv, LoopsFit, Running
  <2>3. PICK r \in InManifest : r \in Visible /\ live[r] # "other"
    BY <2>2 DEF UndisturbedInv
  <2>4. SomeAt("old") \/ SomeAt("new")
    BY <2>3 DEF SomeAt, UndisturbedInv, InManifest
  <2>5. Summary # "none" BY <2>4 DEF Summary
  <2>6. Cutover!Start("this") BY <1>2, <2>1, <2>5 DEF Cutover!Start
  <2> QED BY <2>6, OwnSteps
<1> QED BY <1>3, <1>4

\* ... and the apply that is recorded, with every record on NEW.
LEMMA RecordImplements ==
  ASSUME IInv, UndisturbedInv, UndisturbedInv', edits = 0, edits' = 0, RecordApply
  PROVE  [Cutover!Next]_(Cutover!vars)
<1>1. live' = live /\ started' = started /\ manifest' = manifest /\ applied' = "ok"
  BY DEF RecordApply, history
<1>2. Summary' = Summary BY <1>1 DEF Summary, SomeAt, Visible
<1>3. CASE applied = "ok" BY <1>1, <1>2, <1>3 DEF Claimed, Cutover!vars
<1>4. CASE applied # "ok"
  <2>1. started # {} /\ \A r \in InManifest : live[r] = "new"
    BY <1>1 DEF UndisturbedInv, InManifest
  <2>2. Claimed = "started" /\ Claimed' = "ok" BY <1>1, <1>4, <2>1 DEF Claimed
  <2>3. stage # "confirmed"
    BY DEF RecordApply, IInv, LoopsFit, Running
  <2>4. SomeAt("new") /\ ~SomeAt("old")
    BY <2>1, <2>3 DEF SomeAt, UndisturbedInv
  <2>5. Summary = "new" BY <2>4 DEF Summary
  <2>6. Cutover!Claim("this") BY <1>2, <2>2, <2>5 DEF Cutover!Claim
  <2> QED BY <2>6, OwnSteps
<1> QED BY <1>3, <1>4

\* Every step is a step of DnsCutover or none.
LEMMA StepImplements ==
  ASSUME IInv, IInv', CutoverInv, CutoverInv', [Next]_vars
  PROVE  [Cutover!Next]_(Cutover!vars)
<1>1. TypeOK /\ TypeOK' BY DEF IInv
<1>2. CASE edits' > 0 BY <1>1, <1>2, DisturbedImplements
<1>3. CASE UNCHANGED vars
  <2>1. /\ live' = live /\ applied' = applied /\ started' = started
        /\ edits' = edits
    BY <1>3 DEF vars
  <2> QED BY <2>1 DEF Cutover!vars, Claimed, Summary, SomeAt, Visible
<1>4. CASE Next /\ edits' = 0
  <2>0. \A r \in Records : ~Edit(r) BY <1>1, <1>4 DEF Edit, TypeOK
  <2>1. edits' = edits
    BY <1>4, <2>0 DEF Next, Command, Process, Environment, AccountStep,
      Preflight, IpChange, DeclareAnsible, StartApply, StartRollback,
      StartDnsOnly, Verify, Discover, RunAccount, Patched, AccountDone,
      RequestFails, Read, PatchRefused, ReadBack, Preflighted, RecordApply,
      Replaced, RecordRollback, Patch, Crash
  <2>2. UndisturbedInv /\ UndisturbedInv' BY <1>4, <2>1 DEF CutoverInv
  <2>3. Forwards BY <1>4, <2>1, <2>2, UndisturbedForwards
  <2>4. \A r \in Records : live[r] \in {"old", "new", "other"}
    BY <2>2 DEF UndisturbedInv
  <2>5. CASE started' = started /\ applied' = applied
    <3>1. Claimed' = Claimed BY <2>5 DEF Claimed
    <3> QED BY <1>1, <1>4, <2>1, <2>3, <2>4, <3>1, ForwardsImplements
  <2>6. CASE RecordApply BY <1>4, <2>1, <2>2, <2>6, RecordImplements
  <2>7. CASE \E a \in Accounts : RunAccount(a)
    BY <1>4, <2>1, <2>2, <2>7, MarkerImplements
  <2>8. CASE Environment
    BY <2>0, <2>5, <2>8 DEF Environment, Crash, checkpoint
  <2>9. \/ started' = started /\ applied' = applied
        \/ RecordApply \/ Environment \/ \E a \in Accounts : RunAccount(a)
    BY <1>4, <2>2, CommandOrdinary, ProcessOrdinary
       DEF Next, Ordinary, Preflight, IpChange, StartApply, Preflighted,
           Discover, checkpoint
  <2> QED BY <2>5, <2>6, <2>7, <2>8, <2>9
<1> QED BY <1>1, <1>2, <1>3, <1>4 DEF TypeOK

\* Record by record and account by account, with tokens that overlap, dead
\* processes, lost effects and rollbacks, the records of a rotation go
\* through a DnsCutover until somebody else writes one: the word HcloudRotation
\* has for them moves as it says, and cloudflare_apply is `ok` only when all
\* that were on the old address are on the new one.
THEOREM DnsRefinement == Spec => ImplementsCutover
<1>1. Init => CutoverInv /\ Cutover!Init
  <2> SUFFICES ASSUME Init PROVE CutoverInv /\ Cutover!Init
    OBVIOUS
  <2>1. UndisturbedInv
    BY DnsAssumption DEF Init, UndisturbedInv, InManifest, NoManifest, Running
  <2>2. Summary \in {"none", "old"}
    BY DnsAssumption DEF Init, Summary, SomeAt, Visible
  <2>3. Claimed = "none" /\ (edits > 0) = FALSE BY DEF Init, Claimed
  <2> QED BY <2>1, <2>2, <2>3 DEF CutoverInv, Cutover!Init
<1>2. IInv /\ IInv' /\ CutoverInv /\ [Next]_vars =>
        CutoverInv' /\ [Cutover!Next]_(Cutover!vars)
  BY CutoverKeeps, StepImplements
<1> QED BY <1>1, <1>2, DnsInvariance, PTL DEF Spec, ImplementsCutover, Cutover!Spec

=============================================================================
