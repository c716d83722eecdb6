---------------------- MODULE DataForestRotationProofs ----------------------
(***************************************************************************)
(* Proofs about DataForestRotation, for every set of addresses the         *)
(* provider may hand out, every limit, every set of pauses and any number  *)
(* of faults.  IInv is inductive: one lemma per group of actions, one step *)
(* per action and one leaf per part of IInv.  The safety properties and    *)
(* the refinement of AddressHandover follow from it.                       *)
(***************************************************************************)
EXTENDS DataForestRotation, TLAPS

USE DEF ApplyStates, FinalizeStates, StageStates, PlanStates, States, Restore,
        GuestPauses, DnsPauses, Pausable, NeedsDf, NeedsCf, Programs,
        Addresses, RollbackStates, RollbackPrograms, GuestProved, GuestHasNew,
        SeedHasNew, OldReleased

USE DEF control, record, guest, cloud, names, Fault, NoFault, Idle, Saved, At,
        Runs, Goto, Ends, Exit, Leave, Escalate, Fail, Answered, Settled,
        Both, OnOld, IInv

-----------------------------------------------------------------------------
(* IInv is inductive.                                                      *)

\* The table of the steps, entry by entry.
LEMMA StepTable ==
  /\ DOMAIN StepTo = ApplyStates \cup FinalizeStates
  /\ StepTo["confirmed"] = "dataforest_preflighted"
  /\ StepTo["dataforest_preflighted"] = "new_ip_allocated"
  /\ StepTo["new_ip_allocated"] = "guest_configured"
  /\ StepTo["guest_configured"] = "guest_verified"
  /\ StepTo["guest_verified"] = "cloudflare_preflighted"
  /\ StepTo["cloudflare_preflighted"] = "ansible_done"
  /\ StepTo["ansible_done"] = "cloudflare_replaced"
  /\ StepTo["cloudflare_replaced"] = "awaiting_finalize"
  /\ StepTo["awaiting_finalize"] = "dns_finalize_verified"
  /\ StepTo["dns_finalize_verified"] = "finalizing_started"
  /\ StepTo["finalizing_started"] = "guest_pre_finalized"
  /\ StepTo["guest_pre_finalized"] = "old_ip_removed"
  /\ StepTo["old_ip_removed"] = "guest_finalized"
  /\ StepTo["guest_finalized"] = "done"
  /\ \A s \in DOMAIN StepTo : StepTo[s] \in States
  BY DEF StepTo

\* A stage of the staged rollback preserves the invariant.
LEMMA StageKeeps ==
  ASSUME IInv, Stage
  PROVE  IInv'
<1>1. CASE StageDns
  <2> USE <1>1 DEF StageDns
  <2>1. TypeOK' BY DEF TypeOK, ControlOK, RecordOK, WorldOK
  <2>2. ControlInv' BY AddressAssumption, StepTable DEF TypeOK, ControlOK,
      RecordOK, WorldOK, ControlInv, AllocationInv, RollbackInv
  <2>3. ServingInv' BY DEF ServingInv, Past
  <2>4. RollbackInv' BY DEF RollbackInv
  <2>5. FinalizeInv' BY DEF FinalizeInv, Past, Proven
  <2>6. AllocationInv' /\ NamesInv' BY DEF AllocationInv, NamesInv
  <2> QED BY <2>1, <2>2, <2>3, <2>4, <2>5, <2>6
<1>2. CASE StageInventory
  <2> USE <1>2 DEF StageInventory
  <2>1. TypeOK' BY DEF TypeOK, ControlOK, RecordOK, WorldOK
  <2>2. ControlInv' BY DEF ControlInv
  <2>3. ServingInv' BY DEF ServingInv, Past
  <2>4. RollbackInv' BY DEF RollbackInv
  <2>5. FinalizeInv' BY DEF FinalizeInv, Past, Proven
  <2>6. AllocationInv' /\ NamesInv' BY DEF AllocationInv, NamesInv
  <2> QED BY <2>1, <2>2, <2>3, <2>4, <2>5, <2>6
<1>3. CASE StageGuest
  <2> USE <1>3 DEF StageGuest, GuestRestored
  <2>1. ControlOK' BY DEF TypeOK, ControlOK
  <2>2. RecordOK' BY DEF TypeOK, RecordOK
  <2>3. WorldOK' BY DEF TypeOK, WorldOK
  <2>4. ControlInv' BY DEF ControlInv
  <2>5. ServingInv' BY DEF ServingInv, Past
  <2>6. RollbackInv' BY DEF RollbackInv
  <2>7. FinalizeInv' BY DEF FinalizeInv, Past, Proven
  <2>8. AllocationInv' /\ NamesInv' BY DEF AllocationInv, NamesInv
  <2> QED BY <2>1, <2>2, <2>3, <2>4, <2>5, <2>6, <2>7, <2>8 DEF TypeOK
<1>4. CASE StageGuestFails
  <2> USE <1>4 DEF StageGuestFails
  <2>1. TypeOK' BY DEF TypeOK, ControlOK, RecordOK, WorldOK
  <2>2. ControlInv' BY DEF ControlInv
  <2>3. ServingInv' BY DEF ServingInv, Past
  <2>4. RollbackInv' BY DEF RollbackInv
  <2>5. FinalizeInv' BY DEF FinalizeInv, Past, Proven
  <2>6. AllocationInv' /\ NamesInv' BY DEF AllocationInv, NamesInv
  <2> QED BY <2>1, <2>2, <2>3, <2>4, <2>5, <2>6
<1>5. CASE StageProvider
  <2> USE <1>5 DEF StageProvider, EarlierStages
  <2>1. ControlOK' BY DEF TypeOK, ControlOK
  <2>2. RecordOK' BY DEF TypeOK, RecordOK
  <2>3. WorldOK' BY DEF TypeOK, WorldOK
  <2>4. ControlInv' BY DEF ControlInv
  <2>5. ServingInv' BY DEF ServingInv, Past
  <2>6. RollbackInv' BY DEF RollbackInv
  <2>7. FinalizeInv' BY DEF FinalizeInv, Past, Proven
  <2>8. AllocationInv' /\ NamesInv' BY DEF AllocationInv, NamesInv
  <2> QED BY <2>1, <2>2, <2>3, <2>4, <2>5, <2>6, <2>7, <2>8 DEF TypeOK
<1> QED BY <1>1, <1>2, <1>3, <1>4, <1>5 DEF Stage

\* A command of the operator preserves the invariant.
LEMMA CommandKeeps ==
  ASSUME IInv, Command
  PROVE  IInv'
<1>1. CASE PlanRead
  <2> USE <1>1 DEF PlanRead
  <2>1. TypeOK' BY DEF TypeOK, ControlOK, RecordOK, WorldOK
  <2>2. ControlInv' BY DEF ControlInv
  <2>3. ServingInv' BY DEF ServingInv, Past
  <2>4. RollbackInv' BY DEF RollbackInv
  <2>5. FinalizeInv' BY DEF FinalizeInv, Past, Proven
  <2>6. AllocationInv' /\ NamesInv' BY DEF AllocationInv, NamesInv
  <2> QED BY <2>1, <2>2, <2>3, <2>4, <2>5, <2>6
<1>2. CASE Resume
  <2> USE <1>2 DEF Resume, ResumeTokens
  <2>1. ControlOK' BY AddressAssumption, PausesAssumption DEF TypeOK,
      ControlOK, RecordOK, WorldOK
  <2>2. RecordOK' BY DEF TypeOK, RecordOK
  <2>3. WorldOK' BY DEF TypeOK, WorldOK
  <2>4. ControlInv' BY DEF ControlInv
  <2>5. ServingInv' BY DEF ServingInv, Past
  <2>6. RollbackInv' BY DEF RollbackInv
  <2>7. FinalizeInv' BY DEF FinalizeInv, Past, Proven
  <2>8. AllocationInv' /\ NamesInv' BY DEF AllocationInv, NamesInv
  <2> QED BY <2>1, <2>2, <2>3, <2>4, <2>5, <2>6, <2>7, <2>8 DEF TypeOK
<1>3. CASE ResumeWrongRemedy
  <2> USE <1>3 DEF ResumeWrongRemedy
  <2>1. TypeOK' BY DEF TypeOK, ControlOK, RecordOK, WorldOK
  <2>2. ControlInv' BY DEF ControlInv
  <2>3. ServingInv' BY DEF ServingInv, Past
  <2>4. RollbackInv' BY DEF RollbackInv
  <2>5. FinalizeInv' BY DEF FinalizeInv, Past, Proven
  <2>6. AllocationInv' /\ NamesInv' BY DEF AllocationInv, NamesInv
  <2> QED BY <2>1, <2>2, <2>3, <2>4, <2>5, <2>6
<1>4. CASE Finalize
  <2> USE <1>4 DEF Finalize
  <2>1. TypeOK' BY DEF TypeOK, ControlOK, RecordOK, WorldOK
  <2>2. ControlInv' BY DEF ControlInv
  <2>3. ServingInv' BY DEF ServingInv, Past
  <2>4. RollbackInv' BY DEF RollbackInv
  <2>5. FinalizeInv' BY DEF FinalizeInv, Past, Proven
  <2>6. AllocationInv' /\ NamesInv' BY DEF AllocationInv, NamesInv
  <2> QED BY <2>1, <2>2, <2>3, <2>4, <2>5, <2>6
<1>5. CASE FinalizePrecheck
  <2> USE <1>5 DEF FinalizePrecheck, PrecheckPasses
  <2>1. TypeOK' BY DEF TypeOK, ControlOK, RecordOK, WorldOK
  <2>2. ControlInv' BY StepTable DEF ControlInv
  <2>3. ServingInv' BY DEF ServingInv, Past
  <2>4. RollbackInv' BY DEF RollbackInv
  <2>5. FinalizeInv' BY DEF FinalizeInv, Past, Proven
  <2>6. AllocationInv' BY DEF AllocationInv
  <2>7. NamesInv' BY DEF NamesInv
  <2> QED BY <2>1, <2>2, <2>3, <2>4, <2>5, <2>6, <2>7
<1>6. CASE ProviderFinalize
  <2> USE <1>6 DEF ProviderFinalize
  <2>1. TypeOK' BY DEF TypeOK, ControlOK, RecordOK, WorldOK
  <2>2. ControlInv' BY DEF ControlInv
  <2>3. ServingInv' BY DEF ServingInv, Past
  <2>4. RollbackInv' BY DEF RollbackInv
  <2>5. FinalizeInv' BY DEF FinalizeInv, Past, Proven
  <2>6. AllocationInv' /\ NamesInv' BY DEF AllocationInv, NamesInv
  <2> QED BY <2>1, <2>2, <2>3, <2>4, <2>5, <2>6
<1>7. CASE Rollback
  <2> USE <1>7 DEF Rollback
  <2>1. TypeOK' BY DEF TypeOK, ControlOK, RecordOK, WorldOK
  <2>2. ControlInv' BY DEF ControlInv
  <2>3. ServingInv' BY DEF ServingInv, Past
  <2>4. RollbackInv' BY DEF RollbackInv
  <2>5. FinalizeInv' BY DEF FinalizeInv, Past, Proven
  <2>6. AllocationInv' /\ NamesInv' BY DEF AllocationInv, NamesInv
  <2> QED BY <2>1, <2>2, <2>3, <2>4, <2>5, <2>6
<1>8. CASE Stage BY <1>8, StageKeeps
<1>9. CASE IdentityCheck
  <2> USE <1>9 DEF IdentityCheck
  <2>1. TypeOK' BY DEF TypeOK, ControlOK, RecordOK, WorldOK
  <2>2. ControlInv' BY DEF ControlInv
  <2>3. ServingInv' BY DEF ServingInv, Past
  <2>4. RollbackInv' BY DEF RollbackInv
  <2>5. FinalizeInv' BY DEF FinalizeInv, Past, Proven
  <2>6. AllocationInv' /\ NamesInv' BY DEF AllocationInv, NamesInv
  <2> QED BY <2>1, <2>2, <2>3, <2>4, <2>5, <2>6
<1> QED BY <1>1, <1>2, <1>3, <1>4, <1>5, <1>6, <1>7, <1>8, <1>9 DEF Command

\* A step of the apply half preserves the invariant.
LEMMA ApplyStepKeeps ==
  ASSUME IInv, ApplyStep
  PROVE  IInv'
<1>1. CASE Preflight
  <2> USE <1>1 DEF Preflight
  <2>1. ControlOK' BY DEF TypeOK, ControlOK
  <2>2. RecordOK' BY DEF TypeOK, RecordOK
  <2>3. WorldOK' BY DEF TypeOK, WorldOK
  <2>4. ControlInv' BY StepTable DEF ControlInv
  <2>5. ServingInv' BY DEF ServingInv, Past
  <2>6. RollbackInv' BY DEF RollbackInv
  <2>7. FinalizeInv' BY DEF FinalizeInv, Past, Proven
  <2>8. AllocationInv' /\ NamesInv' BY DEF AllocationInv, NamesInv
  <2> QED BY <2>1, <2>2, <2>3, <2>4, <2>5, <2>6, <2>7, <2>8 DEF TypeOK
<1>2. CASE Allocate
  <2> USE <1>2 DEF Allocate
  <2>1. ControlOK' BY DEF TypeOK, ControlOK
  <2>2. RecordOK' BY DEF TypeOK, RecordOK
  <2>3. WorldOK' BY DEF TypeOK, WorldOK
  <2>4. ControlInv' BY StepTable DEF ControlInv
  <2>5. ServingInv' BY DEF ServingInv, Past
  <2>6. RollbackInv' BY DEF RollbackInv
  <2>7. FinalizeInv' BY DEF FinalizeInv, Past, Proven
  <2>8. AllocationInv' BY DEF AllocationInv
  <2>9. NamesInv' BY DEF NamesInv
  <2> QED BY <2>1, <2>2, <2>3, <2>4, <2>5, <2>6, <2>7, <2>8, <2>9 DEF TypeOK
<1>3. CASE AddPost
  <2> USE <1>3 DEF AddPost
  <2>1. ControlOK' BY DEF TypeOK, ControlOK
  <2>2. RecordOK' BY DEF TypeOK, RecordOK
  <2>3. WorldOK' BY DEF TypeOK, WorldOK
  <2>4. ControlInv' BY DEF ControlInv
  <2>5. ServingInv' BY DEF ServingInv, Past
  <2>6. RollbackInv' BY StepTable, AddressAssumption DEF RollbackInv,
      ControlInv, TypeOK, RecordOK, WorldOK
  <2>7. FinalizeInv' BY StepTable, AddressAssumption DEF FinalizeInv, Past,
      Proven, ControlInv, TypeOK, RecordOK, WorldOK
  <2>8. AllocationInv' BY DEF AllocationInv, ControlInv
  <2>9. NamesInv' BY DEF NamesInv
  <2> QED BY <2>1, <2>2, <2>3, <2>4, <2>5, <2>6, <2>7, <2>8, <2>9 DEF TypeOK
<1>4. CASE Added
  <2> USE <1>4 DEF Added
  <2>1. ControlOK' BY DEF TypeOK, ControlOK
  <2>2. RecordOK' BY DEF TypeOK, RecordOK
  <2>3. WorldOK' BY DEF TypeOK, WorldOK
  <2>4. ControlInv' BY StepTable DEF ControlInv
  <2>5. ServingInv' BY DEF ServingInv, Past, ControlInv
  <2>6. RollbackInv' BY DEF RollbackInv, ControlInv
  <2>7. FinalizeInv' BY DEF FinalizeInv, Past, Proven, ControlInv
  <2>8. AllocationInv' BY DEF AllocationInv
  <2>9. NamesInv' BY DEF NamesInv
  <2> QED BY <2>1, <2>2, <2>3, <2>4, <2>5, <2>6, <2>7, <2>8, <2>9 DEF TypeOK
<1>5. CASE ConfigureGuest
  <2> USE <1>5 DEF ConfigureGuest, GuestConfigured, Vouched
  <2>1. ControlOK' BY DEF TypeOK, ControlOK
  <2>2. RecordOK' BY DEF TypeOK, RecordOK
  <2>3. WorldOK' BY AddressAssumption, PausesAssumption DEF TypeOK, ControlOK,
      RecordOK, WorldOK
  <2>4. ControlInv' BY StepTable DEF ControlInv
  <2>5. ServingInv' BY DEF ServingInv, Past
  <2>6. RollbackInv' BY DEF RollbackInv
  <2>7. FinalizeInv' BY DEF FinalizeInv, Past, Proven
  <2>8. AllocationInv' /\ NamesInv' BY DEF AllocationInv, NamesInv
  <2> QED BY <2>1, <2>2, <2>3, <2>4, <2>5, <2>6, <2>7, <2>8 DEF TypeOK
<1>6. CASE VerifyGuest
  <2> USE <1>6 DEF VerifyGuest, GuestServes
  <2>1. TypeOK' BY DEF TypeOK, ControlOK, RecordOK, WorldOK
  <2>2. ControlInv' BY StepTable DEF ControlInv
  <2>3. ServingInv' BY DEF ServingInv, Past
  <2>4. RollbackInv' BY DEF RollbackInv
  <2>5. FinalizeInv' BY DEF FinalizeInv, Past, Proven
  <2>6. AllocationInv' /\ NamesInv' BY DEF AllocationInv, NamesInv
  <2> QED BY <2>1, <2>2, <2>3, <2>4, <2>5, <2>6
<1>7. CASE DnsPreflight
  <2> USE <1>7 DEF DnsPreflight
  <2>1. ControlOK' BY DEF TypeOK, ControlOK
  <2>2. RecordOK' BY DEF TypeOK, RecordOK
  <2>3. WorldOK' BY DEF TypeOK, WorldOK
  <2>4. ControlInv' BY StepTable DEF ControlInv
  <2>5. ServingInv' BY DEF ServingInv, Past
  <2>6. RollbackInv' BY DEF RollbackInv
  <2>7. FinalizeInv' BY DEF FinalizeInv, Past, Proven
  <2>8. AllocationInv' /\ NamesInv' BY DEF AllocationInv, NamesInv
  <2> QED BY <2>1, <2>2, <2>3, <2>4, <2>5, <2>6, <2>7, <2>8 DEF TypeOK
<1>8. CASE Ansible
  <2> USE <1>8 DEF Ansible, Moved
  <2>1. ControlOK' BY DEF TypeOK, ControlOK
  <2>2. RecordOK' BY DEF TypeOK, RecordOK
  <2>3. WorldOK' BY DEF TypeOK, WorldOK
  <2>4. ControlInv' BY StepTable DEF ControlInv
  <2>5. ServingInv' BY DEF ServingInv, Past
  <2>6. RollbackInv' BY DEF RollbackInv
  <2>7. FinalizeInv' BY DEF FinalizeInv, Past, Proven
  <2>8. AllocationInv' BY DEF AllocationInv
  <2>9. NamesInv' BY DEF NamesInv
  <2> QED BY <2>1, <2>2, <2>3, <2>4, <2>5, <2>6, <2>7, <2>8, <2>9 DEF TypeOK
<1>9. CASE ReplaceMark
  <2> USE <1>9 DEF ReplaceMark
  <2>1. TypeOK' BY DEF TypeOK, ControlOK, RecordOK, WorldOK
  <2>2. ControlInv' BY DEF ControlInv
  <2>3. ServingInv' BY DEF ServingInv, Past
  <2>4. RollbackInv' BY DEF RollbackInv
  <2>5. FinalizeInv' BY DEF FinalizeInv, Past, Proven
  <2>6. AllocationInv' /\ NamesInv' BY DEF AllocationInv, NamesInv
  <2> QED BY <2>1, <2>2, <2>3, <2>4, <2>5, <2>6
<1>10. CASE Replace
  <2> USE <1>10 DEF Replace, Moved
  <2>1. ControlOK' BY DEF TypeOK, ControlOK
  <2>2. RecordOK' BY DEF TypeOK, RecordOK
  <2>3. WorldOK' BY DEF TypeOK, WorldOK
  <2>4. ControlInv' BY StepTable DEF ControlInv
  <2>5. ServingInv' BY DEF ServingInv, Past, ControlInv
  <2>6. RollbackInv' BY DEF RollbackInv
  <2>7. FinalizeInv' BY DEF FinalizeInv, Past, Proven, ControlInv
  <2>8. AllocationInv' BY DEF AllocationInv
  <2>9. NamesInv' BY DEF NamesInv
  <2> QED BY <2>1, <2>2, <2>3, <2>4, <2>5, <2>6, <2>7, <2>8, <2>9 DEF TypeOK
<1>11. CASE AwaitFinalize
  <2> USE <1>11 DEF AwaitFinalize
  <2>1. TypeOK' BY DEF TypeOK, ControlOK, RecordOK, WorldOK
  <2>2. ControlInv' BY StepTable DEF ControlInv
  <2>3. ServingInv' BY DEF ServingInv, Past
  <2>4. RollbackInv' BY DEF RollbackInv
  <2>5. FinalizeInv' BY DEF FinalizeInv, Past, Proven
  <2>6. AllocationInv' /\ NamesInv' BY DEF AllocationInv, NamesInv
  <2> QED BY <2>1, <2>2, <2>3, <2>4, <2>5, <2>6
<1> QED BY <1>1, <1>2, <1>3, <1>4, <1>5, <1>6, <1>7, <1>8, <1>9, <1>10, <1>11
    DEF ApplyStep

\* A step of the finalize half preserves the invariant.
LEMMA FinalizeStepKeeps ==
  ASSUME IInv, FinalizeStep
  PROVE  IInv'
<1>1. CASE PrecheckSaved
  <2> USE <1>1 DEF PrecheckSaved
  <2>1. TypeOK' BY DEF TypeOK, ControlOK, RecordOK, WorldOK
  <2>2. ControlInv' BY DEF ControlInv
  <2>3. ServingInv' BY DEF ServingInv, Past
  <2>4. RollbackInv' BY StepTable DEF RollbackInv, ControlInv
  <2>5. FinalizeInv' BY DEF FinalizeInv, Past, Proven
  <2>6. AllocationInv' /\ NamesInv' BY DEF AllocationInv, NamesInv
  <2> QED BY <2>1, <2>2, <2>3, <2>4, <2>5, <2>6
<1>2. CASE PrecheckStep
  <2> USE <1>2 DEF PrecheckStep, PrecheckPasses
  <2>1. ControlOK' BY DEF TypeOK, ControlOK
  <2>2. RecordOK' BY DEF TypeOK, RecordOK
  <2>3. WorldOK' BY DEF TypeOK, WorldOK
  <2>4. ControlInv' BY StepTable DEF ControlInv
  <2>5. ServingInv' BY DEF ServingInv, Past
  <2>6. RollbackInv' BY DEF RollbackInv
  <2>7. FinalizeInv' BY DEF FinalizeInv, Past, Proven
  <2>8. AllocationInv' BY DEF AllocationInv
  <2>9. NamesInv'
    <3>1. CASE PrecheckPasses BY <3>1 DEF NamesInv
    <3>2. CASE UNCHANGED <<marker, intent, late>> BY <3>2 DEF NamesInv
    <3> QED BY <3>1, <3>2
  <2> QED BY <2>1, <2>2, <2>3, <2>4, <2>5, <2>6, <2>7, <2>8, <2>9 DEF TypeOK
<1>3. CASE FinalizeStarted
  <2> USE <1>3 DEF FinalizeStarted
  <2>1. TypeOK' BY DEF TypeOK, ControlOK, RecordOK, WorldOK
  <2>2. ControlInv' BY DEF ControlInv
  <2>3. ServingInv' BY DEF ServingInv, Past
  <2>4. RollbackInv' BY DEF RollbackInv
  <2>5. FinalizeInv' BY DEF FinalizeInv, Past, Proven
  <2>6. AllocationInv' /\ NamesInv' BY DEF AllocationInv, NamesInv
  <2> QED BY <2>1, <2>2, <2>3, <2>4, <2>5, <2>6
<1>4. CASE FinalizeCheck
  <2> USE <1>4 DEF FinalizeCheck, MayFinalize
  <2>1. ControlOK' BY DEF TypeOK, ControlOK
  <2>2. RecordOK' BY DEF TypeOK, RecordOK
  <2>3. WorldOK' BY DEF TypeOK, WorldOK
  <2>4. ControlInv' BY DEF ControlInv
  <2>5. ServingInv' BY DEF ServingInv, Past
  <2>6. RollbackInv' BY DEF RollbackInv
  <2>7. FinalizeInv' BY DEF FinalizeInv, Past, Proven
  <2>8. AllocationInv' /\ NamesInv' BY DEF AllocationInv, NamesInv
  <2> QED BY <2>1, <2>2, <2>3, <2>4, <2>5, <2>6, <2>7, <2>8 DEF TypeOK
<1>5. CASE RemoveGuestAddress
  <2> USE <1>5 DEF RemoveGuestAddress, GuestDropped
  <2>1. ControlOK' BY DEF TypeOK, ControlOK
  <2>2. RecordOK' BY DEF TypeOK, RecordOK
  <2>3. WorldOK' BY DEF TypeOK, WorldOK
  <2>4. ControlInv' BY StepTable DEF ControlInv
  <2>5. ServingInv' BY DEF ServingInv, Past
  <2>6. RollbackInv' BY DEF RollbackInv
  <2>7. FinalizeInv' BY DEF FinalizeInv, Past, Proven
  <2>8. AllocationInv' /\ NamesInv' BY DEF AllocationInv, NamesInv
  <2> QED BY <2>1, <2>2, <2>3, <2>4, <2>5, <2>6, <2>7, <2>8 DEF TypeOK
<1>6. CASE RemoveProvider
  <2> USE <1>6 DEF RemoveProvider
  <2>1. ControlOK' BY DEF TypeOK, ControlOK
  <2>2. RecordOK' BY DEF TypeOK, RecordOK
  <2>3. WorldOK' BY DEF TypeOK, WorldOK
  <2>4. ControlInv' BY DEF ControlInv
  <2>5. ServingInv' BY DEF ServingInv, Past
  <2>6. RollbackInv' BY DEF RollbackInv
  <2>7. FinalizeInv' BY DEF FinalizeInv, Past, Proven
  <2>8. AllocationInv' /\ NamesInv' BY DEF AllocationInv, NamesInv
  <2> QED BY <2>1, <2>2, <2>3, <2>4, <2>5, <2>6, <2>7, <2>8 DEF TypeOK
<1>7. CASE RemovePost
  <2> USE <1>7 DEF RemovePost, PostRemove
  <2>1. ControlOK' BY DEF TypeOK, ControlOK
  <2>2. RecordOK' BY DEF TypeOK, RecordOK
  <2>3. WorldOK' BY DEF TypeOK, WorldOK
  <2>4. ControlInv' BY DEF ControlInv
  <2>5. ServingInv' BY DEF ServingInv, Past
  <2>6. RollbackInv' BY StepTable, AddressAssumption DEF RollbackInv,
      ControlInv, TypeOK, RecordOK, WorldOK
  <2>7. FinalizeInv' BY DEF FinalizeInv, Past, Proven, ControlInv
  <2>8. AllocationInv' BY StepTable, AddressAssumption DEF AllocationInv,
      ControlInv, TypeOK, RecordOK, WorldOK
  <2>9. NamesInv' BY DEF NamesInv
  <2> QED BY <2>1, <2>2, <2>3, <2>4, <2>5, <2>6, <2>7, <2>8, <2>9 DEF TypeOK
<1>8. CASE Removed
  <2> USE <1>8 DEF Removed
  <2>1. ControlOK' BY DEF TypeOK, ControlOK
  <2>2. RecordOK' BY DEF TypeOK, RecordOK
  <2>3. WorldOK' BY DEF TypeOK, WorldOK
  <2>4. ControlInv' BY StepTable DEF ControlInv
  <2>5. ServingInv' BY DEF ServingInv, Past, ControlInv
  <2>6. RollbackInv' BY DEF RollbackInv
  <2>7. FinalizeInv' BY DEF FinalizeInv, Past, Proven
  <2>8. AllocationInv' /\ NamesInv' BY DEF AllocationInv, NamesInv
  <2> QED BY <2>1, <2>2, <2>3, <2>4, <2>5, <2>6, <2>7, <2>8 DEF TypeOK
<1>9. CASE FinalizeGuest
  <2> USE <1>9 DEF FinalizeGuest, GuestRestored
  <2>1. ControlOK' BY DEF TypeOK, ControlOK
  <2>2. RecordOK' BY DEF TypeOK, RecordOK
  <2>3. WorldOK' BY DEF TypeOK, WorldOK
  <2>4. ControlInv' BY StepTable DEF ControlInv
  <2>5. ServingInv' BY DEF ServingInv, Past
  <2>6. RollbackInv' BY DEF RollbackInv
  <2>7. FinalizeInv' BY DEF FinalizeInv, Past, Proven
  <2>8. AllocationInv' /\ NamesInv' BY DEF AllocationInv, NamesInv
  <2> QED BY <2>1, <2>2, <2>3, <2>4, <2>5, <2>6, <2>7, <2>8 DEF TypeOK
<1>10. CASE Verify
  <2> USE <1>10 DEF Verify
  <2>1. ControlOK' BY DEF TypeOK, ControlOK
  <2>2. RecordOK' BY DEF TypeOK, RecordOK
  <2>3. WorldOK' BY DEF TypeOK, WorldOK
  <2>4. ControlInv' BY StepTable DEF ControlInv
  <2>5. ServingInv' BY DEF ServingInv, Past
  <2>6. RollbackInv' BY DEF RollbackInv
  <2>7. FinalizeInv' BY DEF FinalizeInv, Past, Proven
  <2>8. AllocationInv' /\ NamesInv' BY DEF AllocationInv, NamesInv
  <2> QED BY <2>1, <2>2, <2>3, <2>4, <2>5, <2>6, <2>7, <2>8 DEF TypeOK
<1> QED BY <1>1, <1>2, <1>3, <1>4, <1>5, <1>6, <1>7, <1>8, <1>9, <1>10 DEF
    FinalizeStep

\* A step of the whole rollback preserves the invariant.
LEMMA RemedyKeeps ==
  ASSUME IInv, Remedy
  PROVE  IInv'
<1>1. CASE RollbackBegin
  <2> USE <1>1 DEF RollbackBegin
  <2>1. ControlOK' BY DEF TypeOK, ControlOK
  <2>2. RecordOK' BY DEF TypeOK, RecordOK
  <2>3. WorldOK' BY DEF TypeOK, WorldOK
  <2>4. ControlInv' BY DEF ControlInv
  <2>5. ServingInv' BY DEF ServingInv, Past
  <2>6. RollbackInv' BY DEF RollbackInv
  <2>7. FinalizeInv' BY DEF FinalizeInv, Past, Proven
  <2>8. AllocationInv' /\ NamesInv' BY DEF AllocationInv, NamesInv
  <2> QED BY <2>1, <2>2, <2>3, <2>4, <2>5, <2>6, <2>7, <2>8 DEF TypeOK
<1>2. CASE RollbackDnsHalf
  <2> USE <1>2 DEF RollbackDnsHalf, Moved
  <2>1. TypeOK' BY DEF TypeOK, ControlOK, RecordOK, WorldOK
  <2>2. ControlInv' BY DEF ControlInv
  <2>3. ServingInv' BY DEF ServingInv, Past
  <2>4. RollbackInv' BY DEF RollbackInv
  <2>5. FinalizeInv' BY DEF FinalizeInv, Past, Proven
  <2>6. AllocationInv' BY DEF AllocationInv
  <2>7. NamesInv' BY DEF NamesInv
  <2> QED BY <2>1, <2>2, <2>3, <2>4, <2>5, <2>6, <2>7
<1>3. CASE RollbackGuestHalf
  <2> USE <1>3 DEF RollbackGuestHalf, GuestRestored
  <2>1. TypeOK' BY DEF TypeOK, ControlOK, RecordOK, WorldOK
  <2>2. ControlInv' BY DEF ControlInv
  <2>3. ServingInv' BY DEF ServingInv, Past, ControlInv
  <2>4. RollbackInv' BY DEF RollbackInv
  <2>5. FinalizeInv' BY DEF FinalizeInv, Past, Proven
  <2>6. AllocationInv' /\ NamesInv' BY DEF AllocationInv, NamesInv
  <2> QED BY <2>1, <2>2, <2>3, <2>4, <2>5, <2>6
<1>4. CASE RollbackSeed
  <2> USE <1>4 DEF RollbackSeed, Incomplete
  <2>1. ControlOK' BY AddressAssumption, StepTable DEF TypeOK, ControlOK,
      RecordOK, WorldOK, ControlInv
  <2>2. RecordOK' BY DEF TypeOK, RecordOK
  <2>3. WorldOK' BY DEF TypeOK, WorldOK
  <2>4. ControlInv' BY DEF ControlInv
  <2>5. ServingInv' BY DEF ServingInv, Past
  <2>6. RollbackInv' BY DEF RollbackInv
  <2>7. FinalizeInv' BY DEF FinalizeInv, Past, Proven
  <2>8. AllocationInv' /\ NamesInv' BY DEF AllocationInv, NamesInv
  <2> QED BY <2>1, <2>2, <2>3, <2>4, <2>5, <2>6, <2>7, <2>8 DEF TypeOK
<1>5. CASE RollbackPost
  <2> USE <1>5 DEF RollbackPost, PostRemove, Incomplete
  <2>1. ControlOK' BY AddressAssumption, StepTable DEF TypeOK, ControlOK,
      RecordOK, WorldOK, ControlInv
  <2>2. RecordOK' BY DEF TypeOK, RecordOK
  <2>3. WorldOK' BY DEF TypeOK, WorldOK
  <2>4. ControlInv' BY DEF ControlInv
  <2>5. ServingInv' BY DEF ServingInv, Past
  <2>6. RollbackInv' BY DEF RollbackInv, ControlInv
  <2>7. FinalizeInv' BY StepTable, AddressAssumption DEF FinalizeInv, Past,
      Proven, ControlInv, TypeOK, RecordOK, WorldOK
  <2>8. AllocationInv' BY StepTable, AddressAssumption DEF AllocationInv,
      ControlInv, TypeOK, RecordOK, WorldOK
  <2>9. NamesInv' BY DEF NamesInv
  <2> QED BY <2>1, <2>2, <2>3, <2>4, <2>5, <2>6, <2>7, <2>8, <2>9 DEF TypeOK
<1>6. CASE RollbackPolled
  <2> USE <1>6 DEF RollbackPolled
  <2>1. TypeOK' BY DEF TypeOK, ControlOK, RecordOK, WorldOK
  <2>2. ControlInv' BY DEF ControlInv
  <2>3. ServingInv' BY DEF ServingInv, Past
  <2>4. RollbackInv' BY DEF RollbackInv
  <2>5. FinalizeInv' BY DEF FinalizeInv, Past, Proven
  <2>6. AllocationInv' /\ NamesInv' BY DEF AllocationInv, NamesInv
  <2> QED BY <2>1, <2>2, <2>3, <2>4, <2>5, <2>6
<1>7. CASE RollbackCallFails
  <2> USE <1>7 DEF RollbackCallFails, Incomplete
  <2>1. ControlOK' BY DEF TypeOK, ControlOK
  <2>2. RecordOK' BY DEF TypeOK, RecordOK
  <2>3. WorldOK' BY DEF TypeOK, WorldOK
  <2>4. ControlInv' BY DEF ControlInv
  <2>5. ServingInv' BY DEF ServingInv, Past
  <2>6. RollbackInv' BY DEF RollbackInv
  <2>7. FinalizeInv' BY DEF FinalizeInv, Past, Proven
  <2>8. AllocationInv' /\ NamesInv' BY DEF AllocationInv, NamesInv
  <2> QED BY <2>1, <2>2, <2>3, <2>4, <2>5, <2>6, <2>7, <2>8 DEF TypeOK
<1>8. CASE RollbackCheck
  <2> USE <1>8 DEF RollbackCheck, GuestRestored, Incomplete
  <2>1. ControlOK' BY AddressAssumption, PausesAssumption, StepTable DEF
      TypeOK, ControlOK
  <2>2. RecordOK' BY DEF TypeOK, RecordOK
  <2>3. WorldOK' BY DEF TypeOK, WorldOK
  <2>4. ControlInv' BY DEF ControlInv
  <2>5. ServingInv' BY DEF ServingInv, Past
  <2>6. RollbackInv' BY DEF RollbackInv
  <2>7. FinalizeInv' BY DEF FinalizeInv, Past, Proven
  <2>8. AllocationInv' /\ NamesInv' BY DEF AllocationInv, NamesInv
  <2> QED BY <2>1, <2>2, <2>3, <2>4, <2>5, <2>6, <2>7, <2>8 DEF TypeOK
<1>9. CASE RollbackSave
  <2> USE <1>9 DEF RollbackSave
  <2>1. TypeOK' BY DEF TypeOK, ControlOK, RecordOK, WorldOK
  <2>2. ControlInv' BY DEF ControlInv
  <2>3. ServingInv' BY DEF ServingInv, Past
  <2>4. RollbackInv' BY DEF RollbackInv
  <2>5. FinalizeInv' BY DEF FinalizeInv, Past, Proven
  <2>6. AllocationInv' /\ NamesInv' BY DEF AllocationInv, NamesInv
  <2> QED BY <2>1, <2>2, <2>3, <2>4, <2>5, <2>6
<1> QED BY <1>1, <1>2, <1>3, <1>4, <1>5, <1>6, <1>7, <1>8, <1>9 DEF Remedy

\* What a rollback stage does after its start preserves the invariant.
LEMMA StageStepKeeps ==
  ASSUME IInv, StageStep
  PROVE  IInv'
<1>1. CASE StageDnsEnd
  <2> USE <1>1 DEF StageDnsEnd, Moved
  <2>1. TypeOK' BY DEF TypeOK, ControlOK, RecordOK, WorldOK
  <2>2. ControlInv' BY DEF ControlInv
  <2>3. ServingInv' BY DEF ServingInv, Past
  <2>4. RollbackInv' BY DEF RollbackInv
  <2>5. FinalizeInv' BY DEF FinalizeInv, Past, Proven
  <2>6. AllocationInv' BY DEF AllocationInv
  <2>7. NamesInv' BY DEF NamesInv
  <2> QED BY <2>1, <2>2, <2>3, <2>4, <2>5, <2>6, <2>7
<1>2. CASE StagePost
  <2> USE <1>2 DEF StagePost, PostRemove
  <2>1. ControlOK' BY DEF TypeOK, ControlOK
  <2>2. RecordOK' BY DEF TypeOK, RecordOK
  <2>3. WorldOK' BY DEF TypeOK, WorldOK
  <2>4. ControlInv' BY DEF ControlInv
  <2>5. ServingInv' BY DEF ServingInv, Past
  <2>6. RollbackInv' BY DEF RollbackInv, ControlInv
  <2>7. FinalizeInv' BY StepTable, AddressAssumption DEF FinalizeInv, Past,
      Proven, ControlInv, TypeOK, RecordOK, WorldOK
  <2>8. AllocationInv' BY StepTable, AddressAssumption DEF AllocationInv,
      ControlInv, TypeOK, RecordOK, WorldOK
  <2>9. NamesInv' BY DEF NamesInv
  <2> QED BY <2>1, <2>2, <2>3, <2>4, <2>5, <2>6, <2>7, <2>8, <2>9 DEF TypeOK
<1>3. CASE StagePolled
  <2> USE <1>3 DEF StagePolled
  <2>1. TypeOK' BY DEF TypeOK, ControlOK, RecordOK, WorldOK
  <2>2. ControlInv' BY DEF ControlInv
  <2>3. ServingInv' BY DEF ServingInv, Past
  <2>4. RollbackInv' BY DEF RollbackInv
  <2>5. FinalizeInv' BY DEF FinalizeInv, Past, Proven
  <2>6. AllocationInv' /\ NamesInv' BY DEF AllocationInv, NamesInv
  <2> QED BY <2>1, <2>2, <2>3, <2>4, <2>5, <2>6
<1>4. CASE StageCheck
  <2> USE <1>4 DEF StageCheck
  <2>1. ControlOK' BY DEF TypeOK, ControlOK
  <2>2. RecordOK' BY DEF TypeOK, RecordOK
  <2>3. WorldOK' BY DEF TypeOK, WorldOK
  <2>4. ControlInv' BY DEF ControlInv
  <2>5. ServingInv' BY DEF ServingInv, Past
  <2>6. RollbackInv' BY DEF RollbackInv
  <2>7. FinalizeInv' BY DEF FinalizeInv, Past, Proven
  <2>8. AllocationInv' /\ NamesInv' BY DEF AllocationInv, NamesInv
  <2> QED BY <2>1, <2>2, <2>3, <2>4, <2>5, <2>6, <2>7, <2>8 DEF TypeOK
<1>5. CASE StageCallFails
  <2> USE <1>5 DEF StageCallFails
  <2>1. TypeOK' BY DEF TypeOK, ControlOK, RecordOK, WorldOK
  <2>2. ControlInv' BY DEF ControlInv
  <2>3. ServingInv' BY DEF ServingInv, Past
  <2>4. RollbackInv' BY DEF RollbackInv
  <2>5. FinalizeInv' BY DEF FinalizeInv, Past, Proven
  <2>6. AllocationInv' /\ NamesInv' BY DEF AllocationInv, NamesInv
  <2> QED BY <2>1, <2>2, <2>3, <2>4, <2>5, <2>6
<1> QED BY <1>1, <1>2, <1>3, <1>4, <1>5 DEF StageStep

\* A step common to both halves preserves the invariant.
LEMMA ProcessKeeps ==
  ASSUME IInv, Process
  PROVE  IInv'
<1>1. CASE PlanValidate
  <2> USE <1>1 DEF PlanValidate
  <2>1. TypeOK' BY DEF TypeOK, ControlOK, RecordOK, WorldOK
  <2>2. ControlInv' BY DEF ControlInv
  <2>3. ServingInv' BY DEF ServingInv, Past
  <2>4. RollbackInv' BY DEF RollbackInv
  <2>5. FinalizeInv' BY DEF FinalizeInv, Past, Proven
  <2>6. AllocationInv' /\ NamesInv' BY DEF AllocationInv, NamesInv
  <2> QED BY <2>1, <2>2, <2>3, <2>4, <2>5, <2>6
<1>2. CASE PlanFinish
  <2> USE <1>2 DEF PlanFinish, ApplyTokens
  <2>1. ControlOK' BY AddressAssumption, PausesAssumption DEF TypeOK,
      ControlOK, RecordOK, WorldOK
  <2>2. RecordOK' BY DEF TypeOK, RecordOK
  <2>3. WorldOK' BY DEF TypeOK, WorldOK
  <2>4. ControlInv' BY DEF ControlInv
  <2>5. ServingInv' BY DEF ServingInv, Past
  <2>6. RollbackInv' BY DEF RollbackInv
  <2>7. FinalizeInv' BY DEF FinalizeInv, Past, Proven
  <2>8. AllocationInv' /\ NamesInv' BY DEF AllocationInv, NamesInv
  <2> QED BY <2>1, <2>2, <2>3, <2>4, <2>5, <2>6, <2>7, <2>8 DEF TypeOK
<1>3. CASE Pause
  <2> USE <1>3 DEF Pause
  <2>1. TypeOK' BY DEF TypeOK, ControlOK, RecordOK, WorldOK
  <2>2. ControlInv' BY DEF ControlInv
  <2>3. ServingInv' BY DEF ServingInv, Past
  <2>4. RollbackInv' BY DEF RollbackInv
  <2>5. FinalizeInv' BY DEF FinalizeInv, Past, Proven
  <2>6. AllocationInv' /\ NamesInv' BY DEF AllocationInv, NamesInv
  <2> QED BY <2>1, <2>2, <2>3, <2>4, <2>5, <2>6
<1>4. CASE Transition
  <2> USE <1>4 DEF Transition
  <2>1. ControlOK'
    <3>1. StepTo[state] \in States BY StepTable DEF ControlInv
    <3> QED BY <3>1 DEF TypeOK, ControlOK
  <2>2. RecordOK' BY DEF TypeOK, RecordOK
  <2>3. WorldOK' BY DEF TypeOK, WorldOK
  <2>4. ControlInv' BY DEF ControlInv
  <2>5. ServingInv' BY StepTable DEF ServingInv, Past, ControlInv
  <2>6. RollbackInv' BY StepTable DEF RollbackInv, ControlInv
  <2>7. FinalizeInv' BY StepTable DEF FinalizeInv, Past, Proven, ControlInv
  <2>8. AllocationInv' /\ NamesInv' BY DEF AllocationInv, NamesInv
  <2> QED BY <2>1, <2>2, <2>3, <2>4, <2>5, <2>6, <2>7, <2>8 DEF TypeOK
<1>5. CASE StepFails
  <2> USE <1>5 DEF StepFails
  <2>1. ControlOK' BY DEF TypeOK, ControlOK
  <2>2. RecordOK' BY DEF TypeOK, RecordOK
  <2>3. WorldOK' BY DEF TypeOK, WorldOK
  <2>4. ControlInv' BY DEF ControlInv
  <2>5. ServingInv' BY DEF ServingInv, Past
  <2>6. RollbackInv' BY DEF RollbackInv
  <2>7. FinalizeInv' BY DEF FinalizeInv, Past, Proven
  <2>8. AllocationInv' /\ NamesInv' BY DEF AllocationInv, NamesInv
  <2> QED BY <2>1, <2>2, <2>3, <2>4, <2>5, <2>6, <2>7, <2>8 DEF TypeOK
<1>6. CASE TokenMissing
  <2> USE <1>6 DEF TokenMissing
  <2>1. TypeOK' BY DEF TypeOK, ControlOK, RecordOK, WorldOK
  <2>2. ControlInv' BY DEF ControlInv
  <2>3. ServingInv' BY DEF ServingInv, Past
  <2>4. RollbackInv' BY DEF RollbackInv
  <2>5. FinalizeInv' BY DEF FinalizeInv, Past, Proven
  <2>6. AllocationInv' /\ NamesInv' BY DEF AllocationInv, NamesInv
  <2> QED BY <2>1, <2>2, <2>3, <2>4, <2>5, <2>6
<1>7. CASE PollTimeout
  <2> USE <1>7 DEF PollTimeout, PollGivesUp, Incomplete, Polled, Polling
  <2>1. ControlOK' BY DEF TypeOK, ControlOK
  <2>2. RecordOK' BY DEF TypeOK, RecordOK
  <2>3. WorldOK' BY DEF TypeOK, WorldOK
  <2>4. ControlInv' BY DEF ControlInv
  <2>5. ServingInv' BY DEF ServingInv, Past
  <2>6. RollbackInv' BY DEF RollbackInv
  <2>7. FinalizeInv' BY DEF FinalizeInv, Past, Proven
  <2>8. AllocationInv' /\ NamesInv' BY DEF AllocationInv, NamesInv
  <2> QED BY <2>1, <2>2, <2>3, <2>4, <2>5, <2>6, <2>7, <2>8 DEF TypeOK
<1>8. CASE ApplyStep BY <1>8, ApplyStepKeeps
<1>9. CASE FinalizeStep BY <1>9, FinalizeStepKeeps
<1>10. CASE Remedy BY <1>10, RemedyKeeps
<1>11. CASE StageStep BY <1>11, StageStepKeeps
<1> QED BY <1>1, <1>2, <1>3, <1>4, <1>5, <1>6, <1>7, <1>8, <1>9, <1>10, <1>11
    DEF Process

\* What nobody commands preserves the invariant.
LEMMA EnvironmentKeeps ==
  ASSUME IInv, Environment
  PROVE  IInv'
<1>1. CASE VouchExpires
  <2> USE <1>1 DEF VouchExpires
  <2>1. ControlOK' BY DEF TypeOK, ControlOK
  <2>2. RecordOK' BY DEF TypeOK, RecordOK
  <2>3. WorldOK' BY DEF TypeOK, WorldOK
  <2>4. ControlInv' BY DEF ControlInv
  <2>5. ServingInv' BY DEF ServingInv, Past
  <2>6. RollbackInv' BY DEF RollbackInv
  <2>7. FinalizeInv' BY DEF FinalizeInv, Past, Proven
  <2>8. AllocationInv' /\ NamesInv' BY DEF AllocationInv, NamesInv
  <2> QED BY <2>1, <2>2, <2>3, <2>4, <2>5, <2>6, <2>7, <2>8 DEF TypeOK
<1>2. CASE MarkerExpires
  <2> USE <1>2 DEF MarkerExpires
  <2>1. TypeOK' BY DEF TypeOK, ControlOK, RecordOK, WorldOK
  <2>2. ControlInv' BY DEF ControlInv
  <2>3. ServingInv' BY DEF ServingInv, Past
  <2>4. RollbackInv' BY DEF RollbackInv
  <2>5. FinalizeInv' BY DEF FinalizeInv, Past, Proven
  <2>6. AllocationInv' BY DEF AllocationInv
  <2>7. NamesInv' BY DEF NamesInv
  <2> QED BY <2>1, <2>2, <2>3, <2>4, <2>5, <2>6, <2>7
<1>3. CASE ActionCompletes
  <2> USE <1>3 DEF ActionCompletes, Effect
  <2>1. TypeOK' BY DEF TypeOK, ControlOK, RecordOK, WorldOK
  <2>2. ControlInv' BY DEF ControlInv
  <2>3. ServingInv' BY AddressAssumption, StepTable DEF TypeOK, ControlOK,
      RecordOK, WorldOK, ControlInv, AllocationInv, RollbackInv, ServingInv,
      Past
  <2>4. RollbackInv' BY DEF RollbackInv
  <2>5. FinalizeInv' BY AddressAssumption, StepTable DEF TypeOK, ControlOK,
      RecordOK, WorldOK, ControlInv, AllocationInv, RollbackInv, FinalizeInv,
      Past, Proven, ServingInv
  <2>6. AllocationInv' BY DEF AllocationInv
  <2>7. NamesInv' BY DEF NamesInv
  <2> QED BY <2>1, <2>2, <2>3, <2>4, <2>5, <2>6, <2>7
<1>4. CASE ActionFails
  <2> USE <1>4 DEF ActionFails, PollGivesUp, Incomplete, Polled, Polling
  <2>1. ControlOK' BY AddressAssumption, PausesAssumption, StepTable DEF
      TypeOK, ControlOK
  <2>2. RecordOK' BY DEF TypeOK, RecordOK
  <2>3. WorldOK' BY DEF TypeOK, WorldOK
  <2>4. ControlInv' BY DEF ControlInv
  <2>5. ServingInv' BY DEF ServingInv, Past
  <2>6. RollbackInv' BY DEF RollbackInv
  <2>7. FinalizeInv' BY DEF FinalizeInv, Past, Proven
  <2>8. AllocationInv' BY DEF AllocationInv
  <2>9. NamesInv' BY DEF NamesInv
  <2> QED BY <2>1, <2>2, <2>3, <2>4, <2>5, <2>6, <2>7, <2>8, <2>9 DEF TypeOK
<1>5. CASE ForeignEdit
  <2> USE <1>5 DEF ForeignEdit
  <2>1. TypeOK' BY DEF TypeOK, ControlOK, RecordOK, WorldOK
  <2>2. ControlInv' BY DEF ControlInv
  <2>3. ServingInv' BY DEF ServingInv, Past
  <2>4. RollbackInv' BY DEF RollbackInv
  <2>5. FinalizeInv' BY DEF FinalizeInv, Past, Proven
  <2>6. AllocationInv' BY DEF AllocationInv
  <2>7. NamesInv' BY DEF NamesInv
  <2> QED BY <2>1, <2>2, <2>3, <2>4, <2>5, <2>6, <2>7
<1>6. CASE Crash
  <2> USE <1>6 DEF Crash
  <2>1. TypeOK' BY DEF TypeOK, ControlOK, RecordOK, WorldOK
  <2>2. ControlInv' BY DEF ControlInv
  <2>3. ServingInv' BY DEF ServingInv, Past
  <2>4. RollbackInv' BY DEF RollbackInv
  <2>5. FinalizeInv' BY DEF FinalizeInv, Past, Proven
  <2>6. AllocationInv' /\ NamesInv' BY DEF AllocationInv, NamesInv
  <2> QED BY <2>1, <2>2, <2>3, <2>4, <2>5, <2>6
<1> QED BY <1>1, <1>2, <1>3, <1>4, <1>5, <1>6 DEF Environment

\* The initial states satisfy the invariant.
LEMMA InitInv ==
  ASSUME Init
  PROVE  IInv
<1> USE AddressAssumption, ConfigAssumption DEF Init
<1>1. TypeOK BY DEF TypeOK, ControlOK, RecordOK, WorldOK
<1>2. ControlInv BY DEF ControlInv
<1>3. ServingInv BY DEF ServingInv, Past
<1>4. RollbackInv BY DEF RollbackInv
<1>5. FinalizeInv BY DEF FinalizeInv, Past
<1>6. AllocationInv /\ NamesInv BY DEF AllocationInv, NamesInv
<1> QED BY <1>1, <1>2, <1>3, <1>4, <1>5, <1>6

\* Every step preserves the invariant, and so does no step.
LEMMA NextKeeps ==
  ASSUME IInv, [Next]_vars
  PROVE  IInv'
<1>1. CASE Command BY <1>1, CommandKeeps
<1>2. CASE Process BY <1>2, ProcessKeeps
<1>3. CASE Environment BY <1>3, EnvironmentKeeps
<1>4. CASE UNCHANGED vars
  <2> USE <1>4 DEF vars
  <2>1. TypeOK' BY DEF TypeOK, ControlOK, RecordOK, WorldOK
  <2>2. ControlInv' BY DEF ControlInv
  <2>3. ServingInv' BY DEF ServingInv, Past
  <2>4. RollbackInv' BY DEF RollbackInv
  <2>5. FinalizeInv' BY DEF FinalizeInv, Past, Proven
  <2>6. AllocationInv' /\ NamesInv' BY DEF AllocationInv, NamesInv
  <2> QED BY <2>1, <2>2, <2>3, <2>4, <2>5, <2>6
<1> QED BY <1>1, <1>2, <1>3, <1>4 DEF Next

\* The invariant of the DataForest machine: the program counter fits the
\* state, a recorded NEW is the only one, what the apply half established
\* lasts, and each address is asked to leave by its own half only, announced.
THEOREM Invariance == Spec => []IInv
<1>1. Init => IInv BY InitInv
<1>2. IInv /\ [Next]_vars => IInv' BY NextKeeps
<1> QED BY <1>1, <1>2, PTL DEF Spec

-----------------------------------------------------------------------------
(* The safety properties.                                                  *)

\* The checkpoint, the guest and the Seed keep their types.
THEOREM TypeCorrect == Spec => []TypeOK
<1>1. IInv => TypeOK OBVIOUS
<1> QED BY <1>1, Invariance, PTL

\* A NEW on disk is the only address the Seed gained: a repeated add-ipv4
\* never leaves a second one behind a recorded one.
THEOREM OneAddressGained == Spec => []OneNewAddress
<1>1. IInv => OneNewAddress BY DEF AllocationInv, OneNewAddress
<1> QED BY <1>1, Invariance, PTL

\* Neither half of the rotation alone can empty the Seed.
THEOREM SeedIsKept == Spec => []EmptySeedNeedsBoth
<1>1. IInv => EmptySeedNeedsBoth BY DEF FinalizeInv, Proven, EmptySeedNeedsBoth
<1> QED BY <1>1, Invariance, PTL

\* OLD is gone only when no record the tokens see is left on it, third
\* parties aside.
THEOREM OldIsUnreferenced == Spec => []OldLeavesUnreferenced
<1>1. IInv => OldLeavesUnreferenced
  BY DEF FinalizeInv, Proven, NamesInv, OldLeavesUnreferenced
<1> QED BY <1>1, Invariance, PTL

\* Names move only when NEW was verified, is bound and is on the Seed.
THEOREM NamesFollow == Spec => DnsFollowsServing
<1>1. IInv /\ [Next]_vars =>
        (dns' # dns /\ state \in {"cloudflare_preflighted", "ansible_done"} =>
           verified /\ new \in seed \cap bound)
  BY DEF ServingInv, Past
<1> QED BY <1>1, Invariance, PTL DEF Spec, DnsFollowsServing

-----------------------------------------------------------------------------
(* What a step can do to the addresses and to their announcements.         *)

\* The Seed and the announcements stay, and the rotation is not finished.
Quiet == /\ seed' = seed /\ started' \ {"allocate"} = started \ {"allocate"}
         /\ state' = "done" => state = "done"

\* A stage of the staged rollback is quiet, unless it is the one named here.
LEMMA StageQuiet ==
  ASSUME IInv, Stage
  PROVE  Quiet \/ StageProvider
<1>1. CASE StageDns BY <1>1 DEF StageDns, Quiet
<1>2. CASE StageInventory BY <1>2 DEF StageInventory, Quiet
<1>3. CASE StageGuest BY <1>3 DEF StageGuest, GuestRestored, Quiet
<1>4. CASE StageGuestFails BY <1>4 DEF StageGuestFails, Quiet
<1>5. CASE StageProvider BY <1>5
<1> QED BY <1>1, <1>2, <1>3, <1>4, <1>5 DEF Stage

\* A command of the operator is quiet, unless it is the one named here.
LEMMA CommandQuiet ==
  ASSUME IInv, Command
  PROVE  Quiet \/ StageProvider
<1>1. CASE PlanRead BY <1>1 DEF PlanRead, Quiet
<1>2. CASE Resume BY <1>2 DEF Resume, Quiet
<1>3. CASE ResumeWrongRemedy BY <1>3 DEF ResumeWrongRemedy, Quiet
<1>4. CASE Finalize BY <1>4 DEF Finalize, Quiet
<1>5. CASE FinalizePrecheck BY <1>5 DEF FinalizePrecheck, PrecheckPasses,
      Quiet
<1>6. CASE ProviderFinalize BY <1>6 DEF ProviderFinalize, Quiet
<1>7. CASE Rollback BY <1>7 DEF Rollback, Quiet
<1>8. CASE Stage BY <1>8, StageQuiet
<1>9. CASE IdentityCheck BY <1>9 DEF IdentityCheck, Quiet
<1> QED BY <1>1, <1>2, <1>3, <1>4, <1>5, <1>6, <1>7, <1>8, <1>9 DEF Command

\* A step of the apply half is quiet.
LEMMA ApplyStepQuiet ==
  ASSUME IInv, ApplyStep
  PROVE  Quiet
<1>1. CASE Preflight BY <1>1 DEF Preflight, Quiet
<1>2. CASE Allocate BY <1>2 DEF Allocate, Quiet
<1>3. CASE AddPost BY <1>3 DEF AddPost, Quiet
<1>4. CASE Added BY <1>4 DEF Added, Quiet
<1>5. CASE ConfigureGuest BY <1>5 DEF ConfigureGuest, GuestConfigured,
      Vouched, Quiet
<1>6. CASE VerifyGuest BY <1>6 DEF VerifyGuest, GuestServes, Quiet
<1>7. CASE DnsPreflight BY <1>7 DEF DnsPreflight, Quiet
<1>8. CASE Ansible BY <1>8 DEF Ansible, Moved, Quiet
<1>9. CASE ReplaceMark BY <1>9 DEF ReplaceMark, Quiet
<1>10. CASE Replace BY <1>10 DEF Replace, Moved, Quiet
<1>11. CASE AwaitFinalize BY <1>11 DEF AwaitFinalize, Quiet
<1> QED BY <1>1, <1>2, <1>3, <1>4, <1>5, <1>6, <1>7, <1>8, <1>9, <1>10, <1>11
    DEF ApplyStep

\* A step of the finalize half is quiet, unless it is the one named here.
LEMMA FinalizeStepQuiet ==
  ASSUME IInv, FinalizeStep
  PROVE  Quiet \/ FinalizeCheck
<1>1. CASE PrecheckSaved BY <1>1 DEF PrecheckSaved, Quiet
<1>2. CASE PrecheckStep BY <1>2 DEF PrecheckStep, PrecheckPasses, Quiet
<1>3. CASE FinalizeStarted BY <1>3 DEF FinalizeStarted, Quiet
<1>4. CASE FinalizeCheck BY <1>4
<1>5. CASE RemoveGuestAddress BY <1>5 DEF RemoveGuestAddress, GuestDropped,
      Quiet
<1>6. CASE RemoveProvider BY <1>6 DEF RemoveProvider, Quiet
<1>7. CASE RemovePost BY <1>7 DEF RemovePost, PostRemove, Quiet
<1>8. CASE Removed BY <1>8 DEF Removed, Quiet
<1>9. CASE FinalizeGuest BY <1>9 DEF FinalizeGuest, GuestRestored, Quiet
<1>10. CASE Verify BY <1>10 DEF Verify, Quiet
<1> QED BY <1>1, <1>2, <1>3, <1>4, <1>5, <1>6, <1>7, <1>8, <1>9, <1>10 DEF
    FinalizeStep

\* A step of the whole rollback is quiet, unless it is the one named here.
LEMMA RemedyQuiet ==
  ASSUME IInv, Remedy
  PROVE  Quiet \/ RollbackSeed
<1>1. CASE RollbackBegin BY <1>1 DEF RollbackBegin, Quiet
<1>2. CASE RollbackDnsHalf BY <1>2 DEF RollbackDnsHalf, Moved, Quiet
<1>3. CASE RollbackGuestHalf BY <1>3 DEF RollbackGuestHalf, GuestRestored,
      Quiet
<1>4. CASE RollbackSeed BY <1>4
<1>5. CASE RollbackPost BY <1>5 DEF RollbackPost, PostRemove, Incomplete,
      Quiet
<1>6. CASE RollbackPolled BY <1>6 DEF RollbackPolled, Quiet
<1>7. CASE RollbackCallFails BY <1>7 DEF RollbackCallFails, Incomplete, Quiet
<1>8. CASE RollbackCheck BY <1>8 DEF RollbackCheck, GuestRestored, Incomplete,
      Quiet
<1>9. CASE RollbackSave BY <1>9 DEF RollbackSave, Quiet
<1> QED BY <1>1, <1>2, <1>3, <1>4, <1>5, <1>6, <1>7, <1>8, <1>9 DEF Remedy

\* What a rollback stage does after its start is quiet.
LEMMA StageStepQuiet ==
  ASSUME IInv, StageStep
  PROVE  Quiet
<1>1. CASE StageDnsEnd BY <1>1 DEF StageDnsEnd, Moved, Quiet
<1>2. CASE StagePost BY <1>2 DEF StagePost, PostRemove, Quiet
<1>3. CASE StagePolled BY <1>3 DEF StagePolled, Quiet
<1>4. CASE StageCheck BY <1>4 DEF StageCheck, Quiet
<1>5. CASE StageCallFails BY <1>5 DEF StageCallFails, Quiet
<1> QED BY <1>1, <1>2, <1>3, <1>4, <1>5 DEF StageStep

\* A step common to both halves is quiet, unless it is one of those named here.
LEMMA ProcessQuiet ==
  ASSUME IInv, Process
  PROVE  Quiet \/ FinalizeCheck \/ RollbackSeed \/ Transition
<1>1. CASE PlanValidate BY <1>1 DEF PlanValidate, Quiet
<1>2. CASE PlanFinish BY <1>2 DEF PlanFinish, ApplyTokens, Quiet
<1>3. CASE Pause BY <1>3 DEF Pause, Quiet
<1>4. CASE Transition BY <1>4
<1>5. CASE StepFails BY <1>5 DEF StepFails, Quiet
<1>6. CASE TokenMissing BY <1>6 DEF TokenMissing, Quiet
<1>7. CASE PollTimeout BY <1>7 DEF PollTimeout, PollGivesUp, Incomplete,
      Polled, Polling, Quiet
<1>8. CASE ApplyStep BY <1>8, ApplyStepQuiet
<1>9. CASE FinalizeStep BY <1>9, FinalizeStepQuiet
<1>10. CASE Remedy BY <1>10, RemedyQuiet
<1>11. CASE StageStep BY <1>11, StageStepQuiet
<1> QED BY <1>1, <1>2, <1>3, <1>4, <1>5, <1>6, <1>7, <1>8, <1>9, <1>10, <1>11
    DEF Process

\* What nobody commands is quiet, unless it is the one named here.
LEMMA EnvironmentQuiet ==
  ASSUME IInv, Environment
  PROVE  Quiet \/ ActionCompletes
<1>1. CASE VouchExpires BY <1>1 DEF VouchExpires, Quiet
<1>2. CASE MarkerExpires BY <1>2 DEF MarkerExpires, Quiet
<1>3. CASE ActionCompletes BY <1>3
<1>4. CASE ActionFails BY <1>4 DEF ActionFails, PollGivesUp, Incomplete,
      Polled, Polling, Quiet
<1>5. CASE ForeignEdit BY <1>5 DEF ForeignEdit, Quiet
<1>6. CASE Crash BY <1>6 DEF Crash, Quiet
<1> QED BY <1>1, <1>2, <1>3, <1>4, <1>5, <1>6 DEF Environment

\* OLD leaves only on the provider's side, as FinalizeInv allows it.
LEMMA OldLeaves ==
  ASSUME IInv, [Next]_vars, Old \in seed, Old \notin seed'
  PROVE  Proven
<1>1. CASE ActionCompletes
  <2>1. Old \in active
    <3>1. PICK op \in active : Effect(op) BY <1>1 DEF ActionCompletes
    <3>2. op # "add" BY <3>1 DEF Effect
    <3>3. op = Old BY <3>1, <3>2 DEF Effect
    <3> QED BY <3>1, <3>3
  <2> QED BY <2>1 DEF FinalizeInv
<1>2. CASE FinalizeCheck \/ RollbackSeed \/ StageProvider \/ Transition
  BY <1>2 DEF FinalizeCheck, RollbackSeed, StageProvider, Transition
<1>3. CASE Quiet BY <1>3 DEF Quiet
<1>4. CASE UNCHANGED vars BY <1>4 DEF vars
<1> QED BY <1>1, <1>2, <1>3, <1>4, CommandQuiet, ProcessQuiet,
      EnvironmentQuiet DEF Next

\* OLD leaves the Seed only on the whole of the evidence.
THEOREM OldLeavesOnEvidence == Spec => OldLeavesProven
<1>1. IInv /\ [Next]_vars => (Old \in seed /\ Old \notin seed' => Proven)
  BY OldLeaves
<1> QED BY <1>1, Invariance, PTL DEF Spec, OldLeavesProven

-----------------------------------------------------------------------------
(* The refinement.                                                         *)

\* With both addresses recorded and there, the Seed holds OLD and NEW.
LEMMA BothHeld ==
  ASSUME IInv, Both
  PROVE  Held = {"old", "new"}
<1>1. new \in Fresh BY AddressAssumption DEF TypeOK, RecordOK, WorldOK
<1> QED BY <1>1 DEF Held

\* A quiet step is a step of AddressHandover that reopens, or none at all.
LEMMA QuietImplements ==
  ASSUME Quiet
  PROVE  [Handover!Next]_(Handover!vars)
<1>1. Held' = Held BY DEF Quiet, Held
<1>2. CASE state = "done" /\ state' # "done"
  BY <1>1, <1>2 DEF Quiet, Handover!Next, Handover!Reopen
<1>3. CASE ~(state = "done" /\ state' # "done")
  BY <1>1, <1>3 DEF Quiet, Handover!vars
<1> QED BY <1>2, <1>3

\* A step that announces the departure of an address does so with both there.
LEMMA AnnounceImplements ==
  ASSUME IInv, Both, NEW half \in {"finalize", "rollback"},
         started' = started \cup {half}, seed' = seed, state' = state
  PROVE  [Handover!Next]_(Handover!vars)
<1>1. Held = {"old", "new"} BY BothHeld
<1>2. Held' = Held BY DEF Held
<1>3. started' \ {"allocate"} = (started \ {"allocate"}) \cup {half} OBVIOUS
<1> QED BY <1>1, <1>2, <1>3 DEF Handover!Next, Handover!Announce

\* What the provider completes is an address that comes, or one that leaves
\* after its half was announced.
LEMMA ProviderImplements ==
  ASSUME IInv, ActionCompletes
  PROVE  [Handover!Next]_(Handover!vars)
<1>1. PICK op \in active : Effect(op) BY DEF ActionCompletes
<1>2. started' = started /\ state' = state BY DEF ActionCompletes
<1>3. CASE op = "add"
  <2>1. PICK a \in Fresh : seed' = seed \cup {a} BY <1>1, <1>3 DEF Effect
  <2>2. Held' = Held \cup {"new"} BY <2>1, AddressAssumption DEF Held
  <2> QED BY <1>2, <2>2 DEF Handover!Next, Handover!AddNew
<1>4. CASE op = Old
  <2>1. seed' = seed \ {Old} BY <1>1, <1>4, AddressAssumption DEF Effect
  <2>2. Held' = Held \ {"old"} BY <2>1, AddressAssumption DEF Held
  <2>3. "finalize" \in started BY <1>4 DEF FinalizeInv
  <2> QED BY <1>2, <2>2, <2>3 DEF Handover!Next, Handover!Drop
<1>5. CASE op \in Fresh
  <2>1. seed' = seed \ {op} BY <1>1, <1>5, AddressAssumption DEF Effect
  <2>2. "rollback" \in started /\ op = new BY <1>5 DEF RollbackInv
  <2>3. seed \cap Fresh \subseteq {new}
    BY <1>5, <2>2, AddressAssumption DEF AllocationInv
  <2>4. Held' = Held \ {"new"}
    BY <1>5, <2>1, <2>2, <2>3, AddressAssumption DEF Held
  <2> QED BY <1>2, <2>2, <2>4 DEF Handover!Next, Handover!Drop
<1> QED BY <1>3, <1>4, <1>5 DEF TypeOK, WorldOK

\* The last step of the finalize half ends with NEW alone.
LEMMA TransitionImplements ==
  ASSUME IInv, Transition
  PROVE  [Handover!Next]_(Handover!vars)
<1>1. seed' = seed /\ started' = started BY DEF Transition
<1>2. CASE state = "guest_finalized"
  <2>1. state' = "done" BY <1>2, StepTable DEF Transition
  <2>2. Old \notin seed /\ new \in seed /\ "finalize" \in started
    BY <1>2 DEF Transition, FinalizeInv, Past
  <2>3. new \in Fresh BY <2>2, AddressAssumption DEF TypeOK, RecordOK, WorldOK
  <2>4. Held = {"new"} /\ Held' = Held BY <1>1, <2>2, <2>3 DEF Held
  <2> QED BY <1>1, <2>1, <2>2, <2>4 DEF Handover!Next, Handover!Finish
<1>3. CASE state # "guest_finalized"
  <2>1. state' # "done" BY <1>3, StepTable DEF Transition, ControlInv
  <2> QED BY <1>1, <2>1, QuietImplements DEF Quiet
<1> QED BY <1>2, <1>3

\* Every step is a step of AddressHandover or none.
LEMMA StepImplements ==
  ASSUME IInv, [Next]_vars
  PROVE  [Handover!Next]_(Handover!vars)
<1>1. CASE Quiet BY <1>1, QuietImplements
<1>2. CASE FinalizeCheck
  <2>1. CASE MayFinalize
    BY <1>2, <2>1, AnnounceImplements DEF FinalizeCheck, MayFinalize
  <2>2. CASE ~MayFinalize
    BY <1>2, <2>2, QuietImplements DEF FinalizeCheck, Quiet
  <2> QED BY <2>1, <2>2
<1>3. CASE RollbackSeed
  <2>1. CASE Both /\ started' = started \cup {"rollback"}
    BY <1>3, <2>1, AnnounceImplements DEF RollbackSeed, Incomplete
  <2>2. CASE UNCHANGED started
    BY <1>3, <2>2, QuietImplements DEF RollbackSeed, Quiet, Incomplete
  <2> QED BY <1>3, <2>1, <2>2 DEF RollbackSeed
<1>4. CASE StageProvider
  <2>1. CASE Both /\ state' = state /\ started' = started \cup {"rollback"}
    BY <1>4, <2>1, AnnounceImplements DEF StageProvider
  <2>2. CASE UNCHANGED started
    BY <1>4, <2>2, QuietImplements DEF StageProvider, Quiet
  <2> QED BY <1>4, <2>1, <2>2 DEF StageProvider
<1>5. CASE Transition BY <1>5, TransitionImplements
<1>6. CASE ActionCompletes BY <1>6, ProviderImplements
<1>7. CASE UNCHANGED vars BY <1>7, QuietImplements DEF vars, Quiet
<1> QED BY <1>1, <1>2, <1>3, <1>4, <1>5, <1>6, <1>7, CommandQuiet,
      ProcessQuiet, EnvironmentQuiet DEF Next

\* A DataForest rotation is a handover: what comes is NEW, what leaves was
\* announced on disk with both addresses there, and the end has NEW alone.
THEOREM HandoverRefinement == Spec => ImplementsHandover
<1>1. Init => Handover!Init
  BY AddressAssumption DEF Init, Handover!Init, Held
<1>2. IInv /\ [Next]_vars => [Handover!Next]_(Handover!vars)
  BY StepImplements
<1> QED BY <1>1, <1>2, Invariance, PTL DEF Spec, ImplementsHandover, Handover!Spec

=============================================================================
