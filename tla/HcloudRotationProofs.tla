------------------------ MODULE HcloudRotationProofs ------------------------
(***************************************************************************)
(* Proofs about HcloudRotation: its types, the inductive invariant IInv    *)
(* and the safety properties that follow from it, for every set of         *)
(* transactions, every limit and every number of faults.                   *)
(***************************************************************************)
EXTENDS HcloudRotation, FiniteSetTheorems, TLAPS

USE DEF StepStates, PlanStates, States, RestartOnly, Restore, Pausable,
        ProcessCounters, Outcomes, BeforeDetach, AfterAttach, AssertsIdentity

-----------------------------------------------------------------------------
(* Types.                                                                  *)

\* The three ways a step can leave the process keep the control's types.
LEMMA GotoControl ==
  ASSUME ControlOK, NEW t \in Tx, NEW p \in ProcessCounters, Goto(t, p)
  PROVE  ControlOK'
  BY DEF ControlOK, Goto

LEMMA EscalateControl ==
  ASSUME ControlOK, NEW t \in Tx, Escalate(t)
  PROVE  ControlOK'
  BY DEF ControlOK, Escalate

LEMMA FailControl ==
  ASSUME ControlOK, NEW t \in Tx, Fail(t)
  PROVE  ControlOK'
<1>1. CASE Goto(t, "restart") BY <1>1, GotoControl
<1>2. CASE Escalate(t) BY <1>2, EscalateControl
<1>3. CASE /\ pc' = [pc EXCEPT ![t] = "r_begin"]
           /\ via' = [via EXCEPT ![t] = "step"]
           /\ UNCHANGED <<state, resume, outcome>>
  BY <1>3 DEF ControlOK
<1> QED BY <1>1, <1>2, <1>3 DEF Fail

LEMMA AnsweredControl ==
  ASSUME ControlOK, NEW t \in Tx, NEW p \in ProcessCounters, Answered(t, p)
  PROVE  ControlOK'
  BY GotoControl, FailControl DEF Answered

LEMMA RestoreFailsControl ==
  ASSUME ControlOK, NEW t \in Tx, RestoreFails(t)
  PROVE  ControlOK'
  BY GotoControl, EscalateControl DEF RestoreFails

LEMMA RestoreAnsweredControl ==
  ASSUME ControlOK, NEW t \in Tx, NEW p \in ProcessCounters, RestoreAnswered(t, p)
  PROVE  ControlOK'
  BY GotoControl, RestoreFailsControl DEF RestoreAnswered

\* A command of the operator keeps every variable in its type.
LEMMA CommandType ==
  ASSUME TypeOK, NEW t \in Tx, Command(t)
  PROVE  TypeOK'
<1> USE DEF TypeOK
<1>1. CASE PlanRead(t)
  <2>1. ControlOK' BY <1>1 DEF ControlOK, PlanRead, NoFault, facts, world
  <2>2. FactsOK' BY <1>1 DEF FactsOK, PlanRead, NoFault, facts, world
  <2>3. WorldOK' BY <1>1, AddressAssumption, ConfigAssumption DEF WorldOK,
      FactsOK, PlanRead, NoFault, facts, world
  <2> QED BY <2>1, <2>2, <2>3
<1>2. CASE Resume(t)
  <2>1. ControlOK' BY <1>2 DEF ControlOK, Resume, NoFault, facts, world
  <2>2. FactsOK' BY <1>2 DEF FactsOK, Resume, NoFault, facts, world
  <2>3. WorldOK' BY <1>2, AddressAssumption, ConfigAssumption DEF WorldOK,
      FactsOK, Resume, NoFault, facts, world
  <2> QED BY <2>1, <2>2, <2>3
<1>3. CASE Rollback(t, "command")
  <2>1. ControlOK' BY <1>3 DEF ControlOK, Rollback, NoFault, facts, world
  <2>2. FactsOK' BY <1>3 DEF FactsOK, Rollback, NoFault, facts, world
  <2>3. WorldOK' BY <1>3, AddressAssumption, ConfigAssumption DEF WorldOK,
      FactsOK, Rollback, NoFault, facts, world
  <2> QED BY <2>1, <2>2, <2>3
<1>4. CASE Rollback(t, "no_dns")
  <2>1. ControlOK' BY <1>4 DEF ControlOK, Rollback, NoFault, facts, world
  <2>2. FactsOK' BY <1>4 DEF FactsOK, Rollback, NoFault, facts, world
  <2>3. WorldOK' BY <1>4, AddressAssumption, ConfigAssumption DEF WorldOK,
      FactsOK, Rollback, NoFault, facts, world
  <2> QED BY <2>1, <2>2, <2>3
<1>5. CASE ReleaseOldIp(t)
  <2>1. ControlOK' BY <1>5, GotoControl DEF ControlOK, ReleaseOldIp, Finished,
      Unassigned, Attached, Fault, NoFault, control, facts
  <2>2. FactsOK' BY <1>5 DEF FactsOK, ReleaseOldIp, Finished, Unassigned,
      Attached, Goto, Fault, NoFault, control, facts
  <2>3. WorldOK' BY <1>5, AddressAssumption, ConfigAssumption DEF WorldOK,
      FactsOK, ReleaseOldIp, Finished, Unassigned, Attached, Goto, Fault,
      NoFault, control, facts
  <2> QED BY <2>1, <2>2, <2>3
<1>6. CASE DeclareAnsible(t)
  <2>1. ControlOK' BY <1>6 DEF ControlOK, DeclareAnsible, NoFault, world
  <2>2. FactsOK' BY <1>6 DEF FactsOK, DeclareAnsible, NoFault, world
  <2>3. WorldOK' BY <1>6, AddressAssumption, ConfigAssumption DEF WorldOK,
      FactsOK, DeclareAnsible, NoFault, world
  <2> QED BY <2>1, <2>2, <2>3
<1>7. CASE DeclareDns(t)
  <2>1. ControlOK' BY <1>7 DEF ControlOK, DeclareDns, Reachable, NoFault,
      facts, world
  <2>2. FactsOK' BY <1>7 DEF FactsOK, DeclareDns, Reachable, NoFault, facts,
      world
  <2>3. WorldOK' BY <1>7, AddressAssumption, ConfigAssumption DEF WorldOK,
      FactsOK, DeclareDns, Reachable, NoFault, facts, world
  <2> QED BY <2>1, <2>2, <2>3
<1> QED BY <1>1, <1>2, <1>3, <1>4, <1>5, <1>6, <1>7 DEF Command

\* A forward step keeps every variable in its type.
LEMMA StepForwardType ==
  ASSUME TypeOK, NEW t \in Tx, StepForward(t)
  PROVE  TypeOK'
<1> USE DEF TypeOK
<1>1. CASE StepFails(t)
  <2>1. ControlOK' BY <1>1, FailControl DEF ControlOK, StepFails, MustPause,
      Fault, facts, world
  <2>2. FactsOK' BY <1>1 DEF FactsOK, StepFails, MustPause, Fail, Escalate,
      Goto, Fault, facts, world
  <2>3. WorldOK' BY <1>1, AddressAssumption, ConfigAssumption DEF WorldOK,
      FactsOK, StepFails, MustPause, Fail, Escalate, Goto, Fault, facts, world
  <2> QED BY <2>1, <2>2, <2>3
<1>2. CASE IdentityMismatch(t)
  <2>1. ControlOK' BY <1>2, EscalateControl DEF ControlOK, IdentityMismatch,
      Expected, NoFault, facts, world
  <2>2. FactsOK' BY <1>2 DEF FactsOK, IdentityMismatch, Expected, Escalate,
      NoFault, facts, world
  <2>3. WorldOK' BY <1>2, AddressAssumption, ConfigAssumption DEF WorldOK,
      FactsOK, IdentityMismatch, Expected, Escalate, NoFault, facts, world
  <2> QED BY <2>1, <2>2, <2>3
<1>3. CASE Preflight(t)
  <2>1. ControlOK' BY <1>3, EscalateControl, GotoControl DEF ControlOK,
      Preflight, At, NoFault, facts, world
  <2>2. FactsOK' BY <1>3 DEF FactsOK, Preflight, At, Escalate, Goto, NoFault,
      facts, world
  <2>3. WorldOK' BY <1>3, AddressAssumption, ConfigAssumption DEF WorldOK,
      FactsOK, Preflight, At, Escalate, Goto, NoFault, facts, world
  <2> QED BY <2>1, <2>2, <2>3
<1>4. CASE Allocate(t)
  <2>1. ControlOK' BY <1>4, AnsweredControl DEF ControlOK, Allocate, At,
      Identified, Expected, facts
  <2>2. FactsOK' BY <1>4 DEF FactsOK, Allocate, At, Identified, Expected,
      Answered, Fail, Escalate, Goto, Fault, NoFault, facts
  <2>3. WorldOK' BY <1>4, AddressAssumption, ConfigAssumption DEF WorldOK,
      FactsOK, Allocate, At, Identified, Expected, Answered, Fail, Escalate,
      Goto, Fault, NoFault, facts
  <2> QED BY <2>1, <2>2, <2>3
<1>5. CASE AllocateQuota(t)
  <2>1. ControlOK' BY <1>5, FailControl, GotoControl DEF ControlOK,
      AllocateQuota, At, Identified, Expected, Unassigned, Attached, NoFault,
      facts, world
  <2>2. FactsOK' BY <1>5 DEF FactsOK, WorldOK, AllocateQuota, At, Identified,
      Expected, Unassigned, Attached, Fail, Escalate, Goto, NoFault, facts,
      world
  <2>3. WorldOK' BY <1>5, AddressAssumption, ConfigAssumption DEF WorldOK,
      FactsOK, AllocateQuota, At, Identified, Expected, Unassigned, Attached,
      Fail, Escalate, Goto, NoFault, facts, world
  <2> QED BY <2>1, <2>2, <2>3
<1>6. CASE QuotaRelease(t)
  <2>1. ControlOK' BY <1>6, AnsweredControl, FailControl DEF ControlOK,
      QuotaRelease, Unassigned, Attached, NoFault, facts
  <2>2. FactsOK' BY <1>6 DEF FactsOK, QuotaRelease, Unassigned, Attached,
      Answered, Fail, Escalate, Goto, Fault, NoFault, facts
  <2>3. WorldOK' BY <1>6, AddressAssumption, ConfigAssumption DEF WorldOK,
      FactsOK, QuotaRelease, Unassigned, Attached, Answered, Fail, Escalate,
      Goto, Fault, NoFault, facts
  <2> QED BY <2>1, <2>2, <2>3
<1>7. CASE AllocateAgain(t)
  <2>1. ControlOK' BY <1>7, AnsweredControl, FailControl DEF ControlOK,
      AllocateAgain, NoFault, facts
  <2>2. FactsOK' BY <1>7 DEF FactsOK, AllocateAgain, Answered, Fail, Escalate,
      Goto, Fault, NoFault, facts
  <2>3. WorldOK' BY <1>7, AddressAssumption, ConfigAssumption DEF WorldOK,
      FactsOK, AllocateAgain, Answered, Fail, Escalate, Goto, Fault, NoFault,
      facts
  <2> QED BY <2>1, <2>2, <2>3
<1>8. CASE Protect(t)
  <2>1. ControlOK' BY <1>8, AnsweredControl DEF ControlOK, Protect, At,
      Identified, Expected, facts
  <2>2. FactsOK' BY <1>8 DEF FactsOK, Protect, At, Identified, Expected,
      Answered, Fail, Escalate, Goto, Fault, NoFault, facts
  <2>3. WorldOK' BY <1>8, AddressAssumption, ConfigAssumption DEF WorldOK,
      FactsOK, Protect, At, Identified, Expected, Answered, Fail, Escalate,
      Goto, Fault, NoFault, facts
  <2> QED BY <2>1, <2>2, <2>3
<1>9. CASE RecordProtect(t)
  <2>1. ControlOK' BY <1>9, GotoControl DEF ControlOK, RecordProtect, NoFault,
      world
  <2>2. FactsOK' BY <1>9 DEF FactsOK, RecordProtect, Goto, NoFault, world
  <2>3. WorldOK' BY <1>9, AddressAssumption, ConfigAssumption DEF WorldOK,
      FactsOK, RecordProtect, Goto, NoFault, world
  <2> QED BY <2>1, <2>2, <2>3
<1>10. CASE Stop(t)
  <2>1. ControlOK' BY <1>10, AnsweredControl, FailControl DEF ControlOK, Stop,
      Identified, Expected, Fault, facts
  <2>2. FactsOK' BY <1>10 DEF FactsOK, Stop, Identified, Expected, Answered,
      Fail, Escalate, Goto, Fault, NoFault, facts
  <2>3. WorldOK' BY <1>10, AddressAssumption, ConfigAssumption DEF WorldOK,
      FactsOK, Stop, Identified, Expected, Answered, Fail, Escalate, Goto,
      Fault, NoFault, facts
  <2> QED BY <2>1, <2>2, <2>3
<1>11. CASE Unassign(t)
  <2>1. ControlOK' BY <1>11, AnsweredControl DEF ControlOK, Unassign, At,
      Identified, Expected, facts
  <2>2. FactsOK' BY <1>11 DEF FactsOK, Unassign, At, Identified, Expected,
      Answered, Fail, Escalate, Goto, Fault, NoFault, facts
  <2>3. WorldOK' BY <1>11, AddressAssumption, ConfigAssumption DEF WorldOK,
      FactsOK, Unassign, At, Identified, Expected, Answered, Fail, Escalate,
      Goto, Fault, NoFault, facts
  <2> QED BY <2>1, <2>2, <2>3
<1>12. CASE Assign(t)
  <2>1. ControlOK' BY <1>12, AnsweredControl, FailControl DEF ControlOK,
      Assign, At, Identified, Expected, NoFault, facts
  <2>2. FactsOK' BY <1>12 DEF FactsOK, Assign, At, Identified, Expected,
      Answered, Fail, Escalate, Goto, Fault, NoFault, facts
  <2>3. WorldOK' BY <1>12, AddressAssumption, ConfigAssumption DEF WorldOK,
      FactsOK, Assign, At, Identified, Expected, Answered, Fail, Escalate,
      Goto, Fault, NoFault, facts
  <2> QED BY <2>1, <2>2, <2>3
<1>13. CASE Start(t)
  <2>1. ControlOK' BY <1>13, AnsweredControl, FailControl DEF ControlOK, Start,
      At, Identified, Expected, Fault, facts
  <2>2. FactsOK' BY <1>13 DEF FactsOK, Start, At, Identified, Expected,
      Answered, Fail, Escalate, Goto, Fault, NoFault, facts
  <2>3. WorldOK' BY <1>13, AddressAssumption, ConfigAssumption DEF WorldOK,
      FactsOK, Start, At, Identified, Expected, Answered, Fail, Escalate, Goto,
      Fault, NoFault, facts
  <2> QED BY <2>1, <2>2, <2>3
<1>14. CASE Health(t)
  <2>1. ControlOK' BY <1>14, FailControl, GotoControl DEF ControlOK, Health,
      At, Reachable, NoFault, facts, world
  <2>2. FactsOK' BY <1>14 DEF FactsOK, Health, At, Reachable, Fail, Escalate,
      Goto, NoFault, facts, world
  <2>3. WorldOK' BY <1>14, AddressAssumption, ConfigAssumption DEF WorldOK,
      FactsOK, Health, At, Reachable, Fail, Escalate, Goto, NoFault, facts,
      world
  <2> QED BY <2>1, <2>2, <2>3
<1>15. CASE Ansible(t)
  <2>1. ControlOK' BY <1>15, EscalateControl, GotoControl DEF ControlOK,
      Ansible, At, MustPause, Fault, NoFault, Moved
  <2>2. FactsOK' BY <1>15 DEF FactsOK, Ansible, At, MustPause, Escalate, Goto,
      Fault, NoFault, Moved
  <2>3. WorldOK' BY <1>15, AddressAssumption, ConfigAssumption DEF WorldOK,
      FactsOK, Ansible, At, MustPause, Escalate, Goto, Fault, NoFault, Moved
  <2> QED BY <2>1, <2>2, <2>3
<1>16. CASE ReplaceMark(t)
  <2>1. ControlOK' BY <1>16, GotoControl DEF ControlOK, ReplaceMark, At,
      NoFault, world
  <2>2. FactsOK' BY <1>16 DEF FactsOK, ReplaceMark, At, Goto, NoFault, world
  <2>3. WorldOK' BY <1>16, AddressAssumption, ConfigAssumption DEF WorldOK,
      FactsOK, ReplaceMark, At, Goto, NoFault, world
  <2> QED BY <2>1, <2>2, <2>3
<1>17. CASE ReplaceRefused(t)
  <2>1. ControlOK' BY <1>17, EscalateControl DEF ControlOK, ReplaceRefused, At,
      NoFault, facts, world
  <2>2. FactsOK' BY <1>17 DEF FactsOK, ReplaceRefused, At, Escalate, NoFault,
      facts, world
  <2>3. WorldOK' BY <1>17, AddressAssumption, ConfigAssumption DEF WorldOK,
      FactsOK, ReplaceRefused, At, Escalate, NoFault, facts, world
  <2> QED BY <2>1, <2>2, <2>3
<1>18. CASE Replace(t)
  <2>1. ControlOK' BY <1>18, FailControl, EscalateControl, GotoControl
      DEF ControlOK, Replace, Fault, NoFault, Moved
  <2>2. FactsOK' BY <1>18 DEF FactsOK, Replace, Fail, Escalate, Goto, Fault,
      NoFault, Moved
  <2>3. WorldOK' BY <1>18, AddressAssumption, ConfigAssumption DEF WorldOK,
      FactsOK, Replace, Fail, Escalate, Goto, Fault, NoFault, Moved
  <2> QED BY <2>1, <2>2, <2>3
<1>19. CASE RecordReplace(t)
  <2>1. ControlOK' BY <1>19, GotoControl DEF ControlOK, RecordReplace, NoFault,
      world
  <2>2. FactsOK' BY <1>19 DEF FactsOK, RecordReplace, Goto, NoFault, world
  <2>3. WorldOK' BY <1>19, AddressAssumption, ConfigAssumption DEF WorldOK,
      FactsOK, RecordReplace, Goto, NoFault, world
  <2> QED BY <2>1, <2>2, <2>3
<1>20. CASE Verify(t)
  <2>1. ControlOK' BY <1>20, EscalateControl, GotoControl DEF ControlOK,
      Verify, At, Identified, Expected, Reachable, NoFault, facts, world
  <2>2. FactsOK' BY <1>20 DEF FactsOK, Verify, At, Identified, Expected,
      Reachable, Escalate, Goto, NoFault, facts, world
  <2>3. WorldOK' BY <1>20, AddressAssumption, ConfigAssumption DEF WorldOK,
      FactsOK, Verify, At, Identified, Expected, Reachable, Escalate, Goto,
      NoFault, facts, world
  <2> QED BY <2>1, <2>2, <2>3
<1>21. CASE Transition(t)
  <2>1. ControlOK' BY <1>21 DEF ControlOK, Transition, NoFault, StepTo, facts,
      world
  <2>2. FactsOK' BY <1>21 DEF FactsOK, Transition, NoFault, StepTo, facts, world
  <2>3. WorldOK' BY <1>21, AddressAssumption, ConfigAssumption DEF WorldOK,
      FactsOK, Transition, NoFault, StepTo, facts, world
  <2> QED BY <2>1, <2>2, <2>3
<1>22. CASE Finish(t)
  <2>1. ControlOK' BY <1>22 DEF ControlOK, Finish, NoFault, facts, world
  <2>2. FactsOK' BY <1>22 DEF FactsOK, Finish, NoFault, facts, world
  <2>3. WorldOK' BY <1>22, AddressAssumption, ConfigAssumption DEF WorldOK,
      FactsOK, Finish, NoFault, facts, world
  <2> QED BY <2>1, <2>2, <2>3
<1> QED BY <1>1, <1>2, <1>3, <1>4, <1>5, <1>6, <1>7, <1>8, <1>9, <1>10, <1>11,
      <1>12, <1>13, <1>14, <1>15, <1>16, <1>17, <1>18, <1>19, <1>20, <1>21,
      <1>22 DEF StepForward

\* A step of a remedy keeps every variable in its type.
LEMMA RemedyType ==
  ASSUME TypeOK, NEW t \in Tx, Remedy(t)
  PROVE  TypeOK'
<1> USE DEF TypeOK
<1>1. CASE Restart(t)
  <2>1. ControlOK' BY <1>1, EscalateControl, GotoControl DEF ControlOK,
      Restart, Fault, NoFault, PowerOn, facts
  <2>2. FactsOK' BY <1>1 DEF FactsOK, Restart, Escalate, Goto, Fault, NoFault,
      PowerOn, facts
  <2>3. WorldOK' BY <1>1, AddressAssumption, ConfigAssumption DEF WorldOK,
      FactsOK, Restart, Escalate, Goto, Fault, NoFault, PowerOn, facts
  <2> QED BY <2>1, <2>2, <2>3
<1>2. CASE RecordRestart(t)
  <2>1. ControlOK' BY <1>2 DEF ControlOK, RecordRestart, NoFault, facts, world
  <2>2. FactsOK' BY <1>2 DEF FactsOK, RecordRestart, NoFault, facts, world
  <2>3. WorldOK' BY <1>2, AddressAssumption, ConfigAssumption DEF WorldOK,
      FactsOK, RecordRestart, NoFault, facts, world
  <2> QED BY <2>1, <2>2, <2>3
<1>3. CASE RestoreBegin(t)
  <2>1. ControlOK' BY <1>3 DEF ControlOK, RestoreBegin, NoFault, facts, world
  <2>2. FactsOK' BY <1>3 DEF FactsOK, RestoreBegin, NoFault, facts, world
  <2>3. WorldOK' BY <1>3, AddressAssumption, ConfigAssumption DEF WorldOK,
      FactsOK, RestoreBegin, NoFault, facts, world
  <2> QED BY <2>1, <2>2, <2>3
<1>4. CASE RestoreRead(t)
  <2>1. ControlOK' BY <1>4, GotoControl DEF ControlOK, RestoreRead, NoFault,
      facts, world
  <2>2. FactsOK' BY <1>4 DEF FactsOK, RestoreRead, Goto, NoFault, facts, world
  <2>3. WorldOK' BY <1>4, AddressAssumption, ConfigAssumption DEF WorldOK,
      FactsOK, RestoreRead, Goto, NoFault, facts, world
  <2> QED BY <2>1, <2>2, <2>3
<1>5. CASE RestoreCallFails(t)
  <2>1. ControlOK' BY <1>5, RestoreFailsControl DEF ControlOK,
      RestoreCallFails, Fault, facts, world
  <2>2. FactsOK' BY <1>5 DEF FactsOK, RestoreCallFails, RestoreFails, Escalate,
      Goto, Fault, facts, world
  <2>3. WorldOK' BY <1>5, AddressAssumption, ConfigAssumption DEF WorldOK,
      FactsOK, RestoreCallFails, RestoreFails, Escalate, Goto, Fault, facts,
      world
  <2> QED BY <2>1, <2>2, <2>3
<1>6. CASE RestoreStop(t)
  <2>1. ControlOK' BY <1>6, GotoControl, RestoreAnsweredControl DEF ControlOK,
      RestoreStop, Fault, facts
  <2>2. FactsOK' BY <1>6 DEF FactsOK, RestoreStop, RestoreAnswered,
      RestoreFails, Escalate, Goto, Fault, NoFault, facts
  <2>3. WorldOK' BY <1>6, AddressAssumption, ConfigAssumption DEF WorldOK,
      FactsOK, RestoreStop, RestoreAnswered, RestoreFails, Escalate, Goto,
      Fault, NoFault, facts
  <2> QED BY <2>1, <2>2, <2>3
<1>7. CASE RestoreAssign(t)
  <2>1. ControlOK' BY <1>7, RestoreFailsControl, RestoreAnsweredControl
      DEF ControlOK, RestoreAssign, Fault, NoFault, facts
  <2>2. FactsOK' BY <1>7 DEF FactsOK, RestoreAssign, RestoreAnswered,
      RestoreFails, Escalate, Goto, Fault, NoFault, facts
  <2>3. WorldOK' BY <1>7, AddressAssumption, ConfigAssumption DEF WorldOK,
      FactsOK, RestoreAssign, RestoreAnswered, RestoreFails, Escalate, Goto,
      Fault, NoFault, facts
  <2> QED BY <2>1, <2>2, <2>3
<1>8. CASE RestoreStart(t)
  <2>1. ControlOK' BY <1>8, GotoControl, RestoreFailsControl DEF ControlOK,
      RestoreStart, Fault, NoFault, PowerOn, facts
  <2>2. FactsOK' BY <1>8 DEF FactsOK, RestoreStart, RestoreFails, Escalate,
      Goto, Fault, NoFault, PowerOn, facts
  <2>3. WorldOK' BY <1>8, AddressAssumption, ConfigAssumption DEF WorldOK,
      FactsOK, RestoreStart, RestoreFails, Escalate, Goto, Fault, NoFault,
      PowerOn, facts
  <2> QED BY <2>1, <2>2, <2>3
<1>9. CASE RestoreTail(t)
  <2>1. ControlOK' BY <1>9, GotoControl DEF ControlOK, RestoreTail, Fault,
      NoFault, DnsRollback, DnsWasDone, Moved, facts
  <2>2. FactsOK' BY <1>9 DEF FactsOK, RestoreTail, Goto, Fault, NoFault,
      DnsRollback, DnsWasDone, Moved, facts
  <2>3. WorldOK' BY <1>9, AddressAssumption, ConfigAssumption DEF WorldOK,
      FactsOK, RestoreTail, Goto, Fault, NoFault, DnsRollback, DnsWasDone,
      Moved, facts
  <2> QED BY <2>1, <2>2, <2>3
<1>10. CASE RestoreEnd(t)
  <2>1. ControlOK' BY <1>10 DEF ControlOK, RestoreEnd, NoFault, facts, world
  <2>2. FactsOK' BY <1>10 DEF FactsOK, RestoreEnd, NoFault, facts, world
  <2>3. WorldOK' BY <1>10, AddressAssumption, ConfigAssumption DEF WorldOK,
      FactsOK, RestoreEnd, NoFault, facts, world
  <2> QED BY <2>1, <2>2, <2>3
<1> QED BY <1>1, <1>2, <1>3, <1>4, <1>5, <1>6, <1>7, <1>8, <1>9, <1>10
      DEF Remedy

\* The rest of a running process keeps every variable in its type.
LEMMA ProcessType ==
  ASSUME TypeOK, NEW t \in Tx, Process(t)
  PROVE  TypeOK'
<1> USE DEF TypeOK
<1>1. CASE PlanValidate(t)
  <2>1. ControlOK' BY <1>1 DEF ControlOK, PlanValidate, NoFault, facts, world
  <2>2. FactsOK' BY <1>1 DEF FactsOK, PlanValidate, NoFault, facts, world
  <2>3. WorldOK' BY <1>1, AddressAssumption, ConfigAssumption DEF WorldOK,
      FactsOK, PlanValidate, NoFault, facts, world
  <2> QED BY <2>1, <2>2, <2>3
<1>2. CASE PlanFinish(t)
  <2>1. ControlOK' BY <1>2 DEF ControlOK, PlanFinish, NoFault, facts, world
  <2>2. FactsOK' BY <1>2 DEF FactsOK, PlanFinish, NoFault, facts, world
  <2>3. WorldOK' BY <1>2, AddressAssumption, ConfigAssumption DEF WorldOK,
      FactsOK, PlanFinish, NoFault, facts, world
  <2> QED BY <2>1, <2>2, <2>3
<1>3. CASE Pause(t)
  <2>1. ControlOK' BY <1>3 DEF ControlOK, Pause, NoFault, facts, world
  <2>2. FactsOK' BY <1>3 DEF FactsOK, Pause, NoFault, facts, world
  <2>3. WorldOK' BY <1>3, AddressAssumption, ConfigAssumption DEF WorldOK,
      FactsOK, Pause, NoFault, facts, world
  <2> QED BY <2>1, <2>2, <2>3
<1>4. CASE DnsRollbackOnly(t)
  <2>1. ControlOK' BY <1>4, GotoControl DEF ControlOK, DnsRollbackOnly, Fault,
      NoFault, DnsRollback, DnsWasDone, Moved, facts
  <2>2. FactsOK' BY <1>4 DEF FactsOK, DnsRollbackOnly, Goto, Fault, NoFault,
      DnsRollback, DnsWasDone, Moved, facts
  <2>3. WorldOK' BY <1>4, AddressAssumption, ConfigAssumption DEF WorldOK,
      FactsOK, DnsRollbackOnly, Goto, Fault, NoFault, DnsRollback, DnsWasDone,
      Moved, facts
  <2> QED BY <2>1, <2>2, <2>3
<1>5. CASE RecordRelease(t)
  <2>1. ControlOK' BY <1>5, GotoControl DEF ControlOK, RecordRelease, NoFault,
      world
  <2>2. FactsOK' BY <1>5 DEF FactsOK, RecordRelease, Goto, NoFault, world
  <2>3. WorldOK' BY <1>5, AddressAssumption, ConfigAssumption DEF WorldOK,
      FactsOK, RecordRelease, Goto, NoFault, world
  <2> QED BY <2>1, <2>2, <2>3
<1>6. CASE StepForward(t) BY <1>6, StepForwardType
<1>7. CASE Remedy(t) BY <1>7, RemedyType
<1> QED BY <1>1, <1>2, <1>3, <1>4, <1>5, <1>6, <1>7 DEF Process

\* The environment keeps every variable in its type.
LEMMA EnvironmentType ==
  ASSUME TypeOK, NEW t \in Tx, Environment(t)
  PROVE  TypeOK'
<1> USE DEF TypeOK
<1>1. CASE BootFinishes(t)
  <2>1. ControlOK' BY <1>1 DEF ControlOK, BootFinishes, NoFault, control, facts
  <2>2. FactsOK' BY <1>1 DEF FactsOK, BootFinishes, NoFault, control, facts
  <2>3. WorldOK' BY <1>1, AddressAssumption, ConfigAssumption DEF WorldOK,
      FactsOK, BootFinishes, NoFault, control, facts
  <2> QED BY <2>1, <2>2, <2>3
<1>2. CASE BootFails(t)
  <2>1. ControlOK' BY <1>2 DEF ControlOK, BootFails, Fault, control, facts
  <2>2. FactsOK' BY <1>2 DEF FactsOK, BootFails, Fault, control, facts
  <2>3. WorldOK' BY <1>2, AddressAssumption, ConfigAssumption DEF WorldOK,
      FactsOK, BootFails, Fault, control, facts
  <2> QED BY <2>1, <2>2, <2>3
<1>3. CASE Crash(t)
  <2>1. ControlOK' BY <1>3, GotoControl DEF ControlOK, Crash, Fault, facts,
      world
  <2>2. FactsOK' BY <1>3 DEF FactsOK, Crash, Goto, Fault, facts, world
  <2>3. WorldOK' BY <1>3, AddressAssumption, ConfigAssumption DEF WorldOK,
      FactsOK, Crash, Goto, Fault, facts, world
  <2> QED BY <2>1, <2>2, <2>3
<1> QED BY <1>1, <1>2, <1>3 DEF Environment

-----------------------------------------------------------------------------
(* The invariant of the transaction that moves.                            *)

\* A command of the operator of t keeps the invariant of t.
LEMMA CommandInv ==
  ASSUME TypeOK, TypeOK', NEW t \in Tx, TxInv(t), Command(t)
  PROVE  TxInv(t)'
<1> USE AddressAssumption, ConfigAssumption
    DEF TypeOK, ControlOK, FactsOK, WorldOK, TxInv, Where
<1>1. CASE PlanRead(t)
  <2> USE <1>1 DEF PlanRead, NoFault, facts, world
  <2>1. PcFitsState(t)' BY DEF PcFitsState
  <2>2. PcFitsAddress(t)' BY DEF PcFitsAddress, PcFitsState, Located
  <2>3. Located(t)' BY DEF Located, PcFitsState, PcFitsAddress
  <2>4. OwnAddress(t)' BY DEF OwnAddress
  <2>5. ProtectionHolds(t)' BY DEF ProtectionHolds, PcFitsAddress, Located
  <2>6. ServingFollows(t)' BY DEF ServingFollows
  <2> QED BY <2>1, <2>2, <2>3, <2>4, <2>5, <2>6
<1>2. CASE Resume(t)
  <2> USE <1>2 DEF Resume, NoFault, facts, world
  <2>1. PcFitsState(t)' BY DEF PcFitsState
  <2>2. PcFitsAddress(t)' BY DEF PcFitsAddress, PcFitsState, Located
  <2>3. Located(t)' BY DEF Located, PcFitsState, PcFitsAddress
  <2>4. OwnAddress(t)' BY DEF OwnAddress
  <2>5. ProtectionHolds(t)' BY DEF ProtectionHolds, PcFitsAddress, Located
  <2>6. ServingFollows(t)' BY DEF ServingFollows
  <2> QED BY <2>1, <2>2, <2>3, <2>4, <2>5, <2>6
<1>3. CASE Rollback(t, "command")
  <2> USE <1>3 DEF Rollback, NoFault, facts, world
  <2>1. PcFitsState(t)' BY DEF PcFitsState
  <2>2. PcFitsAddress(t)' BY DEF PcFitsAddress, PcFitsState, Located
  <2>3. Located(t)' BY DEF Located, PcFitsState, PcFitsAddress
  <2>4. OwnAddress(t)' BY DEF OwnAddress
  <2>5. ProtectionHolds(t)' BY DEF ProtectionHolds, PcFitsAddress, Located
  <2>6. ServingFollows(t)' BY DEF ServingFollows
  <2> QED BY <2>1, <2>2, <2>3, <2>4, <2>5, <2>6
<1>4. CASE Rollback(t, "no_dns")
  <2> USE <1>4 DEF Rollback, NoFault, facts, world
  <2>1. PcFitsState(t)' BY DEF PcFitsState
  <2>2. PcFitsAddress(t)' BY DEF PcFitsAddress, PcFitsState, Located
  <2>3. Located(t)' BY DEF Located, PcFitsState, PcFitsAddress
  <2>4. OwnAddress(t)' BY DEF OwnAddress
  <2>5. ProtectionHolds(t)' BY DEF ProtectionHolds, PcFitsAddress, Located
  <2>6. ServingFollows(t)' BY DEF ServingFollows
  <2> QED BY <2>1, <2>2, <2>3, <2>4, <2>5, <2>6
<1>5. CASE ReleaseOldIp(t)
  <2> USE <1>5 DEF ReleaseOldIp, Finished, Unassigned, Attached, Goto,
      Fault, NoFault, control, facts
  <2>1. PcFitsState(t)' BY DEF PcFitsState
  <2>2. PcFitsAddress(t)' BY DEF PcFitsAddress, PcFitsState, Located
  <2>3. Located(t)' BY DEF Located, PcFitsState, PcFitsAddress
  <2>4. OwnAddress(t)' BY DEF OwnAddress
  <2>5. ProtectionHolds(t)' BY DEF ProtectionHolds, PcFitsAddress, Located
  <2>6. ServingFollows(t)' BY DEF ServingFollows
  <2> QED BY <2>1, <2>2, <2>3, <2>4, <2>5, <2>6
<1>6. CASE DeclareAnsible(t)
  <2> USE <1>6 DEF DeclareAnsible, NoFault, world
  <2>1. PcFitsState(t)' BY DEF PcFitsState
  <2>2. PcFitsAddress(t)' BY DEF PcFitsAddress, PcFitsState, Located
  <2>3. Located(t)' BY DEF Located, PcFitsState, PcFitsAddress
  <2>4. OwnAddress(t)' BY DEF OwnAddress
  <2>5. ProtectionHolds(t)' BY DEF ProtectionHolds, PcFitsAddress, Located
  <2>6. ServingFollows(t)' BY DEF ServingFollows
  <2> QED BY <2>1, <2>2, <2>3, <2>4, <2>5, <2>6
<1>7. CASE DeclareDns(t)
  <2> USE <1>7 DEF DeclareDns, Reachable, NoFault, facts, world
  <2>1. PcFitsState(t)' BY DEF PcFitsState
  <2>2. PcFitsAddress(t)' BY DEF PcFitsAddress, PcFitsState, Located
  <2>3. Located(t)' BY DEF Located, PcFitsState, PcFitsAddress
  <2>4. OwnAddress(t)' BY DEF OwnAddress
  <2>5. ProtectionHolds(t)' BY DEF ProtectionHolds, PcFitsAddress, Located
  <2>6. ServingFollows(t)' BY DEF ServingFollows
  <2> QED BY <2>1, <2>2, <2>3, <2>4, <2>5, <2>6
<1> QED BY <1>1, <1>2, <1>3, <1>4, <1>5, <1>6, <1>7 DEF Command

\* A forward step of t keeps the invariant of t.
LEMMA StepForwardInv ==
  ASSUME TypeOK, TypeOK', NEW t \in Tx, TxInv(t), StepForward(t)
  PROVE  TxInv(t)'
<1> USE AddressAssumption, ConfigAssumption
    DEF TypeOK, ControlOK, FactsOK, WorldOK, TxInv, Where
<1>1. CASE StepFails(t)
  <2> USE <1>1 DEF StepFails, MustPause, Fail, Escalate, Goto, Fault, facts,
      world
  <2>1. PcFitsState(t)' BY DEF PcFitsState
  <2>2. PcFitsAddress(t)' BY DEF PcFitsAddress, PcFitsState, Located
  <2>3. Located(t)' BY DEF Located, PcFitsState, PcFitsAddress
  <2>4. OwnAddress(t)' BY DEF OwnAddress
  <2>5. ProtectionHolds(t)' BY DEF ProtectionHolds, PcFitsAddress, Located
  <2>6. ServingFollows(t)' BY DEF ServingFollows
  <2> QED BY <2>1, <2>2, <2>3, <2>4, <2>5, <2>6
<1>2. CASE IdentityMismatch(t)
  <2> USE <1>2 DEF IdentityMismatch, Expected, Escalate, NoFault, facts,
      world
  <2>1. PcFitsState(t)' BY DEF PcFitsState
  <2>2. PcFitsAddress(t)' BY DEF PcFitsAddress, PcFitsState, Located
  <2>3. Located(t)' BY DEF Located, PcFitsState, PcFitsAddress
  <2>4. OwnAddress(t)' BY DEF OwnAddress
  <2>5. ProtectionHolds(t)' BY DEF ProtectionHolds, PcFitsAddress, Located
  <2>6. ServingFollows(t)' BY DEF ServingFollows
  <2> QED BY <2>1, <2>2, <2>3, <2>4, <2>5, <2>6
<1>3. CASE Preflight(t)
  <2> USE <1>3 DEF Preflight, At, Escalate, Goto, NoFault, facts, world
  <2>1. PcFitsState(t)' BY DEF PcFitsState
  <2>2. PcFitsAddress(t)' BY DEF PcFitsAddress, PcFitsState, Located
  <2>3. Located(t)' BY DEF Located, PcFitsState, PcFitsAddress
  <2>4. OwnAddress(t)' BY DEF OwnAddress
  <2>5. ProtectionHolds(t)' BY DEF ProtectionHolds, PcFitsAddress, Located
  <2>6. ServingFollows(t)' BY DEF ServingFollows
  <2> QED BY <2>1, <2>2, <2>3, <2>4, <2>5, <2>6
<1>4. CASE Allocate(t)
  <2> USE <1>4 DEF Allocate, At, Identified, Expected, Answered, Fail,
      Escalate, Goto, Fault, NoFault, facts
  <2>1. PcFitsState(t)' BY DEF PcFitsState
  <2>2. PcFitsAddress(t)' BY DEF PcFitsAddress, PcFitsState, Located
  <2>3. Located(t)' BY DEF Located, PcFitsState, PcFitsAddress
  <2>4. OwnAddress(t)' BY DEF OwnAddress
  <2>5. ProtectionHolds(t)' BY DEF ProtectionHolds, PcFitsAddress, Located
  <2>6. ServingFollows(t)' BY DEF ServingFollows
  <2> QED BY <2>1, <2>2, <2>3, <2>4, <2>5, <2>6
<1>5. CASE AllocateQuota(t)
  <2> USE <1>5 DEF AllocateQuota, At, Identified, Expected, Unassigned,
      Attached, Fail, Escalate, Goto, NoFault, facts, world
  <2>1. PcFitsState(t)' BY DEF PcFitsState
  <2>2. PcFitsAddress(t)' BY DEF PcFitsAddress, PcFitsState, Located
  <2>3. Located(t)' BY DEF Located, PcFitsState, PcFitsAddress
  <2>4. OwnAddress(t)' BY DEF OwnAddress
  <2>5. ProtectionHolds(t)' BY DEF ProtectionHolds, PcFitsAddress, Located
  <2>6. ServingFollows(t)' BY DEF ServingFollows
  <2> QED BY <2>1, <2>2, <2>3, <2>4, <2>5, <2>6
<1>6. CASE QuotaRelease(t)
  <2> USE <1>6 DEF QuotaRelease, Unassigned, Attached, Answered, Fail,
      Escalate, Goto, Fault, NoFault, facts
  <2>1. PcFitsState(t)' BY DEF PcFitsState
  <2>2. PcFitsAddress(t)' BY DEF PcFitsAddress, PcFitsState, Located
  <2>3. Located(t)' BY DEF Located, PcFitsState, PcFitsAddress
  <2>4. OwnAddress(t)' BY DEF OwnAddress
  <2>5. ProtectionHolds(t)' BY DEF ProtectionHolds, PcFitsAddress, Located
  <2>6. ServingFollows(t)' BY DEF ServingFollows
  <2> QED BY <2>1, <2>2, <2>3, <2>4, <2>5, <2>6
<1>7. CASE AllocateAgain(t)
  <2> USE <1>7 DEF AllocateAgain, Answered, Fail, Escalate, Goto, Fault,
      NoFault, facts
  <2>1. PcFitsState(t)' BY DEF PcFitsState
  <2>2. PcFitsAddress(t)' BY DEF PcFitsAddress, PcFitsState, Located
  <2>3. Located(t)' BY DEF Located, PcFitsState, PcFitsAddress
  <2>4. OwnAddress(t)' BY DEF OwnAddress
  <2>5. ProtectionHolds(t)'
        BY DEF ProtectionHolds, PcFitsAddress, Located, PcFitsState
  <2>6. ServingFollows(t)' BY DEF ServingFollows, PcFitsState
  <2> QED BY <2>1, <2>2, <2>3, <2>4, <2>5, <2>6
<1>8. CASE Protect(t)
  <2> USE <1>8 DEF Protect, At, Identified, Expected, Answered, Fail,
      Escalate, Goto, Fault, NoFault, facts
  <2>1. PcFitsState(t)' BY DEF PcFitsState
  <2>2. PcFitsAddress(t)' BY DEF PcFitsAddress, PcFitsState, Located
  <2>3. Located(t)' BY DEF Located, PcFitsState, PcFitsAddress
  <2>4. OwnAddress(t)' BY DEF OwnAddress
  <2>5. ProtectionHolds(t)' BY DEF ProtectionHolds, PcFitsAddress, Located
  <2>6. ServingFollows(t)' BY DEF ServingFollows
  <2> QED BY <2>1, <2>2, <2>3, <2>4, <2>5, <2>6
<1>9. CASE RecordProtect(t)
  <2> USE <1>9 DEF RecordProtect, Goto, NoFault, world
  <2>1. PcFitsState(t)' BY DEF PcFitsState
  <2>2. PcFitsAddress(t)' BY DEF PcFitsAddress, PcFitsState, Located
  <2>3. Located(t)' BY DEF Located, PcFitsState, PcFitsAddress
  <2>4. OwnAddress(t)' BY DEF OwnAddress
  <2>5. ProtectionHolds(t)' BY DEF ProtectionHolds, PcFitsAddress, Located
  <2>6. ServingFollows(t)' BY DEF ServingFollows
  <2> QED BY <2>1, <2>2, <2>3, <2>4, <2>5, <2>6
<1>10. CASE Stop(t)
  <2> USE <1>10 DEF Stop, Identified, Expected, Answered, Fail, Escalate,
      Goto, Fault, NoFault, facts
  <2>1. PcFitsState(t)' BY DEF PcFitsState
  <2>2. PcFitsAddress(t)' BY DEF PcFitsAddress, PcFitsState, Located
  <2>3. Located(t)' BY DEF Located, PcFitsState, PcFitsAddress
  <2>4. OwnAddress(t)' BY DEF OwnAddress
  <2>5. ProtectionHolds(t)' BY DEF ProtectionHolds, PcFitsAddress, Located
  <2>6. ServingFollows(t)' BY DEF ServingFollows
  <2> QED BY <2>1, <2>2, <2>3, <2>4, <2>5, <2>6
<1>11. CASE Unassign(t)
  <2> USE <1>11 DEF Unassign, At, Identified, Expected, Answered, Fail,
      Escalate, Goto, Fault, NoFault, facts
  <2>1. PcFitsState(t)' BY DEF PcFitsState
  <2>2. PcFitsAddress(t)' BY DEF PcFitsAddress, PcFitsState, Located
  <2>3. Located(t)' BY DEF Located, PcFitsState, PcFitsAddress
  <2>4. OwnAddress(t)' BY DEF OwnAddress
  <2>5. ProtectionHolds(t)' BY DEF ProtectionHolds, PcFitsAddress, Located
  <2>6. ServingFollows(t)' BY DEF ServingFollows
  <2> QED BY <2>1, <2>2, <2>3, <2>4, <2>5, <2>6
<1>12. CASE Assign(t)
  <2> USE <1>12 DEF Assign, At, Identified, Expected, Answered, Fail,
      Escalate, Goto, Fault, NoFault, facts
  <2>1. PcFitsState(t)' BY DEF PcFitsState
  <2>2. PcFitsAddress(t)' BY DEF PcFitsAddress, PcFitsState, Located
  <2>3. Located(t)' BY DEF Located, PcFitsState, PcFitsAddress
  <2>4. OwnAddress(t)' BY DEF OwnAddress
  <2>5. ProtectionHolds(t)' BY DEF ProtectionHolds, PcFitsAddress, Located
  <2>6. ServingFollows(t)' BY DEF ServingFollows
  <2> QED BY <2>1, <2>2, <2>3, <2>4, <2>5, <2>6
<1>13. CASE Start(t)
  <2> USE <1>13 DEF Start, At, Identified, Expected, Answered, Fail,
      Escalate, Goto, Fault, NoFault, facts
  <2>1. PcFitsState(t)' BY DEF PcFitsState
  <2>2. PcFitsAddress(t)' BY DEF PcFitsAddress, PcFitsState, Located
  <2>3. Located(t)' BY DEF Located, PcFitsState, PcFitsAddress
  <2>4. OwnAddress(t)' BY DEF OwnAddress
  <2>5. ProtectionHolds(t)' BY DEF ProtectionHolds, PcFitsAddress, Located
  <2>6. ServingFollows(t)' BY DEF ServingFollows
  <2> QED BY <2>1, <2>2, <2>3, <2>4, <2>5, <2>6
<1>14. CASE Health(t)
  <2> USE <1>14 DEF Health, At, Reachable, Fail, Escalate, Goto, NoFault,
      facts, world
  <2>1. PcFitsState(t)' BY DEF PcFitsState
  <2>2. PcFitsAddress(t)' BY DEF PcFitsAddress, PcFitsState, Located
  <2>3. Located(t)' BY DEF Located, PcFitsState, PcFitsAddress
  <2>4. OwnAddress(t)' BY DEF OwnAddress
  <2>5. ProtectionHolds(t)' BY DEF ProtectionHolds, PcFitsAddress, Located
  <2>6. ServingFollows(t)' BY DEF ServingFollows
  <2> QED BY <2>1, <2>2, <2>3, <2>4, <2>5, <2>6
<1>15. CASE Ansible(t)
  <2> USE <1>15 DEF Ansible, At, MustPause, Escalate, Goto, Fault, NoFault,
      Moved
  <2>1. PcFitsState(t)' BY DEF PcFitsState
  <2>2. PcFitsAddress(t)' BY DEF PcFitsAddress, PcFitsState, Located
  <2>3. Located(t)' BY DEF Located, PcFitsState, PcFitsAddress
  <2>4. OwnAddress(t)' BY DEF OwnAddress
  <2>5. ProtectionHolds(t)' BY DEF ProtectionHolds, PcFitsAddress, Located
  <2>6. ServingFollows(t)' BY DEF ServingFollows
  <2> QED BY <2>1, <2>2, <2>3, <2>4, <2>5, <2>6
<1>16. CASE ReplaceMark(t)
  <2> USE <1>16 DEF ReplaceMark, At, Goto, NoFault, world
  <2>1. PcFitsState(t)' BY DEF PcFitsState
  <2>2. PcFitsAddress(t)' BY DEF PcFitsAddress, PcFitsState, Located
  <2>3. Located(t)' BY DEF Located, PcFitsState, PcFitsAddress
  <2>4. OwnAddress(t)' BY DEF OwnAddress
  <2>5. ProtectionHolds(t)' BY DEF ProtectionHolds, PcFitsAddress, Located
  <2>6. ServingFollows(t)' BY DEF ServingFollows
  <2> QED BY <2>1, <2>2, <2>3, <2>4, <2>5, <2>6
<1>17. CASE ReplaceRefused(t)
  <2> USE <1>17 DEF ReplaceRefused, At, Escalate, NoFault, facts, world
  <2>1. PcFitsState(t)' BY DEF PcFitsState
  <2>2. PcFitsAddress(t)' BY DEF PcFitsAddress, PcFitsState, Located
  <2>3. Located(t)' BY DEF Located, PcFitsState, PcFitsAddress
  <2>4. OwnAddress(t)' BY DEF OwnAddress
  <2>5. ProtectionHolds(t)' BY DEF ProtectionHolds, PcFitsAddress, Located
  <2>6. ServingFollows(t)' BY DEF ServingFollows
  <2> QED BY <2>1, <2>2, <2>3, <2>4, <2>5, <2>6
<1>18. CASE Replace(t)
  <2> USE <1>18 DEF Replace, Fail, Escalate, Goto, Fault, NoFault, Moved
  <2>1. PcFitsState(t)' BY DEF PcFitsState
  <2>2. PcFitsAddress(t)' BY DEF PcFitsAddress, PcFitsState, Located
  <2>3. Located(t)' BY DEF Located, PcFitsState, PcFitsAddress
  <2>4. OwnAddress(t)' BY DEF OwnAddress
  <2>5. ProtectionHolds(t)' BY DEF ProtectionHolds, PcFitsAddress, Located
  <2>6. ServingFollows(t)' BY DEF ServingFollows
  <2> QED BY <2>1, <2>2, <2>3, <2>4, <2>5, <2>6
<1>19. CASE RecordReplace(t)
  <2> USE <1>19 DEF RecordReplace, Goto, NoFault, world
  <2>1. PcFitsState(t)' BY DEF PcFitsState
  <2>2. PcFitsAddress(t)' BY DEF PcFitsAddress, PcFitsState, Located
  <2>3. Located(t)' BY DEF Located, PcFitsState, PcFitsAddress
  <2>4. OwnAddress(t)' BY DEF OwnAddress
  <2>5. ProtectionHolds(t)'
        BY DEF ProtectionHolds, PcFitsAddress, Located, PcFitsState
  <2>6. ServingFollows(t)' BY DEF ServingFollows, PcFitsState
  <2> QED BY <2>1, <2>2, <2>3, <2>4, <2>5, <2>6
<1>20. CASE Verify(t)
  <2> USE <1>20 DEF Verify, At, Identified, Expected, Reachable, Escalate,
      Goto, NoFault, facts, world
  <2>1. PcFitsState(t)' BY DEF PcFitsState
  <2>2. PcFitsAddress(t)' BY DEF PcFitsAddress, PcFitsState, Located
  <2>3. Located(t)' BY DEF Located, PcFitsState, PcFitsAddress
  <2>4. OwnAddress(t)' BY DEF OwnAddress
  <2>5. ProtectionHolds(t)' BY DEF ProtectionHolds, PcFitsAddress, Located
  <2>6. ServingFollows(t)' BY DEF ServingFollows
  <2> QED BY <2>1, <2>2, <2>3, <2>4, <2>5, <2>6
<1>21. CASE Transition(t)
  <2> USE <1>21 DEF Transition, NoFault, StepTo, facts, world
  <2>1. PcFitsState(t)' BY DEF PcFitsState
  <2>2. PcFitsAddress(t)' BY DEF PcFitsAddress, PcFitsState, Located
  <2>3. Located(t)'
    <3>1. /\ Where(t) = state[t] /\ Where(t)' = StepTo[state[t]]
          /\ ip'[t] = ip[t] /\ pc[t] = "recorded" /\ state[t] \in StepStates
      BY DEF Where, StepStates, ControlOK
    <3> HIDE <1>21 DEF Transition
    <3> QED BY <3>1 DEF Located, PcFitsAddress, StepStates, BeforeDetach,
      PlanStates, AfterAttach
  <2>4. OwnAddress(t)' BY DEF OwnAddress
  <2>5. ProtectionHolds(t)' BY DEF ProtectionHolds, PcFitsAddress, Located
  <2>6. ServingFollows(t)' BY DEF ServingFollows
  <2> QED BY <2>1, <2>2, <2>3, <2>4, <2>5, <2>6
<1>22. CASE Finish(t)
  <2> USE <1>22 DEF Finish, NoFault, facts, world
  <2>1. PcFitsState(t)' BY DEF PcFitsState
  <2>2. PcFitsAddress(t)' BY DEF PcFitsAddress, PcFitsState, Located
  <2>3. Located(t)' BY DEF Located, PcFitsState, PcFitsAddress
  <2>4. OwnAddress(t)' BY DEF OwnAddress
  <2>5. ProtectionHolds(t)' BY DEF ProtectionHolds, PcFitsAddress, Located
  <2>6. ServingFollows(t)' BY DEF ServingFollows
  <2> QED BY <2>1, <2>2, <2>3, <2>4, <2>5, <2>6
<1> QED BY <1>1, <1>2, <1>3, <1>4, <1>5, <1>6, <1>7, <1>8, <1>9, <1>10, <1>11,
      <1>12, <1>13, <1>14, <1>15, <1>16, <1>17, <1>18, <1>19, <1>20, <1>21,
      <1>22 DEF StepForward

\* A step of a remedy of t keeps the invariant of t.
LEMMA RemedyInv ==
  ASSUME TypeOK, TypeOK', NEW t \in Tx, TxInv(t), Remedy(t)
  PROVE  TxInv(t)'
<1> USE AddressAssumption, ConfigAssumption
    DEF TypeOK, ControlOK, FactsOK, WorldOK, TxInv, Where
<1>1. CASE Restart(t)
  <2> USE <1>1 DEF Restart, Escalate, Goto, Fault, NoFault, PowerOn, facts
  <2>1. PcFitsState(t)' BY DEF PcFitsState
  <2>2. PcFitsAddress(t)' BY DEF PcFitsAddress, PcFitsState, Located
  <2>3. Located(t)' BY DEF Located, PcFitsState, PcFitsAddress
  <2>4. OwnAddress(t)' BY DEF OwnAddress
  <2>5. ProtectionHolds(t)' BY DEF ProtectionHolds, PcFitsAddress, Located
  <2>6. ServingFollows(t)' BY DEF ServingFollows
  <2> QED BY <2>1, <2>2, <2>3, <2>4, <2>5, <2>6
<1>2. CASE RecordRestart(t)
  <2> USE <1>2 DEF RecordRestart, NoFault, facts, world
  <2>1. PcFitsState(t)' BY DEF PcFitsState
  <2>2. PcFitsAddress(t)' BY DEF PcFitsAddress, PcFitsState, Located
  <2>3. Located(t)' BY DEF Located, PcFitsState, PcFitsAddress
  <2>4. OwnAddress(t)' BY DEF OwnAddress
  <2>5. ProtectionHolds(t)' BY DEF ProtectionHolds, PcFitsAddress, Located
  <2>6. ServingFollows(t)' BY DEF ServingFollows
  <2> QED BY <2>1, <2>2, <2>3, <2>4, <2>5, <2>6
<1>3. CASE RestoreBegin(t)
  <2> USE <1>3 DEF RestoreBegin, NoFault, facts, world
  <2>1. PcFitsState(t)' BY DEF PcFitsState
  <2>2. PcFitsAddress(t)' BY DEF PcFitsAddress, PcFitsState, Located
  <2>3. Located(t)' BY DEF Located, PcFitsState, PcFitsAddress
  <2>4. OwnAddress(t)' BY DEF OwnAddress
  <2>5. ProtectionHolds(t)' BY DEF ProtectionHolds, PcFitsAddress, Located
  <2>6. ServingFollows(t)' BY DEF ServingFollows
  <2> QED BY <2>1, <2>2, <2>3, <2>4, <2>5, <2>6
<1>4. CASE RestoreRead(t)
  <2> USE <1>4 DEF RestoreRead, Goto, NoFault, facts, world
  <2>1. PcFitsState(t)' BY DEF PcFitsState
  <2>2. PcFitsAddress(t)' BY DEF PcFitsAddress, PcFitsState, Located
  <2>3. Located(t)' BY DEF Located, PcFitsState, PcFitsAddress
  <2>4. OwnAddress(t)' BY DEF OwnAddress
  <2>5. ProtectionHolds(t)' BY DEF ProtectionHolds, PcFitsAddress, Located
  <2>6. ServingFollows(t)' BY DEF ServingFollows
  <2> QED BY <2>1, <2>2, <2>3, <2>4, <2>5, <2>6
<1>5. CASE RestoreCallFails(t)
  <2> USE <1>5 DEF RestoreCallFails, RestoreFails, Escalate, Goto, Fault,
      facts, world
  <2>1. PcFitsState(t)' BY DEF PcFitsState
  <2>2. PcFitsAddress(t)' BY DEF PcFitsAddress, PcFitsState, Located
  <2>3. Located(t)' BY DEF Located, PcFitsState, PcFitsAddress
  <2>4. OwnAddress(t)' BY DEF OwnAddress
  <2>5. ProtectionHolds(t)' BY DEF ProtectionHolds, PcFitsAddress, Located
  <2>6. ServingFollows(t)' BY DEF ServingFollows
  <2> QED BY <2>1, <2>2, <2>3, <2>4, <2>5, <2>6
<1>6. CASE RestoreStop(t)
  <2> USE <1>6 DEF RestoreStop, RestoreAnswered, RestoreFails, Escalate,
      Goto, Fault, NoFault, facts
  <2>1. PcFitsState(t)' BY DEF PcFitsState
  <2>2. PcFitsAddress(t)' BY DEF PcFitsAddress, PcFitsState, Located
  <2>3. Located(t)' BY DEF Located, PcFitsState, PcFitsAddress
  <2>4. OwnAddress(t)' BY DEF OwnAddress
  <2>5. ProtectionHolds(t)'
        BY DEF ProtectionHolds, PcFitsAddress, Located, PcFitsState
  <2>6. ServingFollows(t)' BY DEF ServingFollows, PcFitsState
  <2> QED BY <2>1, <2>2, <2>3, <2>4, <2>5, <2>6
<1>7. CASE RestoreAssign(t)
  <2> USE <1>7 DEF RestoreAssign, RestoreAnswered, RestoreFails, Escalate,
      Goto, Fault, NoFault, facts
  <2>1. PcFitsState(t)' BY DEF PcFitsState
  <2>2. PcFitsAddress(t)' BY DEF PcFitsAddress, PcFitsState, Located
  <2>3. Located(t)' BY DEF Located, PcFitsState, PcFitsAddress
  <2>4. OwnAddress(t)' BY DEF OwnAddress
  <2>5. ProtectionHolds(t)'
        BY DEF ProtectionHolds, PcFitsAddress, Located, PcFitsState
  <2>6. ServingFollows(t)' BY DEF ServingFollows, PcFitsState
  <2> QED BY <2>1, <2>2, <2>3, <2>4, <2>5, <2>6
<1>8. CASE RestoreStart(t)
  <2> USE <1>8 DEF RestoreStart, RestoreFails, Escalate, Goto, Fault,
      NoFault, PowerOn, facts
  <2>1. PcFitsState(t)' BY DEF PcFitsState
  <2>2. PcFitsAddress(t)' BY DEF PcFitsAddress, PcFitsState, Located
  <2>3. Located(t)' BY DEF Located, PcFitsState, PcFitsAddress
  <2>4. OwnAddress(t)' BY DEF OwnAddress
  <2>5. ProtectionHolds(t)' BY DEF ProtectionHolds, PcFitsAddress, Located
  <2>6. ServingFollows(t)' BY DEF ServingFollows
  <2> QED BY <2>1, <2>2, <2>3, <2>4, <2>5, <2>6
<1>9. CASE RestoreTail(t)
  <2> USE <1>9 DEF RestoreTail, Goto, Fault, NoFault, DnsRollback,
      DnsWasDone, Moved, facts
  <2>1. PcFitsState(t)' BY DEF PcFitsState
  <2>2. PcFitsAddress(t)' BY DEF PcFitsAddress, PcFitsState, Located
  <2>3. Located(t)' BY DEF Located, PcFitsState, PcFitsAddress
  <2>4. OwnAddress(t)' BY DEF OwnAddress
  <2>5. ProtectionHolds(t)' BY DEF ProtectionHolds, PcFitsAddress, Located
  <2>6. ServingFollows(t)' BY DEF ServingFollows
  <2> QED BY <2>1, <2>2, <2>3, <2>4, <2>5, <2>6
<1>10. CASE RestoreEnd(t)
  <2> USE <1>10 DEF RestoreEnd, NoFault, facts, world
  <2>1. PcFitsState(t)' BY DEF PcFitsState
  <2>2. PcFitsAddress(t)' BY DEF PcFitsAddress, PcFitsState, Located
  <2>3. Located(t)' BY DEF Located, PcFitsState, PcFitsAddress
  <2>4. OwnAddress(t)' BY DEF OwnAddress
  <2>5. ProtectionHolds(t)' BY DEF ProtectionHolds, PcFitsAddress, Located
  <2>6. ServingFollows(t)' BY DEF ServingFollows
  <2> QED BY <2>1, <2>2, <2>3, <2>4, <2>5, <2>6
<1> QED BY <1>1, <1>2, <1>3, <1>4, <1>5, <1>6, <1>7, <1>8, <1>9, <1>10
      DEF Remedy

\* The rest of a running process of t keeps the invariant of t.
LEMMA ProcessInv ==
  ASSUME TypeOK, TypeOK', NEW t \in Tx, TxInv(t), Process(t)
  PROVE  TxInv(t)'
<1> USE AddressAssumption, ConfigAssumption
    DEF TypeOK, ControlOK, FactsOK, WorldOK, TxInv, Where
<1>1. CASE PlanValidate(t)
  <2> USE <1>1 DEF PlanValidate, NoFault, facts, world
  <2>1. PcFitsState(t)' BY DEF PcFitsState
  <2>2. PcFitsAddress(t)' BY DEF PcFitsAddress, PcFitsState, Located
  <2>3. Located(t)' BY DEF Located, PcFitsState, PcFitsAddress
  <2>4. OwnAddress(t)' BY DEF OwnAddress
  <2>5. ProtectionHolds(t)' BY DEF ProtectionHolds, PcFitsAddress, Located
  <2>6. ServingFollows(t)' BY DEF ServingFollows
  <2> QED BY <2>1, <2>2, <2>3, <2>4, <2>5, <2>6
<1>2. CASE PlanFinish(t)
  <2> USE <1>2 DEF PlanFinish, NoFault, facts, world
  <2>1. PcFitsState(t)' BY DEF PcFitsState
  <2>2. PcFitsAddress(t)' BY DEF PcFitsAddress, PcFitsState, Located
  <2>3. Located(t)' BY DEF Located, PcFitsState, PcFitsAddress
  <2>4. OwnAddress(t)' BY DEF OwnAddress
  <2>5. ProtectionHolds(t)' BY DEF ProtectionHolds, PcFitsAddress, Located
  <2>6. ServingFollows(t)' BY DEF ServingFollows
  <2> QED BY <2>1, <2>2, <2>3, <2>4, <2>5, <2>6
<1>3. CASE Pause(t)
  <2> USE <1>3 DEF Pause, NoFault, facts, world
  <2>1. PcFitsState(t)' BY DEF PcFitsState
  <2>2. PcFitsAddress(t)' BY DEF PcFitsAddress, PcFitsState, Located
  <2>3. Located(t)' BY DEF Located, PcFitsState, PcFitsAddress
  <2>4. OwnAddress(t)' BY DEF OwnAddress
  <2>5. ProtectionHolds(t)' BY DEF ProtectionHolds, PcFitsAddress, Located
  <2>6. ServingFollows(t)' BY DEF ServingFollows
  <2> QED BY <2>1, <2>2, <2>3, <2>4, <2>5, <2>6
<1>4. CASE DnsRollbackOnly(t)
  <2> USE <1>4 DEF DnsRollbackOnly, Goto, Fault, NoFault, DnsRollback,
      DnsWasDone, Moved, facts
  <2>1. PcFitsState(t)' BY DEF PcFitsState
  <2>2. PcFitsAddress(t)' BY DEF PcFitsAddress, PcFitsState, Located
  <2>3. Located(t)' BY DEF Located, PcFitsState, PcFitsAddress
  <2>4. OwnAddress(t)' BY DEF OwnAddress
  <2>5. ProtectionHolds(t)' BY DEF ProtectionHolds, PcFitsAddress, Located
  <2>6. ServingFollows(t)' BY DEF ServingFollows
  <2> QED BY <2>1, <2>2, <2>3, <2>4, <2>5, <2>6
<1>5. CASE RecordRelease(t)
  <2> USE <1>5 DEF RecordRelease, Goto, NoFault, world
  <2>1. PcFitsState(t)' BY DEF PcFitsState
  <2>2. PcFitsAddress(t)' BY DEF PcFitsAddress, PcFitsState, Located
  <2>3. Located(t)' BY DEF Located, PcFitsState, PcFitsAddress
  <2>4. OwnAddress(t)' BY DEF OwnAddress
  <2>5. ProtectionHolds(t)' BY DEF ProtectionHolds, PcFitsAddress, Located
  <2>6. ServingFollows(t)' BY DEF ServingFollows
  <2> QED BY <2>1, <2>2, <2>3, <2>4, <2>5, <2>6
<1>6. CASE StepForward(t) BY <1>6, StepForwardInv
<1>7. CASE Remedy(t) BY <1>7, RemedyInv
<1> QED BY <1>1, <1>2, <1>3, <1>4, <1>5, <1>6, <1>7 DEF Process

\* The environment of t keeps the invariant of t.
LEMMA EnvironmentInv ==
  ASSUME TypeOK, TypeOK', NEW t \in Tx, TxInv(t), Environment(t)
  PROVE  TxInv(t)'
<1> USE AddressAssumption, ConfigAssumption
    DEF TypeOK, ControlOK, FactsOK, WorldOK, TxInv, Where
<1>1. CASE BootFinishes(t)
  <2> USE <1>1 DEF BootFinishes, NoFault, control, facts
  <2>1. PcFitsState(t)' BY DEF PcFitsState
  <2>2. PcFitsAddress(t)' BY DEF PcFitsAddress, PcFitsState, Located
  <2>3. Located(t)' BY DEF Located, PcFitsState, PcFitsAddress
  <2>4. OwnAddress(t)' BY DEF OwnAddress
  <2>5. ProtectionHolds(t)' BY DEF ProtectionHolds, PcFitsAddress, Located
  <2>6. ServingFollows(t)' BY DEF ServingFollows
  <2> QED BY <2>1, <2>2, <2>3, <2>4, <2>5, <2>6
<1>2. CASE BootFails(t)
  <2> USE <1>2 DEF BootFails, Fault, control, facts
  <2>1. PcFitsState(t)' BY DEF PcFitsState
  <2>2. PcFitsAddress(t)' BY DEF PcFitsAddress, PcFitsState, Located
  <2>3. Located(t)' BY DEF Located, PcFitsState, PcFitsAddress
  <2>4. OwnAddress(t)' BY DEF OwnAddress
  <2>5. ProtectionHolds(t)' BY DEF ProtectionHolds, PcFitsAddress, Located
  <2>6. ServingFollows(t)' BY DEF ServingFollows
  <2> QED BY <2>1, <2>2, <2>3, <2>4, <2>5, <2>6
<1>3. CASE Crash(t)
  <2> USE <1>3 DEF Crash, Goto, Fault, facts, world
  <2>1. PcFitsState(t)' BY DEF PcFitsState
  <2>2. PcFitsAddress(t)' BY DEF PcFitsAddress, PcFitsState, Located
  <2>3. Located(t)' BY DEF Located, PcFitsState, PcFitsAddress
  <2>4. OwnAddress(t)' BY DEF OwnAddress
  <2>5. ProtectionHolds(t)' BY DEF ProtectionHolds, PcFitsAddress, Located
  <2>6. ServingFollows(t)' BY DEF ServingFollows
  <2> QED BY <2>1, <2>2, <2>3, <2>4, <2>5, <2>6
<1> QED BY <1>1, <1>2, <1>3 DEF Environment

-----------------------------------------------------------------------------
(* The invariant of the others.                                            *)

\* What a step has to leave of a transaction for its invariant to survive.
Untouched(u) ==
  /\ state'[u] = state[u] /\ resume'[u] = resume[u] /\ pc'[u] = pc[u]
  /\ seen'[u] = seen[u]
  /\ protected'[u] = protected[u] /\ power'[u] = power[u]
  /\ ip'[u] = ip[u] /\ dns'[u] = dns[u]
  /\ ip[u] \in pool => ip[u] \in pool'
  /\ autoDelete' \subseteq autoDelete

LEMMA UntouchedInv ==
  ASSUME NEW u \in Tx, TxInv(u), Untouched(u)
  PROVE  TxInv(u)'
<1> USE DEF TxInv, Untouched, Where
<1>1. PcFitsState(u)' BY DEF PcFitsState
<1>2. PcFitsAddress(u)' BY DEF PcFitsAddress
<1>3. Located(u)' BY DEF Located
<1>4. OwnAddress(u)' BY DEF OwnAddress
<1>5. ProtectionHolds(u)' BY DEF ProtectionHolds
<1>6. ServingFollows(u)' BY DEF ServingFollows
<1> QED BY <1>1, <1>2, <1>3, <1>4, <1>5, <1>6

\* A command of the operator of t leaves another transaction alone.
LEMMA CommandOthers ==
  ASSUME TypeOK, NEW t \in Tx, NEW u \in Tx, t # u, Command(t)
  PROVE  Untouched(u)
<1> USE DEF TypeOK, ControlOK, FactsOK, WorldOK, Untouched
<1>1. CASE PlanRead(t) BY <1>1 DEF PlanRead, NoFault, facts, world
<1>2. CASE Resume(t) BY <1>2 DEF Resume, NoFault, facts, world
<1>3. CASE Rollback(t, "command") BY <1>3 DEF Rollback, NoFault, facts, world
<1>4. CASE Rollback(t, "no_dns") BY <1>4 DEF Rollback, NoFault, facts, world
<1>5. CASE ReleaseOldIp(t) BY <1>5 DEF ReleaseOldIp, Finished, Unassigned,
      Attached, Goto, Fault, NoFault, control, facts
<1>6. CASE DeclareAnsible(t) BY <1>6 DEF DeclareAnsible, NoFault, world
<1>7. CASE DeclareDns(t) BY <1>7 DEF DeclareDns, Reachable, NoFault, facts,
      world
<1> QED BY <1>1, <1>2, <1>3, <1>4, <1>5, <1>6, <1>7 DEF Command

\* A forward step of t leaves another transaction alone.
LEMMA StepForwardOthers ==
  ASSUME TypeOK, NEW t \in Tx, NEW u \in Tx, t # u, StepForward(t)
  PROVE  Untouched(u)
<1> USE DEF TypeOK, ControlOK, FactsOK, WorldOK, Untouched
<1>1. CASE StepFails(t) BY <1>1 DEF StepFails, MustPause, Fail, Escalate, Goto,
      Fault, facts, world
<1>2. CASE IdentityMismatch(t) BY <1>2 DEF IdentityMismatch, Expected,
      Escalate, NoFault, facts, world
<1>3. CASE Preflight(t) BY <1>3 DEF Preflight, At, Escalate, Goto, NoFault,
      facts, world
<1>4. CASE Allocate(t) BY <1>4 DEF Allocate, At, Identified, Expected,
      Answered, Fail, Escalate, Goto, Fault, NoFault, facts
<1>5. CASE AllocateQuota(t) BY <1>5 DEF AllocateQuota, At, Identified,
      Expected, Unassigned, Attached, Fail, Escalate, Goto, NoFault, facts,
      world
<1>6. CASE QuotaRelease(t) BY <1>6 DEF QuotaRelease, Unassigned, Attached,
      Answered, Fail, Escalate, Goto, Fault, NoFault, facts
<1>7. CASE AllocateAgain(t) BY <1>7 DEF AllocateAgain, Answered, Fail,
      Escalate, Goto, Fault, NoFault, facts
<1>8. CASE Protect(t) BY <1>8 DEF Protect, At, Identified, Expected, Answered,
      Fail, Escalate, Goto, Fault, NoFault, facts
<1>9. CASE RecordProtect(t)
  <2>1. state' = state /\ resume' = resume /\ pc'[u] = pc[u]
    BY <1>9 DEF RecordProtect, Goto
  <2>2. seen' = seen /\ protected'[u] = protected[u]
    BY <1>9 DEF RecordProtect
  <2>3. /\ ip' = ip /\ power' = power /\ pool' = pool
        /\ autoDelete' = autoDelete /\ dns' = dns
    BY <1>9 DEF RecordProtect, world
  <2> QED BY <2>1, <2>2, <2>3
<1>10. CASE Stop(t)
  <2>1. /\ protected' = protected /\ seen' = seen /\ ip' = ip /\ pool' = pool
        /\ autoDelete' = autoDelete /\ dns' = dns /\ power'[u] = power[u]
    BY <1>10 DEF Stop, facts
  <2>2. state'[u] = state[u] /\ resume'[u] = resume[u] /\ pc'[u] = pc[u]
    BY <1>10 DEF Stop, Answered, Fail, Escalate, Goto
  <2> QED BY <2>1, <2>2
<1>11. CASE Unassign(t) BY <1>11 DEF Unassign, At, Identified, Expected,
      Answered, Fail, Escalate, Goto, Fault, NoFault, facts
<1>12. CASE Assign(t) BY <1>12 DEF Assign, At, Identified, Expected, Answered,
      Fail, Escalate, Goto, Fault, NoFault, facts
<1>13. CASE Start(t) BY <1>13 DEF Start, At, Identified, Expected, Answered,
      Fail, Escalate, Goto, Fault, NoFault, facts
<1>14. CASE Health(t) BY <1>14 DEF Health, At, Reachable, Fail, Escalate, Goto,
      NoFault, facts, world
<1>15. CASE Ansible(t) BY <1>15 DEF Ansible, At, MustPause, Escalate, Goto,
      Fault, NoFault, Moved
<1>16. CASE ReplaceMark(t) BY <1>16 DEF ReplaceMark, At, Goto, NoFault, world
<1>17. CASE ReplaceRefused(t) BY <1>17 DEF ReplaceRefused, At, Escalate,
      NoFault, facts, world
<1>18. CASE Replace(t) BY <1>18 DEF Replace, Fail, Escalate, Goto, Fault,
      NoFault, Moved
<1>19. CASE RecordReplace(t) BY <1>19 DEF RecordReplace, Goto, NoFault, world
<1>20. CASE Verify(t) BY <1>20 DEF Verify, At, Identified, Expected, Reachable,
      Escalate, Goto, NoFault, facts, world
<1>21. CASE Transition(t) BY <1>21 DEF Transition, NoFault, StepTo, facts, world
<1>22. CASE Finish(t) BY <1>22 DEF Finish, NoFault, facts, world
<1> QED BY <1>1, <1>2, <1>3, <1>4, <1>5, <1>6, <1>7, <1>8, <1>9, <1>10, <1>11,
      <1>12, <1>13, <1>14, <1>15, <1>16, <1>17, <1>18, <1>19, <1>20, <1>21,
      <1>22 DEF StepForward

\* A step of a remedy of t leaves another transaction alone.
LEMMA RemedyOthers ==
  ASSUME TypeOK, NEW t \in Tx, NEW u \in Tx, t # u, Remedy(t)
  PROVE  Untouched(u)
<1> USE DEF TypeOK, ControlOK, FactsOK, WorldOK, Untouched
<1>1. CASE Restart(t) BY <1>1 DEF Restart, Escalate, Goto, Fault, NoFault,
      PowerOn, facts
<1>2. CASE RecordRestart(t) BY <1>2 DEF RecordRestart, NoFault, facts, world
<1>3. CASE RestoreBegin(t) BY <1>3 DEF RestoreBegin, NoFault, facts, world
<1>4. CASE RestoreRead(t) BY <1>4 DEF RestoreRead, Goto, NoFault, facts, world
<1>5. CASE RestoreCallFails(t) BY <1>5 DEF RestoreCallFails, RestoreFails,
      Escalate, Goto, Fault, facts, world
<1>6. CASE RestoreStop(t) BY <1>6 DEF RestoreStop, RestoreAnswered,
      RestoreFails, Escalate, Goto, Fault, NoFault, facts
<1>7. CASE RestoreAssign(t) BY <1>7 DEF RestoreAssign, RestoreAnswered,
      RestoreFails, Escalate, Goto, Fault, NoFault, facts
<1>8. CASE RestoreStart(t) BY <1>8 DEF RestoreStart, RestoreFails, Escalate,
      Goto, Fault, NoFault, PowerOn, facts
<1>9. CASE RestoreTail(t) BY <1>9 DEF RestoreTail, Goto, Fault, NoFault,
      DnsRollback, DnsWasDone, Moved, facts
<1>10. CASE RestoreEnd(t) BY <1>10 DEF RestoreEnd, NoFault, facts, world
<1> QED BY <1>1, <1>2, <1>3, <1>4, <1>5, <1>6, <1>7, <1>8, <1>9, <1>10
      DEF Remedy

\* The rest of a running process of t leaves another transaction alone.
LEMMA ProcessOthers ==
  ASSUME TypeOK, NEW t \in Tx, NEW u \in Tx, t # u, Process(t)
  PROVE  Untouched(u)
<1> USE DEF TypeOK, ControlOK, FactsOK, WorldOK, Untouched
<1>1. CASE PlanValidate(t) BY <1>1 DEF PlanValidate, NoFault, facts, world
<1>2. CASE PlanFinish(t) BY <1>2 DEF PlanFinish, NoFault, facts, world
<1>3. CASE Pause(t) BY <1>3 DEF Pause, NoFault, facts, world
<1>4. CASE DnsRollbackOnly(t) BY <1>4 DEF DnsRollbackOnly, Goto, Fault,
      NoFault, DnsRollback, DnsWasDone, Moved, facts
<1>5. CASE RecordRelease(t) BY <1>5 DEF RecordRelease, Goto, NoFault, world
<1>6. CASE StepForward(t) BY <1>6, StepForwardOthers
<1>7. CASE Remedy(t) BY <1>7, RemedyOthers
<1> QED BY <1>1, <1>2, <1>3, <1>4, <1>5, <1>6, <1>7 DEF Process

\* The environment of t leaves another transaction alone.
LEMMA EnvironmentOthers ==
  ASSUME TypeOK, NEW t \in Tx, NEW u \in Tx, t # u, Environment(t)
  PROVE  Untouched(u)
<1> USE DEF TypeOK, ControlOK, FactsOK, WorldOK, Untouched
<1>1. CASE BootFinishes(t) BY <1>1 DEF BootFinishes, NoFault, control, facts
<1>2. CASE BootFails(t) BY <1>2 DEF BootFails, Fault, control, facts
<1>3. CASE Crash(t) BY <1>3 DEF Crash, Goto, Fault, facts, world
<1> QED BY <1>1, <1>2, <1>3 DEF Environment

-----------------------------------------------------------------------------
(* The invariant of the specification.                                     *)

LEMMA InitInv == Init => IInv
<1> SUFFICES ASSUME Init PROVE IInv
  OBVIOUS
<1> USE AddressAssumption, ConfigAssumption DEF Init
<1>1. TypeOK
  <2>1. ControlOK BY DEF ControlOK
  <2>2. FactsOK BY DEF FactsOK
  <2>3. pool \in SUBSET Addr /\ autoDelete \in SUBSET Addr BY DEF Olds, News
  <2>4. WorldOK BY <2>3 DEF WorldOK
  <2> QED BY <2>1, <2>2, <2>4 DEF TypeOK
<1>2. ASSUME NEW t \in Tx PROVE TxInv(t)
  <2> USE DEF Where
  <2>1. PcFitsState(t) BY DEF PcFitsState
  <2>2. PcFitsAddress(t) BY DEF PcFitsAddress
  <2>3. Located(t) BY DEF Located
  <2>4. OwnAddress(t) BY DEF OwnAddress, Olds
  <2>5. ProtectionHolds(t) BY DEF ProtectionHolds
  <2>6. ServingFollows(t) BY DEF ServingFollows
  <2> QED BY <2>1, <2>2, <2>3, <2>4, <2>5, <2>6 DEF TxInv
<1> QED BY <1>1, <1>2 DEF IInv

\* A step of transaction t, by whoever takes it.
StepOf(t) == Command(t) \/ Process(t) \/ Environment(t)

LEMMA StepInv ==
  ASSUME IInv, NEW t \in Tx, StepOf(t)
  PROVE  IInv'
<1>1. TypeOK /\ \A u \in Tx : TxInv(u) BY DEF IInv
<1>2. TypeOK' BY <1>1, CommandType, ProcessType, EnvironmentType DEF StepOf
<1>3. TxInv(t)' BY <1>1, <1>2, CommandInv, ProcessInv, EnvironmentInv DEF StepOf
<1>4. ASSUME NEW u \in Tx, t # u PROVE TxInv(u)'
  <2>1. Untouched(u)
    BY <1>1, <1>4, CommandOthers, ProcessOthers, EnvironmentOthers DEF StepOf
  <2> QED BY <1>1, <2>1, UntouchedInv
<1> QED BY <1>2, <1>3, <1>4 DEF IInv

\* release_orphan_ip belongs to no transaction.
LEMMA OrphanReleaseInv ==
  ASSUME IInv, OrphanRelease
  PROVE  IInv'
<1> USE DEF IInv, TypeOK, ControlOK, FactsOK, WorldOK, OrphanRelease, Unassigned,
        Attached, control, facts, NoFault
<1>1. TypeOK' OBVIOUS
<1>2. ASSUME NEW u \in Tx PROVE TxInv(u)'
  <2>1. Untouched(u) BY DEF Untouched
  <2> QED BY <2>1, UntouchedInv
<1> QED BY <1>1, <1>2

LEMMA StutterInv ==
  ASSUME IInv, UNCHANGED vars
  PROVE  IInv'
<1> USE DEF IInv, TypeOK, ControlOK, FactsOK, WorldOK, vars
<1>1. TypeOK' OBVIOUS
<1>2. ASSUME NEW u \in Tx PROVE TxInv(u)'
  <2>1. Untouched(u) BY DEF Untouched
  <2> QED BY <2>1, UntouchedInv
<1> QED BY <1>1, <1>2

\* IInv is an invariant of every rotation: any number of transactions over
\* one pool, any limit, any retention, any failures, lost answers, crashes.
THEOREM Invariance == Spec => []IInv
<1>1. IInv /\ [Next]_vars => IInv'
  <2> SUFFICES ASSUME IInv, [Next]_vars PROVE IInv'
    OBVIOUS
  <2>1. CASE \E t \in Tx : StepOf(t) BY <2>1, StepInv
  <2>2. CASE OrphanRelease BY <2>2, OrphanReleaseInv
  <2>3. CASE UNCHANGED vars BY <2>3, StutterInv
  <2> QED BY <2>1, <2>2, <2>3 DEF Next, StepOf
<1> QED BY <1>1, InitInv, PTL DEF Spec

\* Every reachable state is well typed.
THEOREM TypeCorrect == Spec => []TypeOK
<1>1. IInv => TypeOK BY DEF IInv
<1> QED BY <1>1, Invariance, PTL

\* The checkpoint on disk tells where the server's address is, whatever
\* crashed or failed since it was written.
THEOREM CheckpointIsTruthful == Spec => []CheckpointLocatesAddress
<1>1. IInv => CheckpointLocatesAddress
  BY DEF IInv, TxInv, CheckpointLocatesAddress
<1> QED BY <1>1, Invariance, PTL

\* Rule One: no path detaches an old address that still has auto_delete.
THEOREM RuleOne == Spec => []ProtectedBeforeDetach
<1>1. IInv => ProtectedBeforeDetach
  BY DEF IInv, TxInv, ProtectionHolds, ProtectedBeforeDetach
<1> QED BY <1>1, Invariance, PTL

\* No delete, by any transaction or sweep, takes an address off a server.
THEOREM AttachedIsNeverDeleted == Spec => []AttachedExists
<1>1. IInv => AttachedExists BY DEF IInv, TxInv, OwnAddress, AttachedExists
<1> QED BY <1>1, Invariance, PTL

\* `done` is true of the server and of the DNS.
THEOREM DoneIsTrue == Spec => []DoneIsServing
<1>1. IInv => DoneIsServing
  BY DEF IInv, TxInv, Located, Where, ServingFollows, DoneIsServing
<1> QED BY <1>1, Invariance, PTL

-----------------------------------------------------------------------------
(* The refinement of AddressSwap.                                          *)

\* What a step may do to the place and the verdict of its transaction.
Hop(t) ==
  \/ Place(t)' = Place(t) /\ Verdict(t)' = Verdict(t)
  \/ /\ Verdict(t) = "open" /\ Verdict(t)' = "open"
     /\ <<Place(t), Place(t)'>> \in {<<"old", "none">>, <<"none", "new">>,
          <<"new", "none">>, <<"new", "old">>, <<"none", "old">>}
  \/ /\ Place(t)' = Place(t) /\ Place(t) = "new"
     /\ Verdict(t) = "open" /\ Verdict(t)' = "swapped"
  \/ /\ Place(t)' = Place(t) /\ Place(t) = "old"
     /\ Verdict(t) = "open" /\ Verdict(t)' = "restored"
  \/ /\ Place(t)' = Place(t)
     /\ Verdict(t) # "open" /\ Verdict(t)' = "open"

\* A command of the operator is a hop of t.
LEMMA CommandHop ==
  ASSUME TypeOK, TypeOK', NEW t \in Tx, TxInv(t), Command(t)
  PROVE  Hop(t)
<1> USE AddressAssumption
    DEF TypeOK, ControlOK, FactsOK, WorldOK, Hop, Place, Verdict
<1>1. CASE PlanRead(t) BY <1>1 DEF PlanRead, NoFault, facts, world, TxInv,
      PcFitsState
<1>2. CASE Resume(t) BY <1>2 DEF Resume, NoFault, facts, world, TxInv,
      PcFitsState
<1>3. CASE Rollback(t, "command") BY <1>3 DEF Rollback, NoFault, facts, world
<1>4. CASE Rollback(t, "no_dns") BY <1>4 DEF Rollback, NoFault, facts, world
<1>5. CASE ReleaseOldIp(t) BY <1>5 DEF ReleaseOldIp, Finished, Unassigned,
      Attached, Goto, Fault, NoFault, control, facts
<1>6. CASE DeclareAnsible(t) BY <1>6 DEF DeclareAnsible, NoFault, world, TxInv,
      PcFitsState
<1>7. CASE DeclareDns(t) BY <1>7 DEF DeclareDns, Reachable, NoFault, facts,
      world, TxInv, PcFitsState, PcFitsAddress, Located, Where
<1> QED BY <1>1, <1>2, <1>3, <1>4, <1>5, <1>6, <1>7 DEF Command

\* A forward step is a hop of t.
LEMMA StepForwardHop ==
  ASSUME TypeOK, TypeOK', NEW t \in Tx, TxInv(t), StepForward(t)
  PROVE  Hop(t)
<1> USE AddressAssumption
    DEF TypeOK, ControlOK, FactsOK, WorldOK, Hop, Place, Verdict
<1>1. CASE StepFails(t) BY <1>1 DEF StepFails, MustPause, Fail, Escalate, Goto,
      Fault, facts, world, TxInv, PcFitsState
<1>2. CASE IdentityMismatch(t) BY <1>2 DEF IdentityMismatch, Expected,
      Escalate, NoFault, facts, world, TxInv, PcFitsState
<1>3. CASE Preflight(t) BY <1>3 DEF Preflight, At, Escalate, Goto, NoFault,
      facts, world, TxInv, PcFitsState
<1>4. CASE Allocate(t) BY <1>4 DEF Allocate, At, Identified, Expected,
      Answered, Fail, Escalate, Goto, Fault, NoFault, facts, TxInv, PcFitsState
<1>5. CASE AllocateQuota(t) BY <1>5 DEF AllocateQuota, At, Identified,
      Expected, Unassigned, Attached, Fail, Escalate, Goto, NoFault, facts,
      world, TxInv, PcFitsState
<1>6. CASE QuotaRelease(t) BY <1>6 DEF QuotaRelease, Unassigned, Attached,
      Answered, Fail, Escalate, Goto, Fault, NoFault, facts, TxInv, PcFitsState
<1>7. CASE AllocateAgain(t) BY <1>7 DEF AllocateAgain, Answered, Fail,
      Escalate, Goto, Fault, NoFault, facts, TxInv, PcFitsState
<1>8. CASE Protect(t) BY <1>8 DEF Protect, At, Identified, Expected, Answered,
      Fail, Escalate, Goto, Fault, NoFault, facts, TxInv, PcFitsState
<1>9. CASE RecordProtect(t) BY <1>9 DEF RecordProtect, Goto, NoFault, world
<1>10. CASE Stop(t) BY <1>10 DEF Stop, Identified, Expected, Answered, Fail,
      Escalate, Goto, Fault, NoFault, facts, TxInv, PcFitsState
<1>11. CASE Unassign(t) BY <1>11 DEF Unassign, At, Identified, Expected,
      Answered, Fail, Escalate, Goto, Fault, NoFault, facts, TxInv,
      PcFitsState, PcFitsAddress, Located, Where
<1>12. CASE Assign(t) BY <1>12 DEF Assign, At, Identified, Expected, Answered,
      Fail, Escalate, Goto, Fault, NoFault, facts, TxInv, PcFitsState,
      PcFitsAddress, Located, Where
<1>13. CASE Start(t) BY <1>13 DEF Start, At, Identified, Expected, Answered,
      Fail, Escalate, Goto, Fault, NoFault, facts, TxInv, PcFitsState
<1>14. CASE Health(t) BY <1>14 DEF Health, At, Reachable, Fail, Escalate, Goto,
      NoFault, facts, world, TxInv, PcFitsState
<1>15. CASE Ansible(t) BY <1>15 DEF Ansible, At, MustPause, Escalate, Goto,
      Fault, NoFault, Moved, TxInv, PcFitsState
<1>16. CASE ReplaceMark(t) BY <1>16 DEF ReplaceMark, At, Goto, NoFault, world
<1>17. CASE ReplaceRefused(t) BY <1>17 DEF ReplaceRefused, At, Escalate,
      NoFault, facts, world, TxInv, PcFitsState
<1>18. CASE Replace(t) BY <1>18 DEF Replace, Fail, Escalate, Goto, Fault,
      NoFault, Moved, TxInv, PcFitsState
<1>19. CASE RecordReplace(t) BY <1>19 DEF RecordReplace, Goto, NoFault, world
<1>20. CASE Verify(t) BY <1>20 DEF Verify, At, Identified, Expected, Reachable,
      Escalate, Goto, NoFault, facts, world, TxInv, PcFitsState
<1>21. CASE Transition(t)
  <2> USE DEF Transition, TxInv
  <2>1. state[t] \in StepStates /\ state'[t] = StepTo[state[t]] BY <1>21
  <2>2. ip'[t] = ip[t] BY <1>21 DEF world
  <2>3. CASE state[t] = "cloudflare_replaced"
    <3>1. ip[t] = NewIp[t] BY <2>3 DEF Located, Where
    <3> QED BY <2>1, <2>2, <2>3, <3>1 DEF StepTo
  <2>4. CASE state[t] # "cloudflare_replaced"
    BY <2>1, <2>2, <2>4 DEF StepTo
  <2> QED BY <2>3, <2>4
<1>22. CASE Finish(t) BY <1>22 DEF Finish, NoFault, facts, world
<1> QED BY <1>1, <1>2, <1>3, <1>4, <1>5, <1>6, <1>7, <1>8, <1>9, <1>10, <1>11,
      <1>12, <1>13, <1>14, <1>15, <1>16, <1>17, <1>18, <1>19, <1>20, <1>21,
      <1>22 DEF StepForward

\* A step of a remedy is a hop of t.
LEMMA RemedyHop ==
  ASSUME TypeOK, TypeOK', NEW t \in Tx, TxInv(t), Remedy(t)
  PROVE  Hop(t)
<1> USE AddressAssumption
    DEF TypeOK, ControlOK, FactsOK, WorldOK, Hop, Place, Verdict
<1>1. CASE Restart(t) BY <1>1 DEF Restart, Escalate, Goto, Fault, NoFault,
      PowerOn, facts, TxInv, PcFitsState
<1>2. CASE RecordRestart(t) BY <1>2 DEF RecordRestart, NoFault, facts, world,
      TxInv, PcFitsState
<1>3. CASE RestoreBegin(t) BY <1>3 DEF RestoreBegin, NoFault, facts, world,
      TxInv, PcFitsState
<1>4. CASE RestoreRead(t) BY <1>4 DEF RestoreRead, Goto, NoFault, facts, world
<1>5. CASE RestoreCallFails(t) BY <1>5 DEF RestoreCallFails, RestoreFails,
      Escalate, Goto, Fault, facts, world, TxInv, PcFitsState
<1>6. CASE RestoreStop(t) BY <1>6 DEF RestoreStop, RestoreAnswered,
      RestoreFails, Escalate, Goto, Fault, NoFault, facts, TxInv, PcFitsState
<1>7. CASE RestoreAssign(t) BY <1>7 DEF RestoreAssign, RestoreAnswered,
      RestoreFails, Escalate, Goto, Fault, NoFault, facts, TxInv, PcFitsState,
      PcFitsAddress, Located, Where
<1>8. CASE RestoreStart(t) BY <1>8 DEF RestoreStart, RestoreFails, Escalate,
      Goto, Fault, NoFault, PowerOn, facts, TxInv, PcFitsState
<1>9. CASE RestoreTail(t) BY <1>9 DEF RestoreTail, Goto, Fault, NoFault,
      DnsRollback, DnsWasDone, Moved, facts
<1>10. CASE RestoreEnd(t) BY <1>10 DEF RestoreEnd, NoFault, facts, world,
      TxInv, PcFitsState, PcFitsAddress, Located, Where
<1> QED BY <1>1, <1>2, <1>3, <1>4, <1>5, <1>6, <1>7, <1>8, <1>9, <1>10
      DEF Remedy

\* The rest of a running process is a hop of t.
LEMMA ProcessHop ==
  ASSUME TypeOK, TypeOK', NEW t \in Tx, TxInv(t), Process(t)
  PROVE  Hop(t)
<1> USE AddressAssumption
    DEF TypeOK, ControlOK, FactsOK, WorldOK, Hop, Place, Verdict
<1>1. CASE PlanValidate(t) BY <1>1 DEF PlanValidate, NoFault, facts, world,
      TxInv, PcFitsState
<1>2. CASE PlanFinish(t) BY <1>2 DEF PlanFinish, NoFault, facts, world, TxInv,
      PcFitsState
<1>3. CASE Pause(t) BY <1>3 DEF Pause, NoFault, facts, world
<1>4. CASE DnsRollbackOnly(t) BY <1>4 DEF DnsRollbackOnly, Goto, Fault,
      NoFault, DnsRollback, DnsWasDone, Moved, facts
<1>5. CASE RecordRelease(t) BY <1>5 DEF RecordRelease, Goto, NoFault, world
<1>6. CASE StepForward(t) BY <1>6, StepForwardHop
<1>7. CASE Remedy(t) BY <1>7, RemedyHop
<1> QED BY <1>1, <1>2, <1>3, <1>4, <1>5, <1>6, <1>7 DEF Process

\* The environment is a hop of t.
LEMMA EnvironmentHop ==
  ASSUME TypeOK, TypeOK', NEW t \in Tx, TxInv(t), Environment(t)
  PROVE  Hop(t)
<1> USE AddressAssumption
    DEF TypeOK, ControlOK, FactsOK, WorldOK, Hop, Place, Verdict
<1>1. CASE BootFinishes(t) BY <1>1 DEF BootFinishes, NoFault, control, facts
<1>2. CASE BootFails(t) BY <1>2 DEF BootFails, Fault, control, facts
<1>3. CASE Crash(t) BY <1>3 DEF Crash, Goto, Fault, facts, world
<1> QED BY <1>1, <1>2, <1>3 DEF Environment

\* A hop of one transaction while the others stand still is a step of
\* AddressSwap or no step at all.
LEMMA HopImplements ==
  ASSUME NEW t \in Tx, Hop(t), \A u \in Tx : u # t => Untouched(u)
  PROVE  [Swap!Next]_(Swap!vars)
<1> DEFINE W == [u \in Tx |-> Place(u)]
           S == [u \in Tx |-> Verdict(u)]
<1>1. ASSUME NEW u \in Tx, u # t
      PROVE  Place(u)' = Place(u) /\ Verdict(u)' = Verdict(u)
  BY <1>1 DEF Untouched, Place, Verdict
<1>2. W' = [W EXCEPT ![t] = Place(t)'] BY <1>1
<1>3. S' = [S EXCEPT ![t] = Verdict(t)'] BY <1>1
<1>4. W[t] = Place(t) /\ S[t] = Verdict(t) OBVIOUS
<1>5. Place(t)' = Place(t) => W' = W BY <1>1
<1>6. Verdict(t)' = Verdict(t) => S' = S BY <1>1
<1> HIDE DEF W, S
<1>7. CASE Place(t)' = Place(t) /\ Verdict(t)' = Verdict(t)
  BY <1>5, <1>6, <1>7 DEF Swap!vars, W, S
<1>8. CASE /\ Verdict(t) = "open" /\ Verdict(t)' = "open"
           /\ <<Place(t), Place(t)'>> \in {<<"old", "none">>, <<"none", "new">>,
                <<"new", "none">>, <<"new", "old">>, <<"none", "old">>}
  <2>1. Swap!Move(t, Place(t), Place(t)')
    BY <1>2, <1>4, <1>6, <1>8 DEF Swap!Move, W, S
  <2>2. Swap!Step(t) BY <1>8, <2>1 DEF Swap!Step
  <2> QED BY <2>2 DEF Swap!Next
<1>9. CASE /\ Place(t)' = Place(t) /\ Place(t) = "new"
           /\ Verdict(t) = "open" /\ Verdict(t)' = "swapped"
  <2>1. Swap!Commit(t) BY <1>3, <1>4, <1>5, <1>9 DEF Swap!Commit, W, S
  <2> QED BY <2>1 DEF Swap!Step, Swap!Next
<1>10. CASE /\ Place(t)' = Place(t) /\ Place(t) = "old"
            /\ Verdict(t) = "open" /\ Verdict(t)' = "restored"
  <2>1. Swap!Restore(t) BY <1>3, <1>4, <1>5, <1>10 DEF Swap!Restore, W, S
  <2> QED BY <2>1 DEF Swap!Step, Swap!Next
<1>11. CASE /\ Place(t)' = Place(t)
            /\ Verdict(t) # "open" /\ Verdict(t)' = "open"
  <2>1. Swap!Reopen(t) BY <1>3, <1>4, <1>5, <1>11 DEF Swap!Reopen, W, S
  <2> QED BY <2>1 DEF Swap!Step, Swap!Next
<1> QED BY <1>7, <1>8, <1>9, <1>10, <1>11 DEF Hop

\* Every rotation is an AddressSwap.
THEOREM Refinement == Spec => ImplementsAddressSwap
<1>1. Init => Swap!Init
  BY AddressAssumption DEF Init, Swap!Init, Place, Verdict
<1>2. IInv /\ IInv' /\ [Next]_vars => [Swap!Next]_(Swap!vars)
  <2> SUFFICES ASSUME IInv, IInv', [Next]_vars PROVE [Swap!Next]_(Swap!vars)
    OBVIOUS
  <2>1. CASE \E t \in Tx : StepOf(t)
    <3>1. PICK t \in Tx : StepOf(t) BY <2>1
    <3>2. Hop(t)
      BY <3>1, CommandHop, ProcessHop, EnvironmentHop DEF StepOf, IInv
    <3>3. ASSUME NEW u \in Tx, u # t PROVE Untouched(u)
      BY <3>1, <3>3, CommandOthers, ProcessOthers, EnvironmentOthers DEF StepOf, IInv
    <3> QED BY <3>2, <3>3, HopImplements
  <2>2. CASE OrphanRelease
    BY <2>2 DEF OrphanRelease, control, Swap!vars, Place, Verdict
  <2>3. CASE UNCHANGED vars BY <2>3 DEF vars, Swap!vars, Place, Verdict
  <2> QED BY <2>1, <2>2, <2>3 DEF Next, StepOf
<1> QED BY <1>1, <1>2, Invariance, PTL DEF Spec, ImplementsAddressSwap, Swap!Spec

-----------------------------------------------------------------------------
(* The way back of a lone rotation.                                        *)

\* The states in which the old address is the only way back.
Detached == {"server_off", "old_ip_unassigned", "new_ip_assigned", "server_on"}

\* What a step may do to them and to the old address.
Onward(t) ==
  /\ Where(t)' \in Detached => Where(t) \in Detached \cup {"new_ip_allocated"}
  /\ OldIp[t] \in pool /\ OldIp[t] \notin pool' => Finished(t)

\* A command of the operator takes t onward.
LEMMA CommandOnward ==
  ASSUME TypeOK, TypeOK', NEW t \in Tx, TxInv(t), Command(t)
  PROVE  Onward(t)
<1> USE AddressAssumption
    DEF TypeOK, ControlOK, FactsOK, WorldOK, Onward, Detached, Where, world
<1>1. CASE PlanRead(t) BY <1>1 DEF PlanRead, NoFault, facts, world, TxInv,
      PcFitsState
<1>2. CASE Resume(t) BY <1>2 DEF Resume, NoFault, facts, world, TxInv,
      PcFitsState
<1>3. CASE Rollback(t, "command") BY <1>3 DEF Rollback, NoFault, facts, world
<1>4. CASE Rollback(t, "no_dns") BY <1>4 DEF Rollback, NoFault, facts, world
<1>5. CASE ReleaseOldIp(t) BY <1>5 DEF ReleaseOldIp, Finished, Unassigned,
      Attached, Goto, Fault, NoFault, control, facts
<1>6. CASE DeclareAnsible(t) BY <1>6 DEF DeclareAnsible, NoFault, world, TxInv,
      PcFitsState
<1>7. CASE DeclareDns(t) BY <1>7 DEF DeclareDns, Reachable, NoFault, facts,
      world, TxInv, PcFitsState, PcFitsAddress, Located, Where
<1> QED BY <1>1, <1>2, <1>3, <1>4, <1>5, <1>6, <1>7 DEF Command

\* A forward step takes t onward.
LEMMA StepForwardOnward ==
  ASSUME TypeOK, TypeOK', NEW t \in Tx, TxInv(t), StepForward(t)
  PROVE  Onward(t)
<1> USE AddressAssumption
    DEF TypeOK, ControlOK, FactsOK, WorldOK, Onward, Detached, Where, world
<1>1. CASE StepFails(t) BY <1>1 DEF StepFails, MustPause, Fail, Escalate, Goto,
      Fault, facts, world, TxInv, PcFitsState
<1>2. CASE IdentityMismatch(t) BY <1>2 DEF IdentityMismatch, Expected,
      Escalate, NoFault, facts, world, TxInv, PcFitsState
<1>3. CASE Preflight(t) BY <1>3 DEF Preflight, At, Escalate, Goto, NoFault,
      facts, world, TxInv, PcFitsState
<1>4. CASE Allocate(t) BY <1>4 DEF Allocate, At, Identified, Expected,
      Answered, Fail, Escalate, Goto, Fault, NoFault, facts, TxInv, PcFitsState
<1>5. CASE AllocateQuota(t) BY <1>5 DEF AllocateQuota, At, Identified,
      Expected, Unassigned, Attached, Fail, Escalate, Goto, NoFault, facts,
      world, TxInv, PcFitsState
<1>6. CASE QuotaRelease(t)
  <2>1. state[t] = "cloudflare_preflighted"
    BY <1>6 DEF QuotaRelease, TxInv, PcFitsState
  <2>2. ip[t] = OldIp[t] BY <2>1 DEF TxInv, Located, BeforeDetach
  <2>3. UNCHANGED state
    BY <1>6, <2>1 DEF QuotaRelease, Answered, Fail, Escalate, Goto
  <2>4. OldIp[t] \in pool => OldIp[t] \in pool'
    BY <1>6, <2>2 DEF QuotaRelease, Unassigned, Attached
  <2> QED BY <2>1, <2>3, <2>4
<1>7. CASE AllocateAgain(t) BY <1>7 DEF AllocateAgain, Answered, Fail,
      Escalate, Goto, Fault, NoFault, facts, TxInv, PcFitsState
<1>8. CASE Protect(t) BY <1>8 DEF Protect, At, Identified, Expected, Answered,
      Fail, Escalate, Goto, Fault, NoFault, facts, TxInv, PcFitsState
<1>9. CASE RecordProtect(t) BY <1>9 DEF RecordProtect, Goto, NoFault, world
<1>10. CASE Stop(t) BY <1>10 DEF Stop, Identified, Expected, Answered, Fail,
      Escalate, Goto, Fault, NoFault, facts, TxInv, PcFitsState
<1>11. CASE Unassign(t) BY <1>11 DEF Unassign, At, Identified, Expected,
      Answered, Fail, Escalate, Goto, Fault, NoFault, facts, TxInv,
      PcFitsState, PcFitsAddress, Located, Where
<1>12. CASE Assign(t) BY <1>12 DEF Assign, At, Identified, Expected, Answered,
      Fail, Escalate, Goto, Fault, NoFault, facts, TxInv, PcFitsState,
      PcFitsAddress, Located, Where
<1>13. CASE Start(t) BY <1>13 DEF Start, At, Identified, Expected, Answered,
      Fail, Escalate, Goto, Fault, NoFault, facts, TxInv, PcFitsState
<1>14. CASE Health(t) BY <1>14 DEF Health, At, Reachable, Fail, Escalate, Goto,
      NoFault, facts, world, TxInv, PcFitsState
<1>15. CASE Ansible(t) BY <1>15 DEF Ansible, At, MustPause, Escalate, Goto,
      Fault, NoFault, Moved, TxInv, PcFitsState
<1>16. CASE ReplaceMark(t) BY <1>16 DEF ReplaceMark, At, Goto, NoFault, world
<1>17. CASE ReplaceRefused(t) BY <1>17 DEF ReplaceRefused, At, Escalate,
      NoFault, facts, world, TxInv, PcFitsState
<1>18. CASE Replace(t) BY <1>18 DEF Replace, Fail, Escalate, Goto, Fault,
      NoFault, Moved, TxInv, PcFitsState
<1>19. CASE RecordReplace(t) BY <1>19 DEF RecordReplace, Goto, NoFault, world
<1>20. CASE Verify(t) BY <1>20 DEF Verify, At, Identified, Expected, Reachable,
      Escalate, Goto, NoFault, facts, world, TxInv, PcFitsState
<1>21. CASE Transition(t)
  <2>1. pool' = pool BY <1>21 DEF Transition
  <2>2. Where(t)' = StepTo[state[t]] /\ Where(t) = state[t]
    BY <1>21 DEF Transition, StepTo
  <2>3. \A s \in StepStates :
          StepTo[s] \in Detached => s \in Detached \cup {"new_ip_allocated"}
    BY DEF StepTo
  <2>4. state[t] \in StepStates BY <1>21 DEF Transition, TxInv, PcFitsState
  <2> QED BY <2>1, <2>2, <2>3, <2>4
<1>22. CASE Finish(t) BY <1>22 DEF Finish, NoFault, facts, world
<1> QED BY <1>1, <1>2, <1>3, <1>4, <1>5, <1>6, <1>7, <1>8, <1>9, <1>10, <1>11,
      <1>12, <1>13, <1>14, <1>15, <1>16, <1>17, <1>18, <1>19, <1>20, <1>21,
      <1>22 DEF StepForward

\* A step of a remedy takes t onward.
LEMMA RemedyOnward ==
  ASSUME TypeOK, TypeOK', NEW t \in Tx, TxInv(t), Remedy(t)
  PROVE  Onward(t)
<1> USE AddressAssumption
    DEF TypeOK, ControlOK, FactsOK, WorldOK, Onward, Detached, Where, world
<1>1. CASE Restart(t) BY <1>1 DEF Restart, Escalate, Goto, Fault, NoFault,
      PowerOn, facts, TxInv, PcFitsState
<1>2. CASE RecordRestart(t) BY <1>2 DEF RecordRestart, NoFault, facts, world,
      TxInv, PcFitsState
<1>3. CASE RestoreBegin(t) BY <1>3 DEF RestoreBegin, NoFault, facts, world,
      TxInv, PcFitsState
<1>4. CASE RestoreRead(t) BY <1>4 DEF RestoreRead, Goto, NoFault, facts, world
<1>5. CASE RestoreCallFails(t) BY <1>5 DEF RestoreCallFails, RestoreFails,
      Escalate, Goto, Fault, facts, world, TxInv, PcFitsState
<1>6. CASE RestoreStop(t) BY <1>6 DEF RestoreStop, RestoreAnswered,
      RestoreFails, Escalate, Goto, Fault, NoFault, facts, TxInv, PcFitsState
<1>7. CASE RestoreAssign(t) BY <1>7 DEF RestoreAssign, RestoreAnswered,
      RestoreFails, Escalate, Goto, Fault, NoFault, facts, TxInv, PcFitsState,
      PcFitsAddress, Located, Where
<1>8. CASE RestoreStart(t) BY <1>8 DEF RestoreStart, RestoreFails, Escalate,
      Goto, Fault, NoFault, PowerOn, facts, TxInv, PcFitsState
<1>9. CASE RestoreTail(t) BY <1>9 DEF RestoreTail, Goto, Fault, NoFault,
      DnsRollback, DnsWasDone, Moved, facts
<1>10. CASE RestoreEnd(t) BY <1>10 DEF RestoreEnd, NoFault, facts, world,
      TxInv, PcFitsState, PcFitsAddress, Located, Where
<1> QED BY <1>1, <1>2, <1>3, <1>4, <1>5, <1>6, <1>7, <1>8, <1>9, <1>10
      DEF Remedy

\* The rest of a running process takes t onward.
LEMMA ProcessOnward ==
  ASSUME TypeOK, TypeOK', NEW t \in Tx, TxInv(t), Process(t)
  PROVE  Onward(t)
<1> USE AddressAssumption
    DEF TypeOK, ControlOK, FactsOK, WorldOK, Onward, Detached, Where, world
<1>1. CASE PlanValidate(t) BY <1>1 DEF PlanValidate, NoFault, facts, world,
      TxInv, PcFitsState
<1>2. CASE PlanFinish(t) BY <1>2 DEF PlanFinish, NoFault, facts, world, TxInv,
      PcFitsState
<1>3. CASE Pause(t) BY <1>3 DEF Pause, NoFault, facts, world
<1>4. CASE DnsRollbackOnly(t) BY <1>4 DEF DnsRollbackOnly, Goto, Fault,
      NoFault, DnsRollback, DnsWasDone, Moved, facts
<1>5. CASE RecordRelease(t) BY <1>5 DEF RecordRelease, Goto, NoFault, world
<1>6. CASE StepForward(t) BY <1>6, StepForwardOnward
<1>7. CASE Remedy(t) BY <1>7, RemedyOnward
<1> QED BY <1>1, <1>2, <1>3, <1>4, <1>5, <1>6, <1>7 DEF Process

\* The environment takes t onward.
LEMMA EnvironmentOnward ==
  ASSUME TypeOK, TypeOK', NEW t \in Tx, TxInv(t), Environment(t)
  PROVE  Onward(t)
<1> USE AddressAssumption
    DEF TypeOK, ControlOK, FactsOK, WorldOK, Onward, Detached, Where, world
<1>1. CASE BootFinishes(t) BY <1>1 DEF BootFinishes, NoFault, control, facts
<1>2. CASE BootFails(t) BY <1>2 DEF BootFails, Fault, control, facts
<1>3. CASE Crash(t) BY <1>3 DEF Crash, Goto, Fault, facts, world
<1> QED BY <1>1, <1>2, <1>3 DEF Environment

\* Of a lone rotation, every step takes it onward when nobody sweeps.
LEMMA NextOnward ==
  ASSUME IInv, IInv', NEW t \in Tx, Tx = {t}, ~Sweep, [Next]_vars
  PROVE  Onward(t)
<1>1. CASE UNCHANGED vars BY <1>1 DEF vars, Onward, Where
<1>2. CASE Next
  <2>1. Command(t) \/ Process(t) \/ Environment(t)
    BY <1>2 DEF Next, OrphanRelease
  <2> QED BY <2>1, CommandOnward, ProcessOnward, EnvironmentOnward DEF IInv
<1> QED BY <1>1, <1>2

\* With one rotation and no sweep, the old address leaves the project only
\* when the rotation is finished.
THEOREM WayBackIsKept ==
  ASSUME NEW lone, Tx = {lone}, ~Sweep
  PROVE  Spec => NoWayBackLost
<1> DEFINE Kept == \A t \in Tx :
      OldIp[t] \in pool /\ OldIp[t] \notin pool' => Finished(t)
<1>1. IInv /\ IInv' /\ [Next]_vars => [Kept]_vars BY NextOnward DEF Onward
<1> QED BY <1>1, Invariance, PTL DEF Spec, NoWayBackLost

\* Rotations that go onward keep their way back.
LEMMA OnwardKeepsWayBack ==
  ASSUME IInv, WayBackExists, \A t \in Tx : Onward(t)
  PROVE  WayBackExists'
<1> SUFFICES ASSUME NEW t \in Tx, Where(t)' \in Detached
             PROVE  OldIp[t] \in pool'
  BY DEF WayBackExists, Detached
<1>1. Where(t) \in Detached \cup {"new_ip_allocated"} BY DEF Onward
<1>2. OldIp[t] \in pool
  <2>1. CASE Where(t) \in Detached BY <2>1 DEF WayBackExists, Detached
  <2>2. CASE Where(t) = "new_ip_allocated"
    <3>1. ip[t] = OldIp[t] BY <2>2 DEF IInv, TxInv, Located, BeforeDetach
    <3> QED BY <3>1, AddressAssumption DEF IInv, TxInv, OwnAddress
  <2> QED BY <1>1, <2>1, <2>2
<1>3. ~Finished(t) BY <1>1 DEF Finished, Where, Detached
<1> QED BY <1>2, <1>3 DEF Onward

\* With one rotation and no sweep, the old address is there in every state
\* in which it is detached, or about to be, and NEW is not proved.
THEOREM WayBackIsThere ==
  ASSUME NEW t, Tx = {t}, ~Sweep
  PROVE  Spec => []WayBackExists
<1>1. Init => WayBackExists BY DEF Init, WayBackExists, Where
<1>2. IInv /\ IInv' /\ WayBackExists /\ [Next]_vars => WayBackExists'
  BY NextOnward, OnwardKeepsWayBack
<1> QED BY <1>1, <1>2, Invariance, PTL DEF Spec

-----------------------------------------------------------------------------
(* The way back of many rotations.                                         *)

\* A step of t deletes no address but its own old one, save in the quota
\* loop; and only a full project under retention "release" leads into that.
Modest(t) ==
  /\ pool \ pool' \subseteq {OldIp[t]} \/ pc[t] = "quota"
  /\ pc'[t] = "quota" /\ pc[t] # "quota" =>
       Retention = "release" /\ Cardinality(pool) >= Limit

\* A command of the operator of t deletes modestly.
LEMMA CommandModest ==
  ASSUME TypeOK, NEW t \in Tx, Command(t)
  PROVE  Modest(t)
<1> USE DEF TypeOK, ControlOK, WorldOK, Modest
<1>1. CASE PlanRead(t) BY <1>1 DEF PlanRead, facts, world
<1>2. CASE Resume(t) BY <1>2 DEF Resume, facts, world
<1>3. CASE Rollback(t, "command") BY <1>3 DEF Rollback, facts, world
<1>4. CASE Rollback(t, "no_dns") BY <1>4 DEF Rollback, facts, world
<1>5. CASE ReleaseOldIp(t) BY <1>5 DEF ReleaseOldIp, Goto, control, facts
<1>6. CASE DeclareAnsible(t) BY <1>6 DEF DeclareAnsible, world
<1>7. CASE DeclareDns(t) BY <1>7 DEF DeclareDns, facts, world
<1> QED BY <1>1, <1>2, <1>3, <1>4, <1>5, <1>6, <1>7 DEF Command

\* A forward step deletes modestly.
LEMMA StepForwardModest ==
  ASSUME TypeOK, NEW t \in Tx, StepForward(t)
  PROVE  Modest(t)
<1> USE DEF TypeOK, ControlOK, WorldOK, Modest
<1>1. CASE StepFails(t) BY <1>1 DEF StepFails, Fail, facts, world, Escalate,
      Goto
<1>2. CASE IdentityMismatch(t) BY <1>2 DEF IdentityMismatch, Escalate, facts,
      world
<1>3. CASE Preflight(t) BY <1>3 DEF Preflight, Escalate, Goto, At, facts,
      world
<1>4. CASE Allocate(t) BY <1>4 DEF Allocate, At, Answered, facts, Fail, Goto,
      Escalate
<1>5. CASE AllocateQuota(t) BY <1>5 DEF AllocateQuota, Fail, Goto, At, facts,
      world, Escalate
<1>6. CASE QuotaRelease(t) BY <1>6 DEF QuotaRelease, Fail, Answered, facts,
      Goto, Escalate
<1>7. CASE AllocateAgain(t) BY <1>7 DEF AllocateAgain, Fail, Answered, facts,
      Goto, Escalate
<1>8. CASE Protect(t) BY <1>8 DEF Protect, At, Answered, facts, Fail, Goto,
      Escalate
<1>9. CASE RecordProtect(t) BY <1>9 DEF RecordProtect, Goto, world
<1>10. CASE Stop(t) BY <1>10 DEF Stop, Fail, Answered, facts, Goto, Escalate
<1>11. CASE Unassign(t) BY <1>11 DEF Unassign, At, Answered, facts, Fail,
      Goto, Escalate
<1>12. CASE Assign(t) BY <1>12 DEF Assign, Fail, At, Answered, facts, Goto,
      Escalate
<1>13. CASE Start(t) BY <1>13 DEF Start, Fail, At, Answered, facts, Goto,
      Escalate
<1>14. CASE Health(t) BY <1>14 DEF Health, Fail, Goto, At, facts, world,
      Escalate
<1>15. CASE Ansible(t) BY <1>15 DEF Ansible, Escalate, Goto, At
<1>16. CASE ReplaceMark(t) BY <1>16 DEF ReplaceMark, Goto, At, world
<1>17. CASE ReplaceRefused(t) BY <1>17 DEF ReplaceRefused, Escalate, At,
      facts, world
<1>18. CASE Replace(t) BY <1>18 DEF Replace, Fail, Escalate, Goto
<1>19. CASE RecordReplace(t) BY <1>19 DEF RecordReplace, Goto, world
<1>20. CASE Verify(t) BY <1>20 DEF Verify, Escalate, At, facts, world
<1>21. CASE Transition(t) BY <1>21 DEF Transition, facts, world
<1>22. CASE Finish(t) BY <1>22 DEF Finish, facts, world
<1> QED BY <1>1, <1>2, <1>3, <1>4, <1>5, <1>6, <1>7, <1>8, <1>9, <1>10, <1>11,
      <1>12, <1>13, <1>14, <1>15, <1>16, <1>17, <1>18, <1>19, <1>20, <1>21,
      <1>22 DEF StepForward

\* A step of a remedy deletes nothing.
LEMMA RemedyModest ==
  ASSUME TypeOK, NEW t \in Tx, Remedy(t)
  PROVE  Modest(t)
<1> USE DEF TypeOK, ControlOK, WorldOK, Modest
<1>1. CASE Restart(t) BY <1>1 DEF Restart, Escalate, Goto, facts, PowerOn
<1>2. CASE RecordRestart(t) BY <1>2 DEF RecordRestart, facts, world
<1>3. CASE RestoreBegin(t) BY <1>3 DEF RestoreBegin, facts, world
<1>4. CASE RestoreRead(t) BY <1>4 DEF RestoreRead, Goto, facts, world
<1>5. CASE RestoreCallFails(t) BY <1>5 DEF RestoreCallFails, RestoreFails,
      facts, world, Escalate, Goto
<1>6. CASE RestoreStop(t) BY <1>6 DEF RestoreStop, Goto, RestoreAnswered,
      facts, RestoreFails, Escalate
<1>7. CASE RestoreAssign(t) BY <1>7 DEF RestoreAssign, RestoreFails,
      RestoreAnswered, facts, Goto, Escalate
<1>8. CASE RestoreStart(t) BY <1>8 DEF RestoreStart, Goto, RestoreFails,
      facts, PowerOn, Escalate
<1>9. CASE RestoreTail(t) BY <1>9 DEF RestoreTail, Goto, DnsWasDone,
      DnsRollback, facts
<1>10. CASE RestoreEnd(t) BY <1>10 DEF RestoreEnd, facts, world
<1> QED BY <1>1, <1>2, <1>3, <1>4, <1>5, <1>6, <1>7, <1>8, <1>9, <1>10 DEF
      Remedy

\* The rest of a running process deletes nothing.
LEMMA ProcessModest ==
  ASSUME TypeOK, NEW t \in Tx, Process(t)
  PROVE  Modest(t)
<1> USE DEF TypeOK, ControlOK, WorldOK, Modest
<1>1. CASE PlanValidate(t) BY <1>1 DEF PlanValidate, facts, world
<1>2. CASE PlanFinish(t) BY <1>2 DEF PlanFinish, facts, world
<1>3. CASE Pause(t) BY <1>3 DEF Pause, facts, world
<1>4. CASE DnsRollbackOnly(t) BY <1>4 DEF DnsRollbackOnly, Goto, DnsWasDone,
      DnsRollback, facts
<1>5. CASE RecordRelease(t) BY <1>5 DEF RecordRelease, Goto, world
<1>6. CASE StepForward(t) BY <1>6, StepForwardModest
<1>7. CASE Remedy(t) BY <1>7, RemedyModest
<1> QED BY <1>1, <1>2, <1>3, <1>4, <1>5, <1>6, <1>7 DEF Process

\* The environment deletes nothing.
LEMMA EnvironmentModest ==
  ASSUME TypeOK, NEW t \in Tx, Environment(t)
  PROVE  Modest(t)
<1> USE DEF TypeOK, ControlOK, WorldOK, Modest
<1>1. CASE BootFinishes(t) BY <1>1 DEF BootFinishes, control, facts
<1>2. CASE BootFails(t) BY <1>2 DEF BootFails, control, facts
<1>3. CASE Crash(t) BY <1>3 DEF Crash, Goto, facts, world
<1> QED BY <1>1, <1>2, <1>3 DEF Environment

\* The limit does not bind, or nothing is ever deleted to get below it.
Roomy == \/ Retention = "keep"
         \/ IsFiniteSet(Addr) /\ Cardinality(Addr) < Limit

\* There is room for every address, so no rotation waits for a quota.
LEMMA RoomInPool ==
  ASSUME TypeOK, Roomy
  PROVE  ~(Retention = "release" /\ Cardinality(pool) >= Limit)
<1>1. CASE Retention = "keep" BY <1>1
<1>2. CASE IsFiniteSet(Addr) /\ Cardinality(Addr) < Limit
  <2>1. IsFiniteSet(pool) /\ Cardinality(pool) <= Cardinality(Addr)
    BY <1>2, FS_Subset DEF TypeOK, WorldOK
  <2>2. Cardinality(pool) \in Nat /\ Cardinality(Addr) \in Nat
    BY <1>2, <2>1, FS_CardinalityType
  <2> QED BY <1>2, <2>1, <2>2, ConfigAssumption
<1> QED BY <1>1, <1>2 DEF Roomy

\* With room, no process is in the quota loop.
NoQuotaLoop == \A t \in Tx : pc[t] # "quota"

\* With room and without a sweep, a step takes every rotation onward.
LEMMA NextRoomy ==
  ASSUME IInv, IInv', Roomy, ~Sweep, NoQuotaLoop, [Next]_vars
  PROVE  NoQuotaLoop' /\ \A u \in Tx : Onward(u)
<1>1. CASE UNCHANGED vars BY <1>1 DEF vars, Onward, Where, NoQuotaLoop
<1>2. ASSUME NEW t \in Tx, StepOf(t)
      PROVE  NoQuotaLoop' /\ \A u \in Tx : Onward(u)
  <2>1. Modest(t)
    BY <1>2, CommandModest, ProcessModest, EnvironmentModest DEF StepOf, IInv
  <2>2. pc'[t] # "quota"
    BY <2>1, RoomInPool DEF Modest, NoQuotaLoop, IInv
  <2>3. Onward(t)
    BY <1>2, CommandOnward, ProcessOnward, EnvironmentOnward DEF StepOf, IInv
  <2>4. ASSUME NEW u \in Tx, u # t PROVE Onward(u) /\ pc'[u] # "quota"
    <3>1. Untouched(u)
      BY <1>2, <2>4, CommandOthers, ProcessOthers, EnvironmentOthers DEF StepOf, IInv
    <3>2. OldIp[u] \in pool => OldIp[u] \in pool'
      BY <2>1, <2>4, AddressAssumption DEF Modest, NoQuotaLoop
    <3> QED BY <3>1, <3>2 DEF Untouched, Onward, Where, NoQuotaLoop
  <2> QED BY <2>2, <2>3, <2>4 DEF NoQuotaLoop
<1> QED BY <1>1, <1>2 DEF Next, StepOf, OrphanRelease

\* However many rotations share the project: as long as its limit leaves
\* room for them, or retention is "keep", and nobody sweeps, the old address
\* leaves the project only when its own rotation is finished.
THEOREM WayBackIsKeptWithRoom ==
  ASSUME Roomy, ~Sweep
  PROVE  Spec => NoWayBackLost
<1> DEFINE Kept == \A t \in Tx :
      OldIp[t] \in pool /\ OldIp[t] \notin pool' => Finished(t)
<1>1. Init => NoQuotaLoop BY DEF Init, NoQuotaLoop
<1>2. IInv /\ IInv' /\ NoQuotaLoop /\ [Next]_vars => NoQuotaLoop' /\ [Kept]_vars
  BY NextRoomy DEF Onward
<1> QED BY <1>1, <1>2, Invariance, PTL DEF Spec, NoWayBackLost

\* Under the same conditions every detached server can be put back.
THEOREM WayBackIsThereWithRoom ==
  ASSUME Roomy, ~Sweep
  PROVE  Spec => []WayBackExists
<1>1. Init => NoQuotaLoop /\ WayBackExists
  BY DEF Init, NoQuotaLoop, WayBackExists, Where
<1>2. IInv /\ IInv' /\ NoQuotaLoop /\ WayBackExists /\ [Next]_vars
        => NoQuotaLoop' /\ WayBackExists'
  <2> SUFFICES ASSUME IInv, IInv', NoQuotaLoop, WayBackExists, [Next]_vars
               PROVE  NoQuotaLoop' /\ WayBackExists'
    OBVIOUS
  <2>1. NoQuotaLoop' /\ \A t \in Tx : Onward(t) BY NextRoomy
  <2>2. WayBackExists' BY <2>1, OnwardKeepsWayBack
  <2> QED BY <2>1, <2>2
<1> QED BY <1>1, <1>2, Invariance, PTL DEF Spec

-----------------------------------------------------------------------------
(* Servers without an address, as long as nothing fails.                   *)

\* A step of t leaves its server attended, brings no old address back into
\* the project and takes no fault back.
Attends(t) ==
  /\ Attended(t) => Attended(t)'
  /\ \A u \in Tx : OldIp[u] \in pool' => OldIp[u] \in pool
  /\ faults' = 0 => faults = 0

\* A command of the operator of t leaves no server unattended.
LEMMA CommandAttends ==
  ASSUME TypeOK, NEW t \in Tx, Command(t)
  PROVE  Attends(t)
<1> USE AddressAssumption
    DEF TypeOK, ControlOK, WorldOK, Attends, Attended, Fault, NoFault
<1>1. CASE PlanRead(t) BY <1>1 DEF PlanRead, facts, world
<1>2. CASE Resume(t) BY <1>2 DEF Resume, facts, world
<1>3. CASE Rollback(t, "command") BY <1>3 DEF Rollback, facts, world
<1>4. CASE Rollback(t, "no_dns") BY <1>4 DEF Rollback, facts, world
<1>5. CASE ReleaseOldIp(t) BY <1>5 DEF ReleaseOldIp, Goto, control, facts
<1>6. CASE DeclareAnsible(t) BY <1>6 DEF DeclareAnsible, world
<1>7. CASE DeclareDns(t) BY <1>7 DEF DeclareDns, facts, world
<1> QED BY <1>1, <1>2, <1>3, <1>4, <1>5, <1>6, <1>7 DEF Command

\* A forward step of t leaves no server unattended.
LEMMA StepForwardAttends ==
  ASSUME TypeOK, NEW t \in Tx, StepForward(t)
  PROVE  Attends(t)
<1> USE AddressAssumption
    DEF TypeOK, ControlOK, WorldOK, Attends, Attended, Fault, NoFault
<1>1. CASE StepFails(t) BY <1>1 DEF StepFails, MustPause, Fail, facts, world,
      Escalate, Goto
<1>2. CASE IdentityMismatch(t) BY <1>2 DEF IdentityMismatch, Expected,
      Escalate, facts, world
<1>3. CASE Preflight(t) BY <1>3 DEF Preflight, Escalate, Goto, At, facts,
      world
<1>4. CASE Allocate(t) BY <1>4 DEF Allocate, At, Answered, facts, Fail, Goto,
      Escalate
<1>5. CASE AllocateQuota(t) BY <1>5 DEF AllocateQuota, Fail, Goto, At, facts,
      world, Escalate
<1>6. CASE QuotaRelease(t) BY <1>6 DEF QuotaRelease, Fail, Answered, facts,
      Goto, Escalate
<1>7. CASE AllocateAgain(t) BY <1>7 DEF AllocateAgain, Fail, Answered, facts,
      Goto, Escalate
<1>8. CASE Protect(t) BY <1>8 DEF Protect, At, Answered, facts, Fail, Goto,
      Escalate
<1>9. CASE RecordProtect(t) BY <1>9 DEF RecordProtect, Goto, world
<1>10. CASE Stop(t) BY <1>10 DEF Stop, Fail, Answered, facts, Goto, Escalate
<1>11. CASE Unassign(t) BY <1>11 DEF Unassign, At, Answered, facts, Fail,
      Goto, Escalate
<1>12. CASE Assign(t) BY <1>12 DEF Assign, Fail, At, Answered, facts, Goto,
      Escalate
<1>13. CASE Start(t) BY <1>13 DEF Start, Fail, At, Answered, facts, Goto,
      Escalate
<1>14. CASE Health(t) BY <1>14 DEF Health, Fail, Goto, At, facts, world,
      Escalate
<1>15. CASE Ansible(t) BY <1>15 DEF Ansible, MustPause, Escalate, Goto, At
<1>16. CASE ReplaceMark(t) BY <1>16 DEF ReplaceMark, Goto, At, world
<1>17. CASE ReplaceRefused(t) BY <1>17 DEF ReplaceRefused, Escalate, At,
      facts, world
<1>18. CASE Replace(t) BY <1>18 DEF Replace, Fail, Escalate, Goto
<1>19. CASE RecordReplace(t) BY <1>19 DEF RecordReplace, Goto, world
<1>20. CASE Verify(t) BY <1>20 DEF Verify, Escalate, At, facts, world
<1>21. CASE Transition(t) BY <1>21 DEF Transition, StepTo, facts, world
<1>22. CASE Finish(t) BY <1>22 DEF Finish, facts, world
<1> QED BY <1>1, <1>2, <1>3, <1>4, <1>5, <1>6, <1>7, <1>8, <1>9, <1>10, <1>11,
      <1>12, <1>13, <1>14, <1>15, <1>16, <1>17, <1>18, <1>19, <1>20, <1>21,
      <1>22 DEF StepForward

\* A step of a remedy of t leaves no server unattended.
LEMMA RemedyAttends ==
  ASSUME TypeOK, NEW t \in Tx, Remedy(t)
  PROVE  Attends(t)
<1> USE AddressAssumption
    DEF TypeOK, ControlOK, WorldOK, Attends, Attended, Fault, NoFault
<1>1. CASE Restart(t) BY <1>1 DEF Restart, Escalate, Goto, facts, PowerOn
<1>2. CASE RecordRestart(t) BY <1>2 DEF RecordRestart, facts, world
<1>3. CASE RestoreBegin(t) BY <1>3 DEF RestoreBegin, facts, world
<1>4. CASE RestoreRead(t) BY <1>4 DEF RestoreRead, Goto, facts, world
<1>5. CASE RestoreCallFails(t) BY <1>5 DEF RestoreCallFails, RestoreFails,
      facts, world, Escalate, Goto
<1>6. CASE RestoreStop(t) BY <1>6 DEF RestoreStop, Goto, RestoreAnswered,
      facts, RestoreFails, Escalate
<1>7. CASE RestoreAssign(t) BY <1>7 DEF RestoreAssign, RestoreFails,
      RestoreAnswered, facts, Goto, Escalate
<1>8. CASE RestoreStart(t) BY <1>8 DEF RestoreStart, Goto, RestoreFails,
      facts, PowerOn, Escalate
<1>9. CASE RestoreTail(t) BY <1>9 DEF RestoreTail, Goto, DnsWasDone,
      DnsRollback, facts
<1>10. CASE RestoreEnd(t) BY <1>10 DEF RestoreEnd, facts, world
<1> QED BY <1>1, <1>2, <1>3, <1>4, <1>5, <1>6, <1>7, <1>8, <1>9, <1>10 DEF
      Remedy

\* The rest of a running process of t leaves no server unattended.
LEMMA ProcessAttends ==
  ASSUME TypeOK, NEW t \in Tx, Process(t)
  PROVE  Attends(t)
<1> USE AddressAssumption
    DEF TypeOK, ControlOK, WorldOK, Attends, Attended, Fault, NoFault
<1>1. CASE PlanValidate(t) BY <1>1 DEF PlanValidate, facts, world
<1>2. CASE PlanFinish(t) BY <1>2 DEF PlanFinish, facts, world
<1>3. CASE Pause(t) BY <1>3 DEF Pause, facts, world
<1>4. CASE DnsRollbackOnly(t) BY <1>4 DEF DnsRollbackOnly, Goto, DnsWasDone,
      DnsRollback, facts
<1>5. CASE RecordRelease(t) BY <1>5 DEF RecordRelease, Goto, world
<1>6. CASE StepForward(t) BY <1>6, StepForwardAttends
<1>7. CASE Remedy(t) BY <1>7, RemedyAttends
<1> QED BY <1>1, <1>2, <1>3, <1>4, <1>5, <1>6, <1>7 DEF Process

\* The environment of t leaves no server unattended.
LEMMA EnvironmentAttends ==
  ASSUME TypeOK, NEW t \in Tx, Environment(t)
  PROVE  Attends(t)
<1> USE AddressAssumption
    DEF TypeOK, ControlOK, WorldOK, Attends, Attended, Fault, NoFault
<1>1. CASE BootFinishes(t) BY <1>1 DEF BootFinishes, control, facts
<1>2. CASE BootFails(t) BY <1>2 DEF BootFails, control, facts
<1>3. CASE Crash(t) BY <1>3 DEF Crash, Goto, facts, world
<1> QED BY <1>1, <1>2, <1>3 DEF Environment

\* As long as no call fails and no process dies, no process leaves a server
\* without an address whose old one exists, whatever other rotations and
\* operators delete meanwhile, its new address included.
THEOREM NobodyIsStranded == Spec => []NoneStranded
<1> DEFINE All == \A t \in Tx : Attended(t)
<1>1. Init => All BY AddressAssumption DEF Init, Attended
<1>2. ASSUME IInv, All, [Next]_vars PROVE All'
  <2> SUFFICES ASSUME NEW t \in Tx PROVE Attended(t)'
    OBVIOUS
  <2>1. CASE UNCHANGED vars BY <1>2, <2>1 DEF vars, Attended
  <2>2. CASE OrphanRelease
    BY <1>2, <2>2 DEF OrphanRelease, control, NoFault, Attended
  <2>3. ASSUME NEW u \in Tx, StepOf(u) PROVE Attended(t)'
    <3>1. Attends(u)
      BY <1>2, <2>3, CommandAttends, ProcessAttends, EnvironmentAttends
      DEF StepOf, IInv
    <3>2. CASE u = t BY <1>2, <3>1, <3>2 DEF Attends
    <3>3. CASE u # t
      <4>1. Untouched(t)
        BY <1>2, <2>3, <3>3, CommandOthers, ProcessOthers, EnvironmentOthers
        DEF StepOf, IInv
      <4> QED BY <1>2, <3>1, <4>1 DEF Untouched, Attended, Attends
    <3> QED BY <3>2, <3>3
  <2> QED BY <1>2, <2>1, <2>2, <2>3 DEF Next, StepOf
<1>3. IInv /\ All /\ [Next]_vars => All' BY <1>2
<1>4. All => NoneStranded BY DEF Attended, NoneStranded
<1> QED BY <1>1, <1>3, <1>4, Invariance, PTL DEF Spec

-----------------------------------------------------------------------------
(* provider_only.                                                          *)

\* A step that does not find the PATCHes under way keeps off the records,
\* and does not get the PATCHes under way.
OffDns(t) == pc[t] # "patching" => pc'[t] # "patching" /\ dns'[t] = dns[t]

\* A command of the operator of a provider_only transaction keeps off its records.
LEMMA CommandOffDns ==
  ASSUME TypeOK, NEW t \in ProviderOnly, t \in Tx, Command(t)
  PROVE  OffDns(t)
<1> USE DEF TypeOK, ControlOK, WorldOK, OffDns
<1>1. CASE PlanRead(t) BY <1>1 DEF PlanRead, facts, world
<1>2. CASE Resume(t) BY <1>2 DEF Resume, facts, world
<1>3. CASE Rollback(t, "command") BY <1>3 DEF Rollback, facts, world
<1>4. CASE Rollback(t, "no_dns") BY <1>4 DEF Rollback, facts, world
<1>5. CASE ReleaseOldIp(t) BY <1>5 DEF ReleaseOldIp, Goto, control, facts
<1>6. CASE DeclareAnsible(t) BY <1>6 DEF DeclareAnsible, world
<1>7. CASE DeclareDns(t) BY <1>7 DEF DeclareDns, facts, world
<1> QED BY <1>1, <1>2, <1>3, <1>4, <1>5, <1>6, <1>7 DEF Command

\* A forward step of a provider_only transaction keeps off its records.
LEMMA StepForwardOffDns ==
  ASSUME TypeOK, NEW t \in ProviderOnly, t \in Tx, StepForward(t)
  PROVE  OffDns(t)
<1> USE DEF TypeOK, ControlOK, WorldOK, OffDns
<1>1. CASE StepFails(t) BY <1>1 DEF StepFails, MustPause, Fail, facts, world,
      Escalate, Goto
<1>2. CASE IdentityMismatch(t) BY <1>2 DEF IdentityMismatch, Escalate, facts,
      world
<1>3. CASE Preflight(t) BY <1>3 DEF Preflight, Escalate, Goto, At, facts,
      world
<1>4. CASE Allocate(t) BY <1>4 DEF Allocate, At, Answered, facts, Fail, Goto,
      Escalate
<1>5. CASE AllocateQuota(t) BY <1>5 DEF AllocateQuota, Fail, Goto, At, facts,
      world, Escalate
<1>6. CASE QuotaRelease(t) BY <1>6 DEF QuotaRelease, Fail, Answered, facts,
      Goto, Escalate
<1>7. CASE AllocateAgain(t) BY <1>7 DEF AllocateAgain, Fail, Answered, facts,
      Goto, Escalate
<1>8. CASE Protect(t) BY <1>8 DEF Protect, At, Answered, facts, Fail, Goto,
      Escalate
<1>9. CASE RecordProtect(t) BY <1>9 DEF RecordProtect, Goto, world
<1>10. CASE Stop(t) BY <1>10 DEF Stop, Fail, Answered, facts, Goto, Escalate
<1>11. CASE Unassign(t) BY <1>11 DEF Unassign, At, Answered, facts, Fail,
      Goto, Escalate
<1>12. CASE Assign(t) BY <1>12 DEF Assign, Fail, At, Answered, facts, Goto,
      Escalate
<1>13. CASE Start(t) BY <1>13 DEF Start, Fail, At, Answered, facts, Goto,
      Escalate
<1>14. CASE Health(t) BY <1>14 DEF Health, Fail, Goto, At, facts, world,
      Escalate
<1>15. CASE Ansible(t) BY <1>15 DEF Ansible, MustPause, Escalate, Goto, At
<1>16. CASE ReplaceMark(t) BY <1>16 DEF ReplaceMark, Goto, At, world
<1>17. CASE ReplaceRefused(t) BY <1>17 DEF ReplaceRefused, Escalate, At,
      facts, world
<1>18. CASE Replace(t) BY <1>18 DEF Replace, Fail, Escalate, Goto
<1>19. CASE RecordReplace(t) BY <1>19 DEF RecordReplace, Goto, world
<1>20. CASE Verify(t) BY <1>20 DEF Verify, Escalate, At, facts, world
<1>21. CASE Transition(t) BY <1>21 DEF Transition, facts, world
<1>22. CASE Finish(t) BY <1>22 DEF Finish, facts, world
<1> QED BY <1>1, <1>2, <1>3, <1>4, <1>5, <1>6, <1>7, <1>8, <1>9, <1>10, <1>11,
      <1>12, <1>13, <1>14, <1>15, <1>16, <1>17, <1>18, <1>19, <1>20, <1>21,
      <1>22 DEF StepForward

\* A step of a remedy of a provider_only transaction keeps off its records.
LEMMA RemedyOffDns ==
  ASSUME TypeOK, NEW t \in ProviderOnly, t \in Tx, Remedy(t)
  PROVE  OffDns(t)
<1> USE DEF TypeOK, ControlOK, WorldOK, OffDns
<1>1. CASE Restart(t) BY <1>1 DEF Restart, Escalate, Goto, facts, PowerOn
<1>2. CASE RecordRestart(t) BY <1>2 DEF RecordRestart, facts, world
<1>3. CASE RestoreBegin(t) BY <1>3 DEF RestoreBegin, facts, world
<1>4. CASE RestoreRead(t) BY <1>4 DEF RestoreRead, Goto, facts, world
<1>5. CASE RestoreCallFails(t) BY <1>5 DEF RestoreCallFails, RestoreFails,
      facts, world, Escalate, Goto
<1>6. CASE RestoreStop(t) BY <1>6 DEF RestoreStop, Goto, RestoreAnswered,
      facts, RestoreFails, Escalate
<1>7. CASE RestoreAssign(t) BY <1>7 DEF RestoreAssign, RestoreFails,
      RestoreAnswered, facts, Goto, Escalate
<1>8. CASE RestoreStart(t) BY <1>8 DEF RestoreStart, Goto, RestoreFails,
      facts, PowerOn, Escalate
<1>9. CASE RestoreTail(t) BY <1>9 DEF RestoreTail, Goto, DnsWasDone,
      DnsRollback, facts
<1>10. CASE RestoreEnd(t) BY <1>10 DEF RestoreEnd, facts, world
<1> QED BY <1>1, <1>2, <1>3, <1>4, <1>5, <1>6, <1>7, <1>8, <1>9, <1>10 DEF
      Remedy

\* The rest of a running process of a provider_only transaction keeps off its records.
LEMMA ProcessOffDns ==
  ASSUME TypeOK, NEW t \in ProviderOnly, t \in Tx, Process(t)
  PROVE  OffDns(t)
<1> USE DEF TypeOK, ControlOK, WorldOK, OffDns
<1>1. CASE PlanValidate(t) BY <1>1 DEF PlanValidate, facts, world
<1>2. CASE PlanFinish(t) BY <1>2 DEF PlanFinish, facts, world
<1>3. CASE Pause(t) BY <1>3 DEF Pause, facts, world
<1>4. CASE DnsRollbackOnly(t) BY <1>4 DEF DnsRollbackOnly, Goto, DnsWasDone,
      DnsRollback, facts
<1>5. CASE RecordRelease(t) BY <1>5 DEF RecordRelease, Goto, world
<1>6. CASE StepForward(t) BY <1>6, StepForwardOffDns
<1>7. CASE Remedy(t) BY <1>7, RemedyOffDns
<1> QED BY <1>1, <1>2, <1>3, <1>4, <1>5, <1>6, <1>7 DEF Process

\* The environment of a provider_only transaction keeps off its records.
LEMMA EnvironmentOffDns ==
  ASSUME TypeOK, NEW t \in ProviderOnly, t \in Tx, Environment(t)
  PROVE  OffDns(t)
<1> USE DEF TypeOK, ControlOK, WorldOK, OffDns
<1>1. CASE BootFinishes(t) BY <1>1 DEF BootFinishes, control, facts
<1>2. CASE BootFails(t) BY <1>2 DEF BootFails, control, facts
<1>3. CASE Crash(t) BY <1>3 DEF Crash, Goto, facts, world
<1> QED BY <1>1, <1>2, <1>3 DEF Environment

\* With provider_only no step writes a record: none but the replace step
\* starts PATCHes, and it refuses, as each remedy and `ansible` do.
THEOREM ProviderOnlyKeepsOff == Spec => ProviderOnlyLeavesDns
<1> DEFINE Off == \A t \in ProviderOnly : pc[t] # "patching"
           Kept == \A t \in ProviderOnly : dns'[t] = dns[t]
<1>1. Init => Off BY ConfigAssumption DEF Init
<1>2. ASSUME IInv, Off, [Next]_vars PROVE Off' /\ Kept
  <2> SUFFICES ASSUME NEW t \in ProviderOnly PROVE OffDns(t)
    BY <1>2 DEF OffDns
  <2>1. t \in Tx /\ TypeOK BY <1>2, ConfigAssumption DEF IInv
  <2>2. CASE UNCHANGED vars BY <2>2 DEF vars, OffDns
  <2>3. CASE OrphanRelease BY <2>3 DEF OrphanRelease, control, OffDns
  <2>4. ASSUME NEW u \in Tx, Command(u) \/ Process(u) \/ Environment(u)
        PROVE  OffDns(t)
    <3>1. CASE u = t
      BY <2>1, <2>4, <3>1, CommandOffDns, ProcessOffDns, EnvironmentOffDns
    <3>2. CASE u # t
      <4>1. Untouched(t)
        BY <2>1, <2>4, <3>2, CommandOthers, ProcessOthers, EnvironmentOthers
      <4> QED BY <4>1 DEF Untouched, OffDns
    <3> QED BY <3>1, <3>2
  <2> QED BY <1>2, <2>2, <2>3, <2>4 DEF Next
<1>3. IInv /\ Off /\ [Next]_vars => Off' /\ Kept BY <1>2
<1> QED BY <1>1, <1>3, Invariance, PTL DEF Spec, ProviderOnlyLeavesDns

=============================================================================
