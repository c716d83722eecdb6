------------------------- MODULE HcloudCutoverProofs -------------------------
(***************************************************************************)
(* That HcloudRotation implements DnsCutover: whatever steps, rollbacks,   *)
(* failures and crashes a rotation goes through, its records move towards  *)
(* the new address only, and the apply it has recorded has happened.  The  *)
(* records one by one are CloudflareDns's; CloudflareDnsProofs shows that  *)
(* they implement the same specification.                                  *)
(***************************************************************************)
EXTENDS HcloudRotationProofs

USE DEF StepStates, PlanStates, States, RestartOnly, Restore, Pausable,
        ProcessCounters

\* The transaction is past its preflight.
Ready(t) == pc[t] = "recorded" \/ Where(t) \in StepStates \ {"confirmed"}

\* A step of t that leaves the records and what is said of them alone.
Aside(t) == /\ applied' = applied /\ dns' = dns
            /\ Ready(t)' => Ready(t)
            /\ pc'[t] \in {"patching", "called"} => pc'[t] = pc[t]

\* The steps about the records.
DnsStep(t) == \/ Preflight(t) \/ Ansible(t) \/ ReplaceMark(t) \/ Replace(t)
              \/ RecordReplace(t) \/ RestoreTail(t) \/ DnsRollbackOnly(t)

\* A command leaves the records to their steps.
LEMMA CommandAside ==
  ASSUME TypeOK, NEW t \in Tx, TxInv(t), Command(t)
  PROVE  Aside(t) \/ DnsStep(t)
<1> USE DEF TypeOK, ControlOK, PcFitsState, Aside, Ready, Where, TxInv
<1>1. CASE PlanRead(t) BY <1>1 DEF PlanRead, facts, world
<1>2. CASE Resume(t) BY <1>2 DEF Resume, facts, world
<1>3. CASE Rollback(t, "command") BY <1>3 DEF Rollback, facts, world
<1>4. CASE Rollback(t, "no_dns") BY <1>4 DEF Rollback, facts, world
<1>5. CASE ReleaseOldIp(t) BY <1>5 DEF ReleaseOldIp, Goto, control, facts
<1>6. CASE DeclareAnsible(t) BY <1>6 DEF DeclareAnsible, world
<1>7. CASE DeclareDns(t) BY <1>7 DEF DeclareDns, facts, world
<1> QED BY <1>1, <1>2, <1>3, <1>4, <1>5, <1>6, <1>7 DEF Command

\* Of the forward steps, five are about the records.
LEMMA StepForwardAside ==
  ASSUME TypeOK, NEW t \in Tx, TxInv(t), StepForward(t)
  PROVE  Aside(t) \/ DnsStep(t)
<1> USE DEF TypeOK, ControlOK, PcFitsState, Aside, Ready, Where, TxInv
<1>1. CASE StepFails(t) BY <1>1 DEF StepFails, Fail, facts, world, Escalate,
      Goto
<1>2. CASE IdentityMismatch(t) BY <1>2 DEF IdentityMismatch, Escalate, facts,
      world
<1>3. CASE Preflight(t) BY <1>3 DEF DnsStep
<1>4. CASE Allocate(t) BY <1>4 DEF Allocate, At, Answered, facts, Fail, Goto,
      Escalate
<1>5. CASE AllocateQuota(t) BY <1>5 DEF AllocateQuota, Fail, Goto, At, facts,
      world, Escalate
<1>6. CASE QuotaRelease(t) BY <1>6 DEF QuotaRelease, Fail, Answered, facts,
      Goto, Escalate
<1>7. CASE AllocateAgain(t) BY <1>7 DEF AllocateAgain, Fail, Answered, facts,
      Goto, Escalate
<1>8. CASE Protect(t) BY <1>8 DEF Protect, At, Answered, facts, Fail, Goto,
      Escalate
<1>9. CASE RecordProtect(t) BY <1>9 DEF RecordProtect, Goto, world
<1>10. CASE Stop(t) BY <1>10 DEF Stop, Fail, Answered, facts, Goto, Escalate
<1>11. CASE Unassign(t) BY <1>11 DEF Unassign, At, Answered, facts, Fail,
      Goto, Escalate
<1>12. CASE Assign(t) BY <1>12 DEF Assign, Fail, At, Answered, facts, Goto,
      Escalate
<1>13. CASE Start(t) BY <1>13 DEF Start, Fail, At, Answered, facts, Goto,
      Escalate
<1>14. CASE Health(t) BY <1>14 DEF Health, Fail, Goto, At, facts, world,
      Escalate
<1>15. CASE Ansible(t) BY <1>15 DEF DnsStep
<1>16. CASE ReplaceMark(t) BY <1>16 DEF DnsStep
<1>17. CASE ReplaceRefused(t) BY <1>17 DEF ReplaceRefused, Escalate, At,
      facts, world
<1>18. CASE Replace(t) BY <1>18 DEF DnsStep
<1>19. CASE RecordReplace(t) BY <1>19 DEF DnsStep
<1>20. CASE Verify(t) BY <1>20 DEF Verify, Escalate, At, facts, world
<1>21. CASE Transition(t) BY <1>21 DEF Transition, facts, world, StepTo
<1>22. CASE Finish(t) BY <1>22 DEF Finish, facts, world
<1> QED BY <1>1, <1>2, <1>3, <1>4, <1>5, <1>6, <1>7, <1>8, <1>9, <1>10, <1>11,
      <1>12, <1>13, <1>14, <1>15, <1>16, <1>17, <1>18, <1>19, <1>20, <1>21,
      <1>22 DEF StepForward

\* Of the remedy's steps, its tail is.
LEMMA RemedyAside ==
  ASSUME TypeOK, NEW t \in Tx, TxInv(t), Remedy(t)
  PROVE  Aside(t) \/ DnsStep(t)
<1> USE DEF TypeOK, ControlOK, PcFitsState, Aside, Ready, Where, TxInv
<1>1. CASE Restart(t) BY <1>1 DEF Restart, Escalate, Goto, facts
<1>2. CASE RecordRestart(t) BY <1>2 DEF RecordRestart, facts, world
<1>3. CASE RestoreBegin(t) BY <1>3 DEF RestoreBegin, facts, world
<1>4. CASE RestoreRead(t) BY <1>4 DEF RestoreRead, Goto, facts, world
<1>5. CASE RestoreCallFails(t) BY <1>5 DEF RestoreCallFails, RestoreFails,
      facts, world, Escalate, Goto
<1>6. CASE RestoreStop(t) BY <1>6 DEF RestoreStop, Goto, RestoreAnswered,
      facts, RestoreFails, Escalate
<1>7. CASE RestoreAssign(t) BY <1>7 DEF RestoreAssign, RestoreFails,
      RestoreAnswered, facts, Goto, Escalate
<1>8. CASE RestoreStart(t) BY <1>8 DEF RestoreStart, Goto, RestoreFails,
      facts, Escalate
<1>9. CASE RestoreTail(t) BY <1>9 DEF DnsStep
<1>10. CASE RestoreEnd(t) BY <1>10 DEF RestoreEnd, facts, world
<1> QED BY <1>1, <1>2, <1>3, <1>4, <1>5, <1>6, <1>7, <1>8, <1>9, <1>10 DEF
      Remedy

\* Of the other steps of a process, the DNS-only rollback is.
LEMMA ProcessAside ==
  ASSUME TypeOK, NEW t \in Tx, TxInv(t), Process(t)
  PROVE  Aside(t) \/ DnsStep(t)
<1> USE DEF TypeOK, ControlOK, PcFitsState, Aside, Ready, Where, TxInv
<1>1. CASE PlanValidate(t) BY <1>1 DEF PlanValidate, facts, world
<1>2. CASE PlanFinish(t) BY <1>2 DEF PlanFinish, facts, world
<1>3. CASE Pause(t) BY <1>3 DEF Pause, facts, world
<1>4. CASE DnsRollbackOnly(t) BY <1>4 DEF DnsStep
<1>5. CASE RecordRelease(t) BY <1>5 DEF RecordRelease, Goto, world
<1>6. CASE StepForward(t) BY <1>6, StepForwardAside
<1>7. CASE Remedy(t) BY <1>7, RemedyAside
<1> QED BY <1>1, <1>2, <1>3, <1>4, <1>5, <1>6, <1>7 DEF Process

\* The environment keeps off the records.
LEMMA EnvironmentAside ==
  ASSUME TypeOK, NEW t \in Tx, TxInv(t), Environment(t)
  PROVE  Aside(t) \/ DnsStep(t)
<1> USE DEF TypeOK, ControlOK, PcFitsState, Aside, Ready, Where, TxInv
<1>1. CASE BootFinishes(t) BY <1>1 DEF BootFinishes, control, facts
<1>2. CASE BootFails(t) BY <1>2 DEF BootFails, control, facts
<1>3. CASE Crash(t) BY <1>3 DEF Crash, Goto, facts, world
<1> QED BY <1>1, <1>2, <1>3 DEF Environment

\* What a step of its own leaves of the invariant of t.
LEMMA AsideInv ==
  ASSUME NEW t \in Tx, CutoverInv(t), Aside(t)
  PROVE  CutoverInv(t)'
  BY DEF CutoverInv, Aside, Ready

\* Aside is a stutter of DnsCutover.
LEMMA StandingStill ==
  ASSUME applied' = applied, dns' = dns
  PROVE  UNCHANGED Cutover!vars
  BY DEF Cutover!vars, Claimed

\* Some of t's records have moved.
LEMMA MovedOn ==
  ASSUME TypeOK, NEW t \in Tx, applied' = applied,
         NEW d \in Moved(dns[t]), dns' = [dns EXCEPT ![t] = d]
  PROVE  [Cutover!Next]_(Cutover!vars)
<1>1. [u \in Tx |-> Claimed(u)]' = [u \in Tx |-> Claimed(u)] BY DEF Claimed
<1>2. CASE d = dns[t] BY <1>2, StandingStill DEF TypeOK, WorldOK
<1>3. CASE d # dns[t]
  <2>1. Cutover!Move(t)
    BY <1>1, <1>3 DEF Moved, Cutover!Move, TypeOK, WorldOK
  <2> QED BY <2>1 DEF Cutover!Next, Cutover!Step
<1> QED BY <1>2, <1>3

\* What t's checkpoint says of its apply changes, and nothing else.
LEMMA ClaimChanges ==
  ASSUME TypeOK, NEW t \in Tx, NEW a \in {"none", "started", "partial", "ok"},
         applied' = [applied EXCEPT ![t] = a]
  PROVE  [u \in Tx |-> Claimed(u)]' =
           [[u \in Tx |-> Claimed(u)] EXCEPT ![t] =
              IF a \in {"none", "ok"} THEN a ELSE "started"]
  BY DEF Claimed, TypeOK, FactsOK

\* A step about the records keeps the invariant and is one of DnsCutover.
LEMMA DnsStepImplements ==
  ASSUME TypeOK, TypeOK', NEW t \in Tx, TxInv(t), CutoverInv(t), DnsStep(t)
  PROVE  CutoverInv(t)' /\ [Cutover!Next]_(Cutover!vars)
<1> USE DEF TypeOK, ControlOK, FactsOK, WorldOK
<1>1. CASE Preflight(t)
  <2>1. applied' = applied /\ dns' = dns BY <1>1 DEF Preflight, facts, world
  <2>2. pc'[t] \notin {"patching", "called"} BY <1>1 DEF Preflight, Goto, Escalate
  <2>3. Ready(t)' => t \in ProviderOnly \/ dns[t] # "none"
    BY <1>1 DEF Preflight, Goto, Escalate, At, Ready, Where
  <2>4. CutoverInv(t)' BY <2>1, <2>2, <2>3 DEF CutoverInv, Ready
  <2> QED BY <2>1, <2>4, StandingStill
<1>2. CASE Ansible(t)
  <2>1. PICK d \in Moved(dns[t]) : dns' = [dns EXCEPT ![t] = d]
    BY <1>2 DEF Ansible
  <2>2. applied' = applied BY <1>2 DEF Ansible
  <2>3. pc'[t] \notin {"patching", "called"} BY <1>2 DEF Ansible, Goto, Escalate
  <2>4. CutoverInv(t)'
    BY <1>2, <2>1, <2>2, <2>3
       DEF CutoverInv, Moved, Ansible, At, Where, MustPause
  <2> QED BY <2>1, <2>2, <2>4, MovedOn
<1>3. CASE ReplaceMark(t)
  <2> DEFINE a == IF applied[t] = "none" THEN "started" ELSE applied[t]
  <2>1. /\ applied' = [applied EXCEPT ![t] = a]
        /\ dns' = dns /\ pc'[t] = "patching" /\ state'[t] = state[t]
        /\ pc[t] = "loop" /\ state[t] = "ansible_done" /\ t \notin ProviderOnly
    BY <1>3 DEF ReplaceMark, Goto, At, world
  <2>2. dns[t] # "none" BY <2>1 DEF CutoverInv, Where
  <2>3. CutoverInv(t)' BY <2>1, <2>2 DEF CutoverInv, Where
  <2>4. CASE applied[t] = "none"
    <3>1. Cutover!Start(t)
      BY <2>1, <2>2, <2>4, ClaimChanges DEF Cutover!Start
    <3> QED BY <2>3, <3>1 DEF Cutover!Next, Cutover!Step
  <2>5. CASE applied[t] # "none" BY <2>1, <2>3, <2>5, StandingStill
  <2> QED BY <2>4, <2>5
<1>4. CASE Replace(t)
  <2>1. pc[t] = "patching" /\ state[t] = "ansible_done" /\ applied[t] # "none"
    BY <1>4 DEF Replace, CutoverInv, TxInv, PcFitsState
  <2>2. dns[t] # "none" /\ t \notin ProviderOnly BY <2>1 DEF CutoverInv
  <2>3. PICK d \in Moved(dns[t]) : dns' = [dns EXCEPT ![t] = d]
    BY <1>4, <2>2 DEF Replace, Moved
  <2>4. CASE applied' = applied
    <3>1. CutoverInv(t)' BY <2>1, <2>2, <2>3, <2>4 DEF CutoverInv, Moved
    <3> QED BY <2>3, <2>4, <3>1, MovedOn
  <2>5. CASE applied' = [applied EXCEPT ![t] = "partial"]
    <3>1. CutoverInv(t)' BY <2>1, <2>2, <2>3, <2>5 DEF CutoverInv, Moved
    <3>2. CASE applied[t] = "ok"
      <4>1. dns' = dns BY <2>3, <3>2 DEF CutoverInv, Moved
      <4>2. Cutover!Start(t)
        BY <2>2, <2>5, <4>1, ClaimChanges DEF Cutover!Start
      <4> QED BY <3>1, <4>2 DEF Cutover!Next, Cutover!Step
    <3>3. CASE applied[t] # "ok"
      <4>1. [u \in Tx |-> Claimed(u)]' = [u \in Tx |-> Claimed(u)]
        BY <2>1, <2>5, <3>3 DEF Claimed
      <4>2. CASE d = dns[t]
        <5>1. dns' = dns BY <2>3, <4>2
        <5> QED BY <3>1, <4>1, <5>1 DEF Cutover!vars
      <4>3. CASE d # dns[t]
        <5>1. Cutover!Move(t) BY <2>3, <4>1, <4>3 DEF Moved, Cutover!Move
        <5> QED BY <3>1, <5>1 DEF Cutover!Next, Cutover!Step
      <4> QED BY <4>2, <4>3
    <3> QED BY <3>2, <3>3
  <2> QED BY <1>4, <2>4, <2>5 DEF Replace
<1>5. CASE RecordReplace(t)
  <2>1. /\ applied' = [applied EXCEPT ![t] = "ok"] /\ dns' = dns
        /\ pc[t] = "called" /\ pc'[t] = "recorded" /\ state'[t] = state[t]
    BY <1>5 DEF RecordReplace, Goto, world
  <2>2. dns[t] = "new" BY <2>1 DEF TxInv, ServingFollows
  <2>3. CutoverInv(t)' BY <2>1, <2>2 DEF CutoverInv
  <2>4. CASE applied[t] = "ok"
    <3>1. applied' = applied BY <2>1, <2>4
    <3> QED BY <2>1, <2>3, <3>1, StandingStill
  <2>5. CASE applied[t] # "ok"
    <3>1. Claimed(t) = "started" BY <2>1, <2>5 DEF Claimed, CutoverInv
    <3>2. Cutover!Claim(t)
      BY <2>1, <2>2, <3>1, ClaimChanges DEF Cutover!Claim
    <3> QED BY <2>3, <3>2 DEF Cutover!Next, Cutover!Step
  <2> QED BY <2>4, <2>5
<1>6. CASE RestoreTail(t) \/ DnsRollbackOnly(t)
  <2>1. /\ applied' = applied
        /\ \E d \in Moved(dns[t]) : dns' = [dns EXCEPT ![t] = d]
    BY <1>6 DEF RestoreTail, DnsRollbackOnly, DnsRollback, Moved, facts
  <2>2. Ready(t)' => Ready(t)
    BY <1>6 DEF RestoreTail, DnsRollbackOnly, Goto, Ready, Where, TxInv, PcFitsState
  <2>3. pc'[t] \notin {"patching", "called"}
    BY <1>6 DEF RestoreTail, DnsRollbackOnly, Goto
  <2>4. CutoverInv(t)' BY <2>1, <2>2, <2>3 DEF CutoverInv, Moved, Ready
  <2> QED BY <2>1, <2>4, MovedOn
<1> QED BY <1>1, <1>2, <1>3, <1>4, <1>5, <1>6 DEF DnsStep

\* The records of another transaction are another's.
LEMMA OtherRecords ==
  ASSUME TypeOK, NEW t \in Tx, NEW u \in Tx, t # u, Untouched(u),
         CutoverInv(u), Aside(t) \/ DnsStep(t)
  PROVE  CutoverInv(u)'
<1>1. applied'[u] = applied[u]
  BY DEF Aside, DnsStep, Preflight, Ansible, ReplaceMark, Replace,
     RecordReplace, RestoreTail, DnsRollbackOnly, facts, world, TypeOK, FactsOK
<1> QED BY <1>1 DEF CutoverInv, Untouched, Where

\* Every step keeps the invariant and is a step of DnsCutover or none.
LEMMA StepImplements ==
  ASSUME IInv, IInv', \A u \in Tx : CutoverInv(u), [Next]_vars
  PROVE  (\A u \in Tx : CutoverInv(u)') /\ [Cutover!Next]_(Cutover!vars)
<1>1. CASE OrphanRelease \/ UNCHANGED vars
  <2>1. applied' = applied /\ dns' = dns /\ pc' = pc /\ state' = state /\ resume' = resume
    BY <1>1 DEF OrphanRelease, control, facts, vars
  <2> QED BY <2>1, StandingStill DEF CutoverInv, Where
<1>2. ASSUME NEW t \in Tx, StepOf(t)
      PROVE  (\A u \in Tx : CutoverInv(u)') /\ [Cutover!Next]_(Cutover!vars)
  <2>1. TypeOK /\ TypeOK' /\ TxInv(t) BY DEF IInv
  <2>2. Aside(t) \/ DnsStep(t)
    BY <1>2, <2>1, CommandAside, ProcessAside, EnvironmentAside DEF StepOf
  <2>3. ASSUME NEW u \in Tx, t # u PROVE CutoverInv(u)'
    <3>1. Untouched(u)
      BY <1>2, <2>1, <2>3, CommandOthers, ProcessOthers, EnvironmentOthers
         DEF StepOf
    <3> QED BY <2>1, <2>2, <2>3, <3>1, OtherRecords
  <2>4. CutoverInv(t)' /\ [Cutover!Next]_(Cutover!vars)
    BY <2>1, <2>2, AsideInv, StandingStill, DnsStepImplements DEF Aside
  <2> QED BY <2>3, <2>4
<1> QED BY <1>1, <1>2 DEF Next, StepOf

\* A rotation's records go through a DnsCutover nobody disturbs: they are
\* moved towards the new address only, even by a rollback, and the apply
\* that is on disk has happened (_step_cloudflare_replace, _do_dns_rollback).
THEOREM HcloudCutover == Spec => ImplementsCutover
<1> DEFINE Inv == \A t \in Tx : CutoverInv(t)
<1>1. Init => Inv /\ Cutover!Init
  BY ConfigAssumption DEF Init, CutoverInv, Where, Cutover!Init, Claimed
<1>2. IInv /\ IInv' /\ Inv /\ [Next]_vars => Inv' /\ [Cutover!Next]_(Cutover!vars)
  BY StepImplements
<1> QED BY <1>1, <1>2, Invariance, PTL DEF Spec, ImplementsCutover, Cutover!Spec

=============================================================================
