-------------------------- MODULE HcloudRunsProofs --------------------------
(***************************************************************************)
(* Why the runs of HcloudRotation end: every step of a running process     *)
(* brings it nearer to its end, for every set of transactions, every       *)
(* limit, every quota list and every number of faults.  What is left to    *)
(* TLC is that a process which has not ended has a step to take.           *)
(***************************************************************************)
EXTENDS HcloudRotationProofs

USE DEF StepStates, PlanStates, States, RestartOnly, Restore, Pausable,
        ProcessCounters

\* There are ten steps, and each leads to one with fewer left.
LEMMA StepsLeftType ==
  \A s : StepsLeft(s) \in 1..10
  BY DEF StepsLeft

LEMMA StepsLeftFall ==
  \A s \in StepStates : StepTo[s] # "done" => StepsLeft(StepTo[s]) < StepsLeft(s)
<1>1. /\ StepsLeft("confirmed") = 10 /\ StepsLeft("cloudflare_preflighted") = 9
      /\ StepsLeft("new_ip_allocated") = 8 /\ StepsLeft("server_off") = 7
      /\ StepsLeft("old_ip_unassigned") = 6 /\ StepsLeft("new_ip_assigned") = 5
      /\ StepsLeft("server_on") = 4 /\ StepsLeft("connectivity_ok") = 3
      /\ StepsLeft("ansible_done") = 2 /\ StepsLeft("cloudflare_replaced") = 1
  BY DEF StepsLeft
<1> QED BY <1>1 DEF StepTo

LEMMA WithinType ==
  \A p : Within(p) \in 0..7 /\ Outside(p) \in 0..8
  BY DEF Within, Outside

\* A counter further on in the same step is nearer to the end ...
LEMMA FurtherOn ==
  ASSUME NEW t \in Tx, state'[t] = state[t], pc[t] # "plan", pc'[t] # "plan",
         0 < Within(pc'[t]), Within(pc'[t]) < Within(pc[t])
  PROVE  Nearer(t)
<1>1. /\ Distance(t) = 10 * StepsLeft(state[t]) + Within(pc[t])
      /\ Distance(t)' = 10 * StepsLeft(state[t]) + Within(pc'[t])
  BY WithinType DEF Distance
<1> QED BY <1>1, StepsLeftType, WithinType DEF Nearer

\* ... and so is every counter outside the steps.
LEMMA OutOfStep ==
  ASSUME NEW t \in Tx, pc[t] = "plan" \/ 0 < Within(pc[t]),
         pc'[t] # "plan", Within(pc'[t]) = 0
  PROVE  Nearer(t)
<1>1. Distance(t)' \in 0..8 BY WithinType DEF Distance
<1>2. Distance(t) \in Nat /\ Distance(t) > 8
  BY StepsLeftType, WithinType DEF Distance
<1> QED BY <1>1, <1>2 DEF Nearer

\* Outside the steps the counters have an order of their own.
LEMMA Outwards ==
  ASSUME NEW t \in Tx, pc[t] # "plan", Within(pc[t]) = 0,
         pc'[t] # "plan", Within(pc'[t]) = 0, Outside(pc'[t]) < Outside(pc[t])
  PROVE  Nearer(t)
<1>1. Distance(t) = Outside(pc[t]) /\ Distance(t)' = Outside(pc'[t])
  BY DEF Distance
<1> QED BY <1>1 DEF Nearer

\* A forward step brings its process nearer to its end.
LEMMA StepForwardNearer ==
  ASSUME TypeOK, TypeOK', NEW t \in Tx, TxInv(t), StepForward(t)
  PROVE  Nearer(t)
<1> USE FurtherOn, OutOfStep, Outwards DEF TypeOK, ControlOK, Within, Outside
<1>1. CASE StepFails(t) BY <1>1 DEF StepFails, Fail, Escalate, Goto
<1>2. CASE IdentityMismatch(t) BY <1>2 DEF IdentityMismatch, Escalate
<1>3. CASE Preflight(t) BY <1>3 DEF Preflight, Escalate, Goto, At
<1>4. CASE Allocate(t) BY <1>4 DEF Allocate, At, Answered, Fail, Goto,
      Escalate
<1>5. CASE AllocateQuota(t) BY <1>5 DEF AllocateQuota, Fail, Goto, At,
      Escalate
<1>6. CASE QuotaRelease(t)
  <2>1. PICK a \in seen[t] :
          \/ /\ seen' = [seen EXCEPT ![t] = @ \ {a}]
             /\ pc' = [pc EXCEPT ![t] = "quota"] /\ state' = state
          \/ Fail(t)
    BY <1>6 DEF QuotaRelease, Answered, Goto
  <2>2. CASE Fail(t) BY <1>6, <2>2 DEF QuotaRelease, Fail, Escalate, Goto
  <2>3. CASE ~Fail(t)
    <3>1. pc[t] = "quota" /\ pc'[t] = "quota" /\ state'[t] = state[t]
      BY <1>6, <2>1, <2>3 DEF QuotaRelease
    <3>2. seen'[t] = seen[t] \ {a} BY <2>1, <2>3 DEF FactsOK
    <3>3. Distance(t)' = Distance(t) BY <3>1 DEF Distance
    <3> QED BY <3>1, <3>2, <3>3 DEF Nearer
  <2> QED BY <2>2, <2>3
<1>7. CASE AllocateAgain(t) BY <1>7 DEF AllocateAgain, Fail, Answered, Goto,
      Escalate
<1>8. CASE Protect(t) BY <1>8 DEF Protect, At, Answered, Fail, Goto, Escalate
<1>9. CASE RecordProtect(t) BY <1>9 DEF RecordProtect, Goto
<1>10. CASE Stop(t) BY <1>10 DEF Stop, Fail, Answered, Goto, Escalate
<1>11. CASE Unassign(t) BY <1>11 DEF Unassign, At, Answered, Fail, Goto,
      Escalate
<1>12. CASE Assign(t) BY <1>12 DEF Assign, Fail, At, Answered, Goto, Escalate
<1>13. CASE Start(t) BY <1>13 DEF Start, Fail, At, Answered, Goto, Escalate
<1>14. CASE Health(t) BY <1>14 DEF Health, Fail, Goto, At, Escalate
<1>15. CASE Ansible(t) BY <1>15 DEF Ansible, Escalate, Goto, At
<1>16. CASE ReplaceMark(t) BY <1>16 DEF ReplaceMark, Goto, At
<1>17. CASE ReplaceRefused(t) BY <1>17 DEF ReplaceRefused, Escalate, At
<1>18. CASE Replace(t) BY <1>18 DEF Replace, Fail, Escalate, Goto
<1>19. CASE RecordReplace(t) BY <1>19 DEF RecordReplace, Goto
<1>20. CASE Verify(t) BY <1>20 DEF Verify, Escalate, At
<1>21. CASE Transition(t)
  <2>1. /\ state[t] \in StepStates /\ state'[t] = StepTo[state[t]]
        /\ pc[t] = "recorded"
        /\ pc'[t] = IF StepTo[state[t]] = "done" THEN "finished" ELSE "loop"
    BY <1>21 DEF Transition, TypeOK, ControlOK
  <2>2. CASE StepTo[state[t]] = "done"
    BY <2>1, <2>2, OutOfStep DEF Within
  <2>3. CASE StepTo[state[t]] # "done"
    <3>1. StepsLeft(state'[t]) < StepsLeft(state[t])
      BY <2>1, <2>3, StepsLeftFall
    <3>2. /\ Distance(t) = 10 * StepsLeft(state[t]) + 1
          /\ Distance(t)' = 10 * StepsLeft(state'[t]) + 7
      BY <2>1, <2>3 DEF Distance, Within
    <3> QED BY <3>1, <3>2, StepsLeftType DEF Nearer
  <2> QED BY <2>2, <2>3
<1>22. CASE Finish(t) BY <1>22 DEF Finish
<1> QED BY <1>1, <1>2, <1>3, <1>4, <1>5, <1>6, <1>7, <1>8, <1>9, <1>10, <1>11,
      <1>12, <1>13, <1>14, <1>15, <1>16, <1>17, <1>18, <1>19, <1>20, <1>21,
      <1>22 DEF StepForward

\* A step of a remedy brings it nearer to its end.
LEMMA RemedyNearer ==
  ASSUME TypeOK, TypeOK', NEW t \in Tx, TxInv(t), Remedy(t)
  PROVE  Nearer(t)
<1> USE FurtherOn, OutOfStep, Outwards DEF TypeOK, ControlOK, Within, Outside
<1>1. CASE Restart(t) BY <1>1 DEF Restart, Escalate, Goto
<1>2. CASE RecordRestart(t) BY <1>2 DEF RecordRestart
<1>3. CASE RestoreBegin(t) BY <1>3 DEF RestoreBegin
<1>4. CASE RestoreRead(t) BY <1>4 DEF RestoreRead, Goto
<1>5. CASE RestoreCallFails(t) BY <1>5 DEF RestoreCallFails, RestoreFails,
      Escalate, Goto
<1>6. CASE RestoreStop(t) BY <1>6 DEF RestoreStop, Goto, RestoreAnswered,
      RestoreFails, Escalate
<1>7. CASE RestoreAssign(t) BY <1>7 DEF RestoreAssign, RestoreFails,
      RestoreAnswered, Goto, Escalate
<1>8. CASE RestoreStart(t) BY <1>8 DEF RestoreStart, Goto, RestoreFails,
      Escalate
<1>9. CASE RestoreTail(t) BY <1>9 DEF RestoreTail, Goto
<1>10. CASE RestoreEnd(t) BY <1>10 DEF RestoreEnd
<1> QED BY <1>1, <1>2, <1>3, <1>4, <1>5, <1>6, <1>7, <1>8, <1>9, <1>10 DEF
      Remedy

\* So does every other step of a running process.
LEMMA ProcessNearer ==
  ASSUME TypeOK, TypeOK', NEW t \in Tx, TxInv(t), Process(t)
  PROVE  Nearer(t)
<1> USE FurtherOn, OutOfStep, Outwards DEF TypeOK, ControlOK, Within, Outside
<1>1. CASE PlanValidate(t)
  <2>1. CASE pc'[t] = "idle" BY <1>1, <2>1 DEF PlanValidate
  <2>2. CASE pc'[t] = "plan"
    <3>1. Distance(t)' = 111 /\ Distance(t) = 112
      BY <1>1, <2>2 DEF PlanValidate, Distance
    <3> QED BY <3>1 DEF Nearer
  <2> QED BY <1>1, <2>1, <2>2 DEF PlanValidate
<1>2. CASE PlanFinish(t)
  <2>1. CASE pc'[t] = "idle" BY <1>2, <2>1 DEF PlanFinish
  <2>2. CASE pc'[t] = "loop" /\ state'[t] = "confirmed"
    <3>1. Distance(t)' = 107 BY <2>2 DEF Distance, StepsLeft
    <3>2. Distance(t) = 111 BY <1>2 DEF PlanFinish, Distance
    <3> QED BY <3>1, <3>2 DEF Nearer
  <2> QED BY <1>2, <2>1, <2>2 DEF PlanFinish
<1>3. CASE Pause(t) BY <1>3 DEF Pause
<1>4. CASE DnsRollbackOnly(t) BY <1>4 DEF DnsRollbackOnly, Goto
<1>5. CASE RecordRelease(t) BY <1>5 DEF RecordRelease, Goto
<1>6. CASE StepForward(t) BY <1>6, StepForwardNearer
<1>7. CASE Remedy(t) BY <1>7, RemedyNearer
<1> QED BY <1>1, <1>2, <1>3, <1>4, <1>5, <1>6, <1>7 DEF Process

\* The operator and the environment start, stop or ignore a process; they do
\* not set it back.
LEMMA OthersNearer ==
  ASSUME TypeOK, NEW t \in Tx, Command(t) \/ Environment(t), pc[t] # "idle"
  PROVE  Nearer(t) \/ SameRun(t)
<1> USE DEF TypeOK, ControlOK, FactsOK
<1>1. ~Command(t)
  BY DEF Command, PlanRead, Resume, Rollback, ReleaseOldIp, DeclareAnsible,
     DeclareDns
<1>2. CASE BootFinishes(t) \/ BootFails(t)
  BY <1>2 DEF BootFinishes, BootFails, control, SameRun
<1>3. CASE Crash(t)
  <2>1. pc'[t] = "idle" BY <1>3 DEF Crash, Goto
  <2> QED BY <1>3, <2>1, OutOfStep, Outwards, WithinType DEF Crash, Within, Outside
<1> QED BY <1>1, <1>2, <1>3 DEF Environment

\* Whoever takes a step, no run gets longer; and each run that takes one is
\* nearer to its end.  A distance is a number and a quota list is a set of
\* addresses that only loses some, so no run goes on for ever.
THEOREM EveryStepIsProgress == Spec => RunsGetShorter
<1> DEFINE Shorter == \A t \in Tx : /\ Process(t) => Nearer(t)
                                    /\ pc[t] # "idle" => Nearer(t) \/ SameRun(t)
<1>1. ASSUME IInv, IInv', [Next]_vars, NEW t \in Tx
      PROVE  /\ Process(t) => Nearer(t)
             /\ pc[t] # "idle" => Nearer(t) \/ SameRun(t)
  <2>1. TypeOK /\ TypeOK' /\ TxInv(t) BY <1>1 DEF IInv
  <2>2. Process(t) => Nearer(t) BY <2>1, ProcessNearer
  <2>3. CASE UNCHANGED vars BY <2>2, <2>3 DEF vars, SameRun
  <2>4. CASE OrphanRelease BY <2>2, <2>4 DEF OrphanRelease, control, SameRun
  <2>5. ASSUME NEW u \in Tx, StepOf(u)
        PROVE  pc[t] # "idle" => Nearer(t) \/ SameRun(t)
    <3>1. CASE u = t
      BY <2>1, <2>2, <2>5, <3>1, OthersNearer DEF StepOf
    <3>2. CASE u # t
      <4>1. Untouched(t)
        BY <2>1, <2>5, <3>2, CommandOthers, ProcessOthers, EnvironmentOthers
        DEF StepOf
      <4> QED BY <4>1 DEF Untouched, SameRun
    <3> QED BY <3>1, <3>2
  <2> QED BY <1>1, <2>2, <2>3, <2>4, <2>5 DEF Next, StepOf
<1>2. IInv /\ IInv' /\ [Next]_vars => [Shorter]_vars BY <1>1
<1> QED BY <1>2, Invariance, PTL DEF Spec, RunsGetShorter

=============================================================================
