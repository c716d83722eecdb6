------------------------ MODULE DataForestRunsProofs ------------------------
(***************************************************************************)
(* Why the runs of DataForestRotation end: every step of the running       *)
(* process brings it nearer to its end or sends a lost POST again, for     *)
(* every set of addresses, every limit and every number of faults.  What   *)
(* is left to TLC is that a process which has not ended has a step to      *)
(* take, and that the provider ends the actions it polls.                  *)
(***************************************************************************)
EXTENDS DataForestRotationProofs

USE DEF ApplyStates, FinalizeStates, Restore, Programs, Fault, NoFault, At,
        Runs, Goto, Ends, Exit, Leave, Escalate, Fail, Answered, control

\* There are fourteen steps, and each leads to one with fewer left.
LEMMA StepsLeftFall ==
  /\ \A s : StepsLeft(s) \in 1..14
  /\ \A s \in DOMAIN StepTo :
       StepTo[s] # "done" => StepsLeft(StepTo[s]) < StepsLeft(s)
<1>1. \A s : StepsLeft(s) \in 1..14 BY DEF StepsLeft
<1>2. /\ StepsLeft("confirmed") = 14 /\ StepsLeft("dataforest_preflighted") = 13
      /\ StepsLeft("new_ip_allocated") = 12 /\ StepsLeft("guest_configured") = 11
      /\ StepsLeft("guest_verified") = 10
      /\ StepsLeft("cloudflare_preflighted") = 9
      /\ StepsLeft("ansible_done") = 8 /\ StepsLeft("cloudflare_replaced") = 7
      /\ StepsLeft("awaiting_finalize") = 6
      /\ StepsLeft("dns_finalize_verified") = 5
      /\ StepsLeft("finalizing_started") = 4
      /\ StepsLeft("guest_pre_finalized") = 3
      /\ StepsLeft("old_ip_removed") = 2 /\ StepsLeft("guest_finalized") = 1
  BY DEF StepsLeft
<1> QED BY <1>1, <1>2, StepTable

LEMMA WithinType ==
  \A p : Within(p) \in 0..6 /\ Outside(p) \in 0..8
  BY DEF Within, Outside

\* A point further on in the same step is nearer to the end ...
LEMMA FurtherOn ==
  ASSUME state' = state, pc # "plan", pc' # "plan",
         0 < Within(pc'), Within(pc') < Within(pc)
  PROVE  Nearer
<1>1. /\ Distance = 10 * StepsLeft(state) + Within(pc)
      /\ Distance' = 10 * StepsLeft(state) + Within(pc')
  BY WithinType DEF Distance
<1> QED BY <1>1, StepsLeftFall, WithinType DEF Nearer

\* ... and so is every point outside the steps ...
LEMMA OutOfStep ==
  ASSUME pc = "plan" \/ 0 < Within(pc), pc' # "plan", Within(pc') = 0
  PROVE  Nearer
<1>1. Distance' \in 0..8 BY WithinType DEF Distance
<1>2. Distance \in Nat /\ Distance > 8
  BY StepsLeftFall, WithinType DEF Distance
<1> QED BY <1>1, <1>2 DEF Nearer

\* ... which have an order of their own.
LEMMA Outwards ==
  ASSUME pc # "plan", Within(pc) = 0, pc' # "plan", Within(pc') = 0,
         Outside(pc') < Outside(pc)
  PROVE  Nearer
<1>1. Distance = Outside(pc) /\ Distance' = Outside(pc') BY DEF Distance
<1> QED BY <1>1 DEF Nearer

\* The apply half.
LEMMA ApplyStepNearer ==
  ASSUME TypeOK, ApplyStep
  PROVE  Nearer \/ (SameRun /\ faults' > faults)
<1> USE FurtherOn, OutOfStep, Outwards DEF Within, Outside
<1>1. CASE Preflight BY <1>1 DEF Preflight
<1>2. CASE Allocate BY <1>2 DEF Allocate
<1>3. CASE AddPost BY <1>3 DEF AddPost, SameRun, TypeOK, WorldOK
<1>4. CASE Added BY <1>4 DEF Added
<1>5. CASE ConfigureGuest BY <1>5 DEF ConfigureGuest, GuestConfigured
<1>6. CASE VerifyGuest BY <1>6 DEF VerifyGuest
<1>7. CASE DnsPreflight BY <1>7 DEF DnsPreflight
<1>8. CASE Ansible BY <1>8 DEF Ansible
<1>9. CASE ReplaceMark BY <1>9 DEF ReplaceMark
<1>10. CASE Replace BY <1>10 DEF Replace
<1>11. CASE AwaitFinalize BY <1>11 DEF AwaitFinalize
<1> QED BY <1>1, <1>2, <1>3, <1>4, <1>5, <1>6, <1>7, <1>8, <1>9, <1>10, <1>11
      DEF ApplyStep

\* The finalize half; its announcement is checked in the state it leads to.
LEMMA FinalizeStepNearer ==
  ASSUME TypeOK, ControlInv, FinalizeStep
  PROVE  Nearer \/ (SameRun /\ faults' > faults)
<1> USE FurtherOn, OutOfStep, Outwards DEF Within, Outside
<1>1. CASE PrecheckSaved BY <1>1 DEF PrecheckSaved
<1>2. CASE PrecheckStep
  <2>1. pc = "loop" /\ (Goto("recorded") \/ Escalate)
    BY <1>2 DEF PrecheckStep
  <2> QED BY <2>1
<1>3. CASE FinalizeStarted
  <2>1. StepsLeft(state) = 5 /\ StepsLeft(state') = 4
    BY <1>3 DEF FinalizeStarted, StepsLeft
  <2>2. pc = "loop" /\ pc' = "checking" BY <1>3 DEF FinalizeStarted
  <2>3. Distance = 55 /\ Distance' = 46 BY <2>1, <2>2 DEF Distance
  <2> QED BY <2>3 DEF Nearer
<1>4. CASE FinalizeCheck BY <1>4 DEF FinalizeCheck
<1>5. CASE RemoveGuestAddress BY <1>5 DEF RemoveGuestAddress, GuestDropped
<1>6. CASE RemoveProvider BY <1>6 DEF RemoveProvider
<1>7. CASE RemovePost
  BY <1>7 DEF RemovePost, PostRemove, SameRun, TypeOK, WorldOK
<1>8. CASE Removed BY <1>8 DEF Removed
<1>9. CASE FinalizeGuest BY <1>9 DEF FinalizeGuest
<1>10. CASE Verify BY <1>10 DEF Verify
<1> QED BY <1>1, <1>2, <1>3, <1>4, <1>5, <1>6, <1>7, <1>8, <1>9, <1>10
      DEF FinalizeStep

\* The remedy.
LEMMA RemedyNearer ==
  ASSUME TypeOK, Remedy
  PROVE  Nearer \/ (SameRun /\ faults' > faults)
<1> USE Outwards DEF Within, Outside
<1>1. CASE RollbackBegin BY <1>1 DEF RollbackBegin
<1>2. CASE RollbackDnsHalf BY <1>2 DEF RollbackDnsHalf
<1>3. CASE RollbackGuestHalf BY <1>3 DEF RollbackGuestHalf
<1>4. CASE RollbackSeed BY <1>4 DEF RollbackSeed, Incomplete
<1>5. CASE RollbackPost
  BY <1>5 DEF RollbackPost, PostRemove, Incomplete, SameRun, TypeOK, WorldOK
<1>6. CASE RollbackPolled BY <1>6 DEF RollbackPolled
<1>7. CASE RollbackCallFails BY <1>7 DEF RollbackCallFails, Incomplete
<1>8. CASE RollbackCheck BY <1>8 DEF RollbackCheck, Incomplete
<1>9. CASE RollbackSave BY <1>9 DEF RollbackSave
<1> QED BY <1>1, <1>2, <1>3, <1>4, <1>5, <1>6, <1>7, <1>8, <1>9 DEF Remedy

\* The stages that are more than one step.
LEMMA StageStepNearer ==
  ASSUME TypeOK, StageStep
  PROVE  Nearer \/ (SameRun /\ faults' > faults)
<1> USE Outwards DEF Within, Outside
<1>1. CASE StageDnsEnd BY <1>1 DEF StageDnsEnd
<1>2. CASE StagePost
  BY <1>2 DEF StagePost, PostRemove, SameRun, TypeOK, WorldOK
<1>3. CASE StagePolled BY <1>3 DEF StagePolled
<1>4. CASE StageCheck BY <1>4 DEF StageCheck
<1>5. CASE StageCallFails BY <1>5 DEF StageCallFails
<1> QED BY <1>1, <1>2, <1>3, <1>4, <1>5 DEF StageStep

\* A poll that is given up ends the run or leads to the last look.
LEMMA GivingUpIsNearer ==
  ASSUME Polling, PollGivesUp
  PROVE  Nearer
<1> USE OutOfStep, Outwards DEF Within, Outside
<1> QED BY DEF Polling, PollGivesUp, Incomplete

\* The next state is saved: one step fewer is left.
LEMMA TransitionNearer ==
  ASSUME ControlInv, Transition
  PROVE  Nearer
<1>1. state \in DOMAIN StepTo /\ pc = "recorded"
  BY DEF Transition, ControlInv
<1>2. CASE StepTo[state] = "done"
  BY <1>1, <1>2, OutOfStep DEF Transition, Within
<1>3. CASE StepTo[state] # "done"
  <2>1. pc' = "loop" /\ StepsLeft(state') < StepsLeft(state)
    BY <1>1, <1>3, StepsLeftFall DEF Transition
  <2>2. /\ Distance = 10 * StepsLeft(state) + 2
        /\ Distance' = 10 * StepsLeft(state') + 5
    BY <1>1, <2>1 DEF Distance, Within
  <2> QED BY <2>1, <2>2, StepsLeftFall DEF Nearer
<1> QED BY <1>2, <1>3

\* Every step of the process.
LEMMA ProcessNearer ==
  ASSUME TypeOK, ControlInv, Process
  PROVE  Nearer \/ (SameRun /\ faults' > faults)
<1> USE OutOfStep, Outwards DEF Within, Outside
<1>1. CASE PlanValidate BY <1>1 DEF PlanValidate, Nearer, Distance
<1>2. CASE PlanFinish
  <2>1. CASE Leave("planned") BY <1>2, <2>1 DEF PlanFinish
  <2>2. CASE state' = "confirmed" /\ pc' = "loop"
    <3>1. StepsLeft(state') = 14 BY <2>2 DEF StepsLeft
    <3> QED BY <1>2, <2>2, <3>1 DEF PlanFinish, Nearer, Distance
  <2> QED BY <1>2, <2>1, <2>2 DEF PlanFinish
<1>3. CASE Pause BY <1>3 DEF Pause
<1>4. CASE Transition BY <1>4, TransitionNearer
<1>5. CASE StepFails BY <1>5 DEF StepFails
<1>6. CASE TokenMissing BY <1>6 DEF TokenMissing
<1>7. CASE PollTimeout BY <1>7, GivingUpIsNearer DEF PollTimeout
<1> QED BY <1>1, <1>2, <1>3, <1>4, <1>5, <1>6, <1>7, ApplyStepNearer,
      FinalizeStepNearer, RemedyNearer, StageStepNearer DEF Process

\* Nobody but the process sets it back.
LEMMA OthersDoNotSetBack ==
  ASSUME Command \/ Environment \/ UNCHANGED vars, pc # "idle"
  PROVE  Nearer \/ SameRun
<1>1. CASE Command
  BY <1>1 DEF Command, PlanRead, Resume, ResumeWrongRemedy, Finalize,
    FinalizePrecheck, ProviderFinalize, Rollback, Stage, StageDns,
    StageInventory, StageGuest, StageGuestFails, StageProvider, IdentityCheck,
    Saved, Idle
<1>2. CASE Environment
  <2>1. CASE ActionFails
    BY <2>1, GivingUpIsNearer DEF ActionFails, SameRun
  <2>2. CASE Crash
    <3>1. pc' = "idle" BY <2>2 DEF Crash
    <3>2. Distance' = 0 BY <3>1 DEF Distance, Within, Outside
    <3>3. Distance \in Nat /\ Distance > 0
      BY StepsLeftFall, WithinType DEF Distance, Outside
    <3> QED BY <3>2, <3>3 DEF Nearer
  <2> QED BY <1>2, <2>1, <2>2 DEF Environment, VouchExpires, MarkerExpires,
        ActionCompletes, ForeignEdit, SameRun
<1>3. CASE UNCHANGED vars BY <1>3 DEF vars, SameRun
<1> QED BY <1>1, <1>2, <1>3

\* Every process of a DataForest rotation has less and less before it:
\* execute(), the remedy and the staged commands never lead back to what
\* they have been through, and the only repetition is that of a POST whose
\* answer was lost (execute, _post_add_ipv4, _rollback_dataforest_new_ip).
THEOREM DataForestRunsAreFinite == Spec => RunsGetShorter
<1>1. ASSUME IInv, [Next]_vars
      PROVE  /\ Process => Nearer \/ (SameRun /\ faults' > faults)
             /\ pc # "idle" => Nearer \/ SameRun
  <2>1. TypeOK /\ ControlInv BY <1>1 DEF IInv
  <2>2. CASE Process BY <2>1, <2>2, ProcessNearer
  <2>3. CASE ~Process BY <1>1, <2>3, OthersDoNotSetBack DEF Next
  <2> QED BY <2>2, <2>3
<1>2. IInv /\ [Next]_vars =>
        [ /\ Process => Nearer \/ (SameRun /\ faults' > faults)
          /\ pc # "idle" => Nearer \/ SameRun ]_vars
  BY <1>1
<1> QED BY <1>2, Invariance, PTL DEF Spec, RunsGetShorter

=============================================================================
