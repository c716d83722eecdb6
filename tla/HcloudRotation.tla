--------------------------- MODULE HcloudRotation ---------------------------
(***************************************************************************)
(* The Hetzner half of rotate.py: the checkpointed state machine that      *)
(* moves a server from its OLD Primary IPv4 to a NEW one, its two          *)
(* remedies, and the operator's commands around it.                        *)
(*                                                                         *)
(* One transaction t rotates one server.  Transactions of different        *)
(* servers run concurrently and share the project's pool of Primary IPs.   *)
(* A process is a sequence of provider calls with a checkpoint write after *)
(* each; it can die between any two of them, and a call can take effect    *)
(* although the caller sees a failure.  What is on disk survives, the      *)
(* program counter does not.                                               *)
(*                                                                         *)
(* A Primary IP is identified by its name: the transaction's NEW address   *)
(* is whatever carries `<alias>-ipv4-<txid>`.  with_retries collapses into *)
(* one call, because every call it wraps here is idempotent: the calls of  *)
(* one retry loop together either took effect or did not, and report       *)
(* success or failure.                                                     *)
(***************************************************************************)
EXTENDS Naturals, FiniteSets

CONSTANTS
  Tx,            \* transactions, each with a server of its own
  Addr,          \* Primary IPs that may exist in the project
  OldIp, NewIp,  \* [Tx -> Addr], the two addresses of a transaction
  NoIp,          \* "the server has no public IPv4"
  Limit,         \* the project's Primary IP limit
  Retention,     \* old_ip.retention, "keep" or "release"
  ProviderOnly,  \* transactions run with cloudflare.mode = provider_only
  Unlisted,      \* transactions whose DNS records break dns.allowed_records
  Sweep,         \* an operator may run `release-old-ip --ip all-unassigned`
  FirstPower,    \* the power states a server may be in when planned
  MaxFaults      \* bound on failed calls, lost answers and crashes

ASSUME AddressAssumption ==
  /\ OldIp \in [Tx -> Addr]
  /\ NewIp \in [Tx -> Addr]
  /\ \A t, u \in Tx : OldIp[t] # NewIp[u]
  /\ \A t, u \in Tx : t # u => OldIp[t] # OldIp[u] /\ NewIp[t] # NewIp[u]
  /\ NoIp \notin Addr

ASSUME ConfigAssumption ==
  /\ Retention \in {"keep", "release"}
  /\ Sweep \in BOOLEAN
  /\ ProviderOnly \subseteq Tx /\ Unlisted \subseteq Tx
  /\ Limit \in Nat
  /\ FirstPower \subseteq {"running", "off"}
  /\ MaxFaults \in Nat

VARIABLES
  \* the checkpoint state/<txid>.json
  state, resume, outcome,
  protected, ansible, applied, released,
  \* the running process: where it is, who called the remedy, sweep list
  pc, via, seen,
  \* the provider and Cloudflare
  power, ip, pool, autoDelete, dns,
  \* faults injected so far
  faults

control == <<state, resume, outcome, pc, via>>
facts   == <<protected, ansible, applied, released>>
world   == <<power, ip, pool, autoDelete, dns>>
vars    == <<state, resume, outcome, protected, ansible, applied, released,
             pc, via, seen, power, ip, pool, autoDelete, dns, faults>>

-----------------------------------------------------------------------------
(* The step table.                                                         *)

StepStates == {"confirmed", "cloudflare_preflighted", "new_ip_allocated",
               "server_off", "old_ip_unassigned", "new_ip_assigned",
               "server_on", "connectivity_ok", "ansible_done",
               "cloudflare_replaced"}

PlanStates == {"created", "validated", "planned"}

States == StepStates \cup PlanStates \cup
          {"new", "done", "needs_rollback", "rolled_back",
           "rollback_incomplete", "escalated"}

StepTo == [ s \in StepStates |->
  CASE s = "confirmed"              -> "cloudflare_preflighted"
    [] s = "cloudflare_preflighted" -> "new_ip_allocated"
    [] s = "new_ip_allocated"       -> "server_off"
    [] s = "server_off"             -> "old_ip_unassigned"
    [] s = "old_ip_unassigned"      -> "new_ip_assigned"
    [] s = "new_ip_assigned"        -> "server_on"
    [] s = "server_on"              -> "connectivity_ok"
    [] s = "connectivity_ok"        -> "ansible_done"
    [] s = "ansible_done"           -> "cloudflare_replaced"
    [] s = "cloudflare_replaced"    -> "done" ]

RestartOnly == {"cloudflare_preflighted", "new_ip_allocated"}
Restore     == {"server_off", "old_ip_unassigned", "server_on", "ansible_done"}

Pausable == {"connectivity_ok", "new_ip_allocated", "cloudflare_preflighted",
             "ansible_done", "cloudflare_replaced"}

\* The address assert_identity demands before the step of a state runs.
Expected(t, s) ==
  IF s \in {"cloudflare_preflighted", "new_ip_allocated", "server_off"}
    THEN OldIp[t]
    ELSE IF s = "old_ip_unassigned" THEN NoIp ELSE NewIp[t]

AssertsIdentity == {"cloudflare_preflighted", "new_ip_allocated", "server_off",
                    "old_ip_unassigned", "new_ip_assigned",
                    "cloudflare_replaced"}

-----------------------------------------------------------------------------
(* Helpers.                                                                *)

Attached(a)   == \E t \in Tx : ip[t] = a
Unassigned    == {a \in pool : ~Attached(a)}

Fault   == faults < MaxFaults /\ faults' = faults + 1
NoFault == UNCHANGED faults

At(t, s) == pc[t] = "loop" /\ state[t] = s

Goto(t, p) == /\ pc' = [pc EXCEPT ![t] = p]
              /\ UNCHANGED <<state, resume, outcome, via>>

\* escalate(): remember where the run was, save, and leave.
Escalate(t) == /\ resume' = [resume EXCEPT ![t] = state[t]]
               /\ state' = [state EXCEPT ![t] = "escalated"]
               /\ outcome' = [outcome EXCEPT ![t] = "escalated"]
               /\ pc' = [pc EXCEPT ![t] = "idle"]
               /\ UNCHANGED via

\* _handle_failure(): the policy of the step that failed.
Fail(t) ==
  \/ /\ state[t] \in RestartOnly
     /\ Goto(t, "restart")
  \/ /\ state[t] \in Restore
     /\ pc' = [pc EXCEPT ![t] = "r_begin"]
     /\ via' = [via EXCEPT ![t] = "step"]
     /\ UNCHANGED <<state, resume, outcome>>
  \/ /\ state[t] \in StepStates \ (RestartOnly \cup Restore)
     /\ Escalate(t)

\* A provider call that took effect: the answer arrived, or it was lost.
Answered(t, p) == \/ Goto(t, p) /\ NoFault
                  \/ Fail(t) /\ Fault

-----------------------------------------------------------------------------
(* plan, apply, resume.                                                    *)

\* _plan_hcloud: the server is read, its address must be the expected one.
PlanRead(t) ==
  /\ pc[t] = "idle" /\ state[t] = "new"
  /\ ip[t] = OldIp[t]
  /\ state' = [state EXCEPT ![t] = "created"]
  /\ pc' = [pc EXCEPT ![t] = "plan"]
  /\ UNCHANGED <<resume, outcome, via, facts, seen, world>> /\ NoFault

\* The DNS allow-list: `validated` is saved first, then a violation raises.
PlanValidate(t) ==
  /\ pc[t] = "plan" /\ state[t] = "created"
  /\ state' = [state EXCEPT ![t] = "validated"]
  /\ pc' = [pc EXCEPT ![t] = IF t \in Unlisted THEN "idle" ELSE "plan"]
  /\ UNCHANGED <<resume, outcome, via, facts, seen, world>> /\ NoFault

\* `plan` ends here; `apply` goes on to `confirmed`.
PlanFinish(t) ==
  /\ pc[t] = "plan" /\ state[t] = "validated"
  /\ \/ /\ state' = [state EXCEPT ![t] = "planned"]
        /\ pc' = [pc EXCEPT ![t] = "idle"]
     \/ /\ state' = [state EXCEPT ![t] = "confirmed"]
        /\ pc' = [pc EXCEPT ![t] = "loop"]
  /\ UNCHANGED <<resume, outcome, via, facts, seen, world>> /\ NoFault

\* `resume`: main() confirms a plan state, execute() picks the rest up.
Resume(t) ==
  /\ pc[t] = "idle"
  /\ \/ /\ state[t] \in PlanStates
        /\ state' = [state EXCEPT ![t] = "confirmed"]
        /\ pc' = [pc EXCEPT ![t] = "loop"]
        /\ UNCHANGED <<outcome, via>>
     \/ /\ state[t] \in StepStates
        /\ pc' = [pc EXCEPT ![t] = "loop"]
        /\ UNCHANGED <<state, outcome, via>>
     \/ /\ state[t] = "escalated" /\ resume[t] \in StepStates
        /\ state' = [state EXCEPT ![t] = resume[t]]
        /\ outcome' = [outcome EXCEPT ![t] = "in_progress"]
        /\ pc' = [pc EXCEPT ![t] = "loop"]
        /\ UNCHANGED via
     \/ /\ state[t] = "needs_rollback"
        /\ pc' = [pc EXCEPT ![t] = "r_begin"]
        /\ via' = [via EXCEPT ![t] = "command"]
        /\ UNCHANGED <<state, outcome>>
  /\ UNCHANGED <<resume, facts, seen, world>> /\ NoFault

MustPause(t) == t \in ProviderOnly /\ state[t] = "connectivity_ok"

\* --until names the state, or provider_only stops at connectivity_ok.
Pause(t) ==
  /\ pc[t] = "loop" /\ state[t] \in Pausable
  /\ outcome' = [outcome EXCEPT ![t] = "paused"]
  /\ pc' = [pc EXCEPT ![t] = "idle"]
  /\ UNCHANGED <<state, resume, via, facts, seen, world>> /\ NoFault

-----------------------------------------------------------------------------
(* The steps.  Each re-reads the server, calls the provider and leaves pc  *)
(* at "called" (results still to be recorded) or "recorded" (next: save    *)
(* the new state).                                                         *)

\* A step that fails before it had any effect, for any reason but identity.
StepFails(t) ==
  /\ pc[t] \in {"loop", "quota"} /\ state[t] \in StepStates /\ ~MustPause(t)
  /\ Fail(t) /\ Fault
  /\ seen' = [seen EXCEPT ![t] = {}]
  /\ UNCHANGED <<facts, world>>

\* assert_identity found another address than the state promises.
IdentityMismatch(t) ==
  /\ pc[t] = "loop" /\ state[t] \in AssertsIdentity
  /\ ip[t] # Expected(t, state[t])
  /\ Escalate(t)
  /\ UNCHANGED <<facts, seen, world>> /\ NoFault

Identified(t) == ip[t] = Expected(t, state[t])

\* provider_only records an empty manifest; otherwise an account set that
\* finds no A record on the old address is refused.
Preflight(t) ==
  /\ At(t, "confirmed")
  /\ \/ /\ t \in ProviderOnly \/ dns[t] = "old"
        /\ Goto(t, "recorded")
     \/ /\ t \notin ProviderOnly /\ dns[t] # "old"
        /\ Escalate(t)
  /\ UNCHANGED <<facts, seen, world>> /\ NoFault

\* find_ip adopts, otherwise allocate_ip creates under the project's limit.
Allocate(t) ==
  /\ At(t, "cloudflare_preflighted") /\ Identified(t)
  /\ \/ NewIp[t] \in pool /\ UNCHANGED pool
     \/ /\ NewIp[t] \notin pool /\ Cardinality(pool) < Limit
        /\ pool' = pool \cup {NewIp[t]}
  /\ Answered(t, "recorded")
  /\ UNCHANGED <<facts, seen, power, ip, autoDelete, dns>>

\* Quota: under retention "release", list what is attached to nothing.
AllocateQuota(t) ==
  /\ At(t, "cloudflare_preflighted") /\ Identified(t)
  /\ NewIp[t] \notin pool /\ Cardinality(pool) >= Limit
  /\ \/ /\ Retention = "release" /\ Unassigned # {}
        /\ seen' = [seen EXCEPT ![t] = Unassigned]
        /\ Goto(t, "quota")
     \/ /\ Retention = "keep" \/ Unassigned = {}
        /\ Fail(t) /\ UNCHANGED seen
  /\ UNCHANGED <<facts, world>> /\ NoFault

\* Mutant: the delete trusts the list read before, not a fresh read.
QuotaReleaseStale(t) ==
  /\ pc[t] = "quota"
  /\ \E a \in seen[t] :
       /\ pool' = pool \ {a}
       /\ seen' = [seen EXCEPT ![t] = @ \ {a}]
       /\ Answered(t, "quota")
  /\ UNCHANGED <<facts, power, ip, autoDelete, dns>>

\* _release_unassigned: one delete after another over the list read before;
\* the playbook's own fresh read refuses an address gone or attached since.
QuotaRelease(t) ==
  /\ pc[t] = "quota"
  /\ \E a \in seen[t] :
       \/ /\ a \in Unassigned
          /\ pool' = pool \ {a}
          /\ seen' = [seen EXCEPT ![t] = @ \ {a}]
          /\ Answered(t, "quota")
       \/ /\ a \notin Unassigned
          /\ seen' = [seen EXCEPT ![t] = {}]
          /\ Fail(t) /\ NoFault /\ UNCHANGED pool
  /\ UNCHANGED <<facts, power, ip, autoDelete, dns>>

\* The second attempt; a second quota error is an ordinary failure.
AllocateAgain(t) ==
  /\ pc[t] = "quota" /\ seen[t] = {}
  /\ \/ /\ Cardinality(pool) < Limit
        /\ pool' = pool \cup {NewIp[t]}
        /\ Answered(t, "recorded")
     \/ /\ Cardinality(pool) >= Limit
        /\ Fail(t) /\ NoFault /\ UNCHANGED pool
  /\ UNCHANGED <<facts, seen, power, ip, autoDelete, dns>>

\* _step_stop, first half: auto_delete off on the old address.
Protect(t) ==
  /\ At(t, "new_ip_allocated") /\ Identified(t) /\ ~protected[t]
  /\ autoDelete' = autoDelete \ {OldIp[t]}
  /\ Answered(t, "guarded")
  /\ UNCHANGED <<facts, seen, power, ip, pool, dns>>

RecordProtect(t) ==
  /\ pc[t] = "guarded"
  /\ protected' = [protected EXCEPT ![t] = TRUE]
  /\ Goto(t, "protected")
  /\ UNCHANGED <<ansible, applied, released, seen, world>> /\ NoFault

\* Mutant: the box is powered off without protect_ip having been recorded.
StopUnprotected(t) ==
  /\ At(t, "new_ip_allocated") /\ Identified(t)
  /\ \/ power' = [power EXCEPT ![t] = "off"] /\ Answered(t, "recorded")
     \/ UNCHANGED power /\ Fail(t) /\ Fault
  /\ UNCHANGED <<facts, seen, ip, pool, autoDelete, dns>>

\* _step_stop, second half: power off, "still running" is a failure.
Stop(t) ==
  /\ state[t] = "new_ip_allocated"
  /\ \/ pc[t] = "loop" /\ protected[t] /\ Identified(t)
     \/ pc[t] = "protected"
  /\ \/ power' = [power EXCEPT ![t] = "off"] /\ Answered(t, "recorded")
     \/ UNCHANGED power /\ Fail(t) /\ Fault
  /\ UNCHANGED <<facts, seen, ip, pool, autoDelete, dns>>

\* The detach forces the box off; the old address stays in the project.
Unassign(t) ==
  /\ At(t, "server_off") /\ Identified(t)
  /\ ip' = [ip EXCEPT ![t] = NoIp]
  /\ power' = [power EXCEPT ![t] = "off"]
  /\ Answered(t, "recorded")
  /\ UNCHANGED <<facts, seen, pool, autoDelete, dns>>

\* Attach by name; a name that is gone is not_found.
Assign(t) ==
  /\ At(t, "old_ip_unassigned") /\ Identified(t)
  /\ \/ /\ NewIp[t] \in pool
        /\ ip' = [ip EXCEPT ![t] = NewIp[t]]
        /\ power' = [power EXCEPT ![t] = "off"]
        /\ Answered(t, "recorded")
     \/ /\ NewIp[t] \notin pool
        /\ Fail(t) /\ NoFault
        /\ UNCHANGED <<ip, power>>
  /\ UNCHANGED <<facts, seen, pool, autoDelete, dns>>

\* An answer with a status other than "running" is a failure.
Start(t) ==
  /\ At(t, "new_ip_assigned") /\ Identified(t)
  /\ \/ power' = [power EXCEPT ![t] = "running"] /\ Answered(t, "recorded")
     \/ /\ power[t] # "running"
        /\ power' = [power EXCEPT ![t] = "starting"]
        /\ Fail(t) /\ Fault
  /\ UNCHANGED <<facts, seen, ip, pool, autoDelete, dns>>

Reachable(t) == ip[t] = NewIp[t] /\ power[t] = "running"

\* The TCP probe of the new address.
Health(t) ==
  /\ At(t, "server_on")
  /\ \/ Reachable(t) /\ Goto(t, "recorded")
     \/ ~Reachable(t) /\ Fail(t)
  /\ UNCHANGED <<facts, seen, world>> /\ NoFault

\* What the records may look like after a run over them that got anywhere.
Moved(d) == CASE d = "old"   -> {"old", "mixed", "new"}
              [] d = "mixed" -> {"mixed", "new"}
              [] OTHER       -> {d}

\* `make ip-change`: it may move any of the A records itself.  The rc is
\* recorded first; a non-zero rc then escalates.
Ansible(t) ==
  /\ At(t, "connectivity_ok") /\ ~MustPause(t)
  /\ \E d \in Moved(dns[t]) : dns' = [dns EXCEPT ![t] = d]
  /\ \/ /\ ansible' = [ansible EXCEPT ![t] = "ok"]
        /\ Goto(t, "recorded") /\ NoFault
     \/ /\ ansible' = [ansible EXCEPT ![t] = "failed"]
        /\ Escalate(t) /\ Fault
     \/ /\ UNCHANGED ansible
        /\ pc' = [pc EXCEPT ![t] = "idle"] /\ Fault
        /\ UNCHANGED <<state, resume, outcome, via>>
  /\ UNCHANGED <<protected, applied, released, seen, power, ip, pool, autoDelete>>

\* Mutant: nothing refuses the DNS step in provider_only.
ReplaceMarkAnyMode(t) ==
  /\ At(t, "ansible_done")
  /\ applied' = [applied EXCEPT ![t] = IF @ = "none" THEN "started" ELSE @]
  /\ Goto(t, "patching")
  /\ UNCHANGED <<protected, ansible, released, seen, world>> /\ NoFault

\* _step_cloudflare_replace, first the marker, then the PATCHes.
ReplaceMark(t) ==
  /\ At(t, "ansible_done") /\ t \notin ProviderOnly
  /\ applied' = [applied EXCEPT ![t] = IF @ = "none" THEN "started" ELSE @]
  /\ Goto(t, "patching")
  /\ UNCHANGED <<protected, ansible, released, seen, world>> /\ NoFault

\* provider_only refuses the DNS step whatever the checkpoint says.
ReplaceRefused(t) ==
  /\ At(t, "ansible_done") /\ t \in ProviderOnly
  /\ Escalate(t)
  /\ UNCHANGED <<facts, seen, world>> /\ NoFault

\* Mutant: a success needs no read-back.
ReplaceUnproved(t) ==
  /\ pc[t] = "patching"
  /\ \E d \in Moved(dns[t]) : dns' = [dns EXCEPT ![t] = d]
  /\ \/ Goto(t, "called") /\ NoFault /\ UNCHANGED applied
     \/ Escalate(t) /\ Fault /\ UNCHANGED applied
  /\ UNCHANGED <<protected, ansible, released, seen, power, ip, pool, autoDelete>>

\* Read-back proved every record, or the accounts finished only in part: a
\* result with rc # 0 is recorded and escalates, no result JSON escalates,
\* an unreadable result is retryable and restores.
Replace(t) ==
  /\ pc[t] = "patching"
  /\ \/ /\ dns' = [dns EXCEPT ![t] = "new"]
        /\ Goto(t, "called") /\ NoFault /\ UNCHANGED applied
     \/ /\ \E d \in Moved(dns[t]) : dns' = [dns EXCEPT ![t] = d]
        /\ \/ Escalate(t) /\ applied' = [applied EXCEPT ![t] = "partial"]
           \/ Escalate(t) /\ UNCHANGED applied
           \/ Fail(t) /\ UNCHANGED applied
        /\ Fault
  /\ UNCHANGED <<protected, ansible, released, seen, power, ip, pool, autoDelete>>

RecordReplace(t) ==
  /\ pc[t] = "called"
  /\ applied' = [applied EXCEPT ![t] = "ok"]
  /\ Goto(t, "recorded")
  /\ UNCHANGED <<protected, ansible, released, seen, world>> /\ NoFault

\* _step_verify: server on the new address, probe answers; the outcome is
\* saved before the state is.
Verify(t) ==
  /\ At(t, "cloudflare_replaced") /\ Identified(t)
  /\ \/ /\ Reachable(t)
        /\ outcome' = [outcome EXCEPT ![t] = "done"]
        /\ pc' = [pc EXCEPT ![t] = "recorded"]
        /\ UNCHANGED <<state, resume, via>>
     \/ ~Reachable(t) /\ Escalate(t)
  /\ UNCHANGED <<facts, seen, world>> /\ NoFault

\* execute(): the step returned, save the next state.
Transition(t) ==
  /\ pc[t] = "recorded" /\ state[t] \in StepStates
  /\ state' = [state EXCEPT ![t] = StepTo[state[t]]]
  /\ pc' = [pc EXCEPT ![t] = IF state'[t] = "done" THEN "finished" ELSE "loop"]
  /\ UNCHANGED <<resume, outcome, via, facts, seen, world>> /\ NoFault

\* `done` is saved a second time, with its outcome.
Finish(t) ==
  /\ pc[t] = "finished"
  /\ outcome' = [outcome EXCEPT ![t] = "done"]
  /\ pc' = [pc EXCEPT ![t] = "idle"]
  /\ UNCHANGED <<state, resume, via, facts, seen, world>> /\ NoFault

-----------------------------------------------------------------------------
(* restart_only: no address moved, power the box back on.                  *)

\* start_server; the status it answers is not looked at.
PowerOn(t) == \/ power' = [power EXCEPT ![t] = "running"] /\ NoFault
              \/ /\ power[t] # "running"
                 /\ power' = [power EXCEPT ![t] = "starting"] /\ Fault

Restart(t) ==
  /\ pc[t] = "restart"
  /\ \/ Goto(t, "restarted") /\ PowerOn(t)
     \/ Escalate(t) /\ Fault
        /\ \E p \in {power[t], "running"} : power' = [power EXCEPT ![t] = p]
  /\ UNCHANGED <<facts, seen, ip, pool, autoDelete, dns>>

\* record() saves the outcome, then _transition() the state.
RecordRestart(t) ==
  /\ pc[t] = "restarted"
  /\ outcome' = [outcome EXCEPT ![t] = "rolled_back"]
  /\ pc' = [pc EXCEPT ![t] = "r_clean"]
  /\ UNCHANGED <<state, resume, via, facts, seen, world>> /\ NoFault

-----------------------------------------------------------------------------
(* restore_old_ip: put the old address back, keep the new one.             *)

\* Called by a failed step, its failure escalates; called by a command, the
\* exception ends the process.
RestoreFails(t) == \/ via[t] = "step" /\ Escalate(t)
                   \/ via[t] # "step" /\ Goto(t, "idle")

RestoreAnswered(t, p) == \/ Goto(t, p) /\ NoFault
                         \/ RestoreFails(t) /\ Fault

\* Mutant: the provider is called before needs_rollback is saved.
RestoreBeginUnsaved(t) ==
  /\ pc[t] = "r_begin" /\ Goto(t, "r_read")
  /\ UNCHANGED <<facts, seen, world>> /\ NoFault

RestoreBegin(t) ==
  /\ pc[t] = "r_begin"
  /\ state' = [state EXCEPT ![t] = "needs_rollback"]
  /\ pc' = [pc EXCEPT ![t] = "r_read"]
  /\ UNCHANGED <<resume, outcome, via, facts, seen, world>> /\ NoFault

\* Mutant: a detached server is taken for one that has its address back.
RestoreReadDetached(t) ==
  /\ pc[t] = "r_read"
  /\ Goto(t, IF ip[t] = NewIp[t]
               THEN IF power[t] = "off" THEN "r_assign" ELSE "r_stop"
               ELSE IF power[t] = "running" THEN "r_tail" ELSE "r_start")
  /\ UNCHANGED <<facts, seen, world>> /\ NoFault

\* Mutant: the remedy has no branch for a server that is booting.
RestoreReadSettled(t) ==
  /\ pc[t] = "r_read" /\ power[t] # "starting"
  /\ Goto(t, IF ip[t] # OldIp[t]
               THEN IF power[t] = "off" THEN "r_assign" ELSE "r_stop"
               ELSE IF power[t] = "running" THEN "r_tail" ELSE "r_start")
  /\ UNCHANGED <<facts, seen, world>> /\ NoFault

\* The fresh read decides which calls are left to make.
RestoreRead(t) ==
  /\ pc[t] = "r_read"
  /\ Goto(t, IF ip[t] # OldIp[t]
               THEN IF power[t] = "off" THEN "r_assign" ELSE "r_stop"
               ELSE IF power[t] = "running" THEN "r_tail" ELSE "r_start")
  /\ UNCHANGED <<facts, seen, world>> /\ NoFault

RestoreCallFails(t) ==
  /\ pc[t] \in {"r_read", "r_stop", "r_assign", "r_start"}
  /\ RestoreFails(t) /\ Fault
  /\ UNCHANGED <<facts, seen, world>>

\* Mutant: the remedy begins again with its read until the box is off.
RestoreStopUntilOff(t) ==
  /\ pc[t] = "r_stop"
  /\ \/ power' = [power EXCEPT ![t] = "off"] /\ RestoreAnswered(t, "r_assign")
     \/ UNCHANGED power /\ Goto(t, "r_read") /\ Fault
  /\ UNCHANGED <<facts, seen, ip, pool, autoDelete, dns>>

\* An answer that the box is still running is not looked at either.
RestoreStop(t) ==
  /\ pc[t] = "r_stop"
  /\ \/ power' = [power EXCEPT ![t] = "off"] /\ RestoreAnswered(t, "r_assign")
     \/ UNCHANGED power /\ Goto(t, "r_assign") /\ Fault
  /\ UNCHANGED <<facts, seen, ip, pool, autoDelete, dns>>

\* Mutant: what is attached is not detached first, so the provider refuses.
RestoreAssignOnly(t) ==
  /\ pc[t] = "r_assign"
  /\ \/ /\ OldIp[t] \in pool /\ ip[t] = NoIp
        /\ power' = [power EXCEPT ![t] = "off"]
        /\ ip' = [ip EXCEPT ![t] = OldIp[t]]
        /\ RestoreAnswered(t, "r_start")
     \/ /\ OldIp[t] \notin pool \/ ip[t] # NoIp
        /\ RestoreFails(t) /\ NoFault
        /\ UNCHANGED <<ip, power>>
  /\ UNCHANGED <<facts, seen, pool, autoDelete, dns>>

\* Forces the box off, detaches what is attached, attaches by name.
RestoreAssign(t) ==
  /\ pc[t] = "r_assign"
  /\ \/ /\ OldIp[t] \in pool
        /\ power' = [power EXCEPT ![t] = "off"]
        /\ \/ /\ ip' = [ip EXCEPT ![t] = OldIp[t]]
              /\ RestoreAnswered(t, "r_start")
           \/ /\ ip' = [ip EXCEPT ![t] = NoIp]
              /\ RestoreFails(t) /\ Fault
     \/ /\ OldIp[t] \notin pool
        /\ RestoreFails(t) /\ NoFault
        /\ UNCHANGED <<ip, power>>
  /\ UNCHANGED <<facts, seen, pool, autoDelete, dns>>

RestoreStart(t) ==
  /\ pc[t] = "r_start"
  /\ \/ Goto(t, "r_tail") /\ PowerOn(t)
     \/ /\ power' = [power EXCEPT ![t] = "running"]
        /\ RestoreFails(t) /\ Fault
  /\ UNCHANGED <<facts, seen, ip, pool, autoDelete, dns>>

DnsWasDone(t) == ansible[t] = "ok" \/ applied[t] # "none"

\* _do_dns_rollback hands the adapter the addresses already exchanged and
\* the playbook exchanges them again: the records that move, move to the
\* new address.  CloudflareDns has the records one by one.
DnsRollback(t) == \E d \in Moved(dns[t]) : dns' = [dns EXCEPT ![t] = d]

\* --no-dns-rollback leaves the state at needs_rollback for the next stage.
RestoreTail(t) ==
  /\ pc[t] = "r_tail"
  /\ \/ /\ via[t] = "no_dns"
        /\ outcome' = [outcome EXCEPT ![t] = "rolled_back"]
        /\ pc' = [pc EXCEPT ![t] = "dns_half"]
        /\ UNCHANGED <<state, resume, via, dns>> /\ NoFault
     \/ /\ via[t] # "no_dns" /\ (t \in ProviderOnly \/ ~DnsWasDone(t))
        /\ Goto(t, "r_clean")
        /\ UNCHANGED dns /\ NoFault
     \/ /\ via[t] # "no_dns" /\ t \notin ProviderOnly /\ DnsWasDone(t)
        /\ DnsRollback(t)
        /\ \/ Goto(t, "r_clean") /\ NoFault
           \/ Goto(t, "r_incomplete") /\ Fault
  /\ UNCHANGED <<facts, seen, power, ip, pool, autoDelete>>

\* Mutant: the verdict on the DNS half is saved as the run's outcome.
RestoreEndVerdict(t) ==
  /\ pc[t] \in {"r_clean", "r_incomplete"}
  /\ LET end == IF pc[t] = "r_clean" THEN "rolled_back" ELSE "rollback_incomplete"
     IN /\ state' = [state EXCEPT ![t] = end]
        /\ outcome' = [outcome EXCEPT ![t] = pc[t]]
  /\ pc' = [pc EXCEPT ![t] = "idle"]
  /\ UNCHANGED <<resume, via, facts, seen, world>> /\ NoFault

RestoreEnd(t) ==
  /\ pc[t] \in {"r_clean", "r_incomplete"}
  /\ LET end == IF pc[t] = "r_clean" THEN "rolled_back" ELSE "rollback_incomplete"
     IN /\ state' = [state EXCEPT ![t] = end]
        /\ outcome' = [outcome EXCEPT ![t] = end]
  /\ pc' = [pc EXCEPT ![t] = "idle"]
  /\ UNCHANGED <<resume, via, facts, seen, world>> /\ NoFault

-----------------------------------------------------------------------------
(* The other commands.                                                     *)

\* `rollback`, whole or (from run.yml) without its DNS half.
Rollback(t, how) ==
  /\ pc[t] = "idle" /\ state[t] # "new"
  /\ via' = [via EXCEPT ![t] = how]
  /\ pc' = [pc EXCEPT ![t] = "r_begin"]
  /\ UNCHANGED <<state, resume, outcome, facts, seen, world>> /\ NoFault

\* run.yml's next stage: dns_rollback_only, when the checkpoint says so.
DnsRollbackOnly(t) ==
  /\ pc[t] = "dns_half"
  /\ \/ /\ ~DnsWasDone(t) \/ t \in ProviderOnly
        /\ Goto(t, "idle") /\ UNCHANGED dns /\ NoFault
     \/ /\ DnsWasDone(t) /\ t \notin ProviderOnly /\ applied[t] = "none"
        /\ Goto(t, "r_clean") /\ UNCHANGED dns /\ NoFault
     \/ /\ t \notin ProviderOnly /\ applied[t] # "none"
        /\ DnsRollback(t)
        /\ \/ Goto(t, "r_clean") /\ NoFault
           \/ /\ outcome' = [outcome EXCEPT ![t] = "rollback_incomplete"]
              /\ pc' = [pc EXCEPT ![t] = "idle"]
              /\ UNCHANGED <<state, resume, via>> /\ Fault
  /\ UNCHANGED <<facts, seen, power, ip, pool, autoDelete>>

Finished(t) == \/ state[t] = "done"
               \/ state[t] = "connectivity_ok" /\ t \in ProviderOnly

\* Mutant: the old address may go as soon as the new one is attached.
ReleaseOldIpEarly(t) ==
  /\ pc[t] = "idle" /\ Retention = "release" /\ ~released[t]
  /\ ip[t] = NewIp[t] /\ OldIp[t] \in Unassigned
  /\ pool' = pool \ {OldIp[t]}
  /\ \/ Goto(t, "releasing") /\ NoFault
     \/ UNCHANGED control /\ Fault
  /\ UNCHANGED <<facts, seen, power, ip, autoDelete, dns>>

\* release_old_ip: the one delete a transaction makes for itself.
ReleaseOldIp(t) ==
  /\ pc[t] = "idle" /\ Retention = "release" /\ ~released[t]
  /\ Finished(t) /\ ip[t] = NewIp[t] /\ OldIp[t] \in Unassigned
  /\ pool' = pool \ {OldIp[t]}
  /\ \/ Goto(t, "releasing") /\ NoFault
     \/ UNCHANGED control /\ Fault
  /\ UNCHANGED <<facts, seen, power, ip, autoDelete, dns>>

RecordRelease(t) ==
  /\ pc[t] = "releasing"
  /\ released' = [released EXCEPT ![t] = TRUE]
  /\ Goto(t, "idle")
  /\ UNCHANGED <<protected, ansible, applied, seen, world>> /\ NoFault

\* release_orphan_ip: no checkpoint is read; every unassigned address, or
\* the one that was named.
OrphanRelease ==
  /\ Sweep /\ Retention = "release"
  /\ \E a \in Unassigned : pool' = pool \ {a}
  /\ UNCHANGED <<control, facts, seen, power, ip, autoDelete, dns>> /\ NoFault

\* connectivity_ok -> ansible_done for a node outside the inventory.
DeclareAnsible(t) ==
  /\ pc[t] = "idle" /\ state[t] = "connectivity_ok" /\ ip[t] = NewIp[t]
  /\ ansible' = [ansible EXCEPT ![t] = "skipped"]
  /\ state' = [state EXCEPT ![t] = "ansible_done"]
  /\ UNCHANGED <<resume, outcome, pc, via, protected, applied, released, seen, world>>
  /\ NoFault

\* connectivity_ok -> done when no scan finds a record on the old address.
DeclareDns(t) ==
  /\ pc[t] = "idle" /\ state[t] = "connectivity_ok"
  /\ dns[t] \in {"new", "none"} /\ Reachable(t)
  /\ outcome' = [outcome EXCEPT ![t] = "done"]
  /\ state' = [state EXCEPT ![t] = "done"]
  /\ UNCHANGED <<resume, pc, via, facts, seen, world>> /\ NoFault

-----------------------------------------------------------------------------
(* What nobody commands.                                                   *)

BootFinishes(t) ==
  /\ power[t] = "starting"
  /\ power' = [power EXCEPT ![t] = "running"]
  /\ UNCHANGED <<control, facts, seen, ip, pool, autoDelete, dns>> /\ NoFault

BootFails(t) ==
  /\ power[t] = "starting"
  /\ power' = [power EXCEPT ![t] = "off"]
  /\ UNCHANGED <<control, facts, seen, ip, pool, autoDelete, dns>> /\ Fault

\* The process dies between two of its calls or saves.
Crash(t) ==
  /\ pc[t] # "idle"
  /\ Goto(t, "idle") /\ Fault
  /\ seen' = [seen EXCEPT ![t] = {}]
  /\ UNCHANGED <<facts, world>>

-----------------------------------------------------------------------------
(* The specification.                                                      *)

Olds == {OldIp[t] : t \in Tx}
News == {NewIp[t] : t \in Tx}

\* Servers on their old addresses; addresses left over from earlier
\* rotations lie about; records, if there are any, point at the old address.
Init ==
  /\ state = [t \in Tx |-> "new"]
  /\ resume = [t \in Tx |-> "none"]
  /\ outcome = [t \in Tx |-> "in_progress"]
  /\ protected = [t \in Tx |-> FALSE]
  /\ ansible = [t \in Tx |-> "none"]
  /\ applied = [t \in Tx |-> "none"]
  /\ released = [t \in Tx |-> FALSE]
  /\ pc = [t \in Tx |-> "idle"]
  /\ via = [t \in Tx |-> "step"]
  /\ seen = [t \in Tx |-> {}]
  /\ power \in [Tx -> FirstPower]
  /\ ip = OldIp
  /\ \E left \in SUBSET (Addr \ (Olds \cup News)) : pool = Olds \cup left
  /\ autoDelete \in SUBSET Olds
  /\ dns \in [Tx -> {"old", "none"}]
  /\ faults = 0

Command(t) ==
  \/ PlanRead(t) \/ Resume(t)
  \/ Rollback(t, "command") \/ Rollback(t, "no_dns")
  \/ ReleaseOldIp(t) \/ DeclareAnsible(t) \/ DeclareDns(t)

StepForward(t) ==
  \/ StepFails(t) \/ IdentityMismatch(t)
  \/ Preflight(t) \/ Allocate(t) \/ AllocateQuota(t) \/ QuotaRelease(t)
  \/ AllocateAgain(t) \/ Protect(t) \/ RecordProtect(t) \/ Stop(t)
  \/ Unassign(t) \/ Assign(t) \/ Start(t) \/ Health(t) \/ Ansible(t)
  \/ ReplaceMark(t) \/ ReplaceRefused(t) \/ Replace(t) \/ RecordReplace(t)
  \/ Verify(t) \/ Transition(t) \/ Finish(t)

Remedy(t) ==
  \/ Restart(t) \/ RecordRestart(t)
  \/ RestoreBegin(t) \/ RestoreRead(t) \/ RestoreCallFails(t) \/ RestoreStop(t)
  \/ RestoreAssign(t) \/ RestoreStart(t) \/ RestoreTail(t) \/ RestoreEnd(t)

\* What a running process does next.
Process(t) ==
  \/ PlanValidate(t) \/ PlanFinish(t) \/ Pause(t)
  \/ StepForward(t) \/ Remedy(t) \/ DnsRollbackOnly(t) \/ RecordRelease(t)

Environment(t) == BootFinishes(t) \/ BootFails(t) \/ Crash(t)

Next == \/ \E t \in Tx : Command(t) \/ Process(t) \/ Environment(t)
        \/ OrphanRelease

Spec == Init /\ [][Next]_vars

\* A started process runs until it ends.
LiveSpec == Spec /\ \A t \in Tx : WF_vars(Process(t))

\* Where the checkpoint stands, looked at through an escalation.
Where(t) == IF state[t] = "escalated" THEN resume[t] ELSE state[t]

\* The operator repeats `rollback` for as long as one is owed.
RetryRollback(t) == Where(t) = "needs_rollback" /\ Rollback(t, "command")

RetrySpec == LiveSpec /\ \A t \in Tx : SF_vars(RetryRollback(t))

-----------------------------------------------------------------------------
(* Properties.                                                             *)

ProcessCounters ==
  {"idle", "plan", "loop", "recorded", "finished", "quota", "guarded",
   "protected", "patching", "called", "restart", "restarted", "r_begin",
   "r_read", "r_stop", "r_assign", "r_start", "r_tail", "r_clean",
   "r_incomplete", "dns_half", "releasing"}

Outcomes == {"in_progress", "paused", "rolled_back", "rollback_incomplete",
             "escalated", "done"}

ControlOK ==
  /\ state \in [Tx -> States]
  /\ resume \in [Tx -> States \cup {"none"}]
  /\ outcome \in [Tx -> Outcomes]
  /\ pc \in [Tx -> ProcessCounters]
  /\ via \in [Tx -> {"step", "command", "no_dns"}]

FactsOK ==
  /\ protected \in [Tx -> BOOLEAN]
  /\ ansible \in [Tx -> {"none", "ok", "failed", "skipped"}]
  /\ applied \in [Tx -> {"none", "started", "partial", "ok"}]
  /\ released \in [Tx -> BOOLEAN]
  /\ seen \in [Tx -> SUBSET Addr]

WorldOK ==
  /\ power \in [Tx -> {"running", "starting", "off"}]
  /\ ip \in [Tx -> Addr \cup {NoIp}]
  /\ pool \in SUBSET Addr
  /\ autoDelete \in SUBSET Addr
  /\ dns \in [Tx -> {"old", "mixed", "new", "none"}]
  /\ faults \in Nat

\* Every variable has its type: the checkpoint fields hold values the code
\* writes, an address on a server is a Primary IP of the project or none.
TypeOK == ControlOK /\ FactsOK /\ WorldOK

BeforeDetach == PlanStates \cup
  {"new", "confirmed", "cloudflare_preflighted", "new_ip_allocated"}
AfterAttach == {"new_ip_assigned", "server_on", "connectivity_ok",
                "ansible_done", "cloudflare_replaced", "done"}

Located(t) ==
  /\ Where(t) \in BeforeDetach => ip[t] = OldIp[t]
  /\ Where(t) = "server_off" => ip[t] \in {OldIp[t], NoIp}
  /\ Where(t) = "old_ip_unassigned" => ip[t] \in {NoIp, NewIp[t]}
  /\ Where(t) \in AfterAttach => ip[t] = NewIp[t]
  /\ Where(t) \in {"rolled_back", "rollback_incomplete"} => ip[t] = OldIp[t]

\* The checkpoint tells which address the server can have, in spite of
\* crashes and lost answers: a checkpoint is never ahead of the provider and
\* at most one call behind it, and a rolled-back one is on the old address.
\* (execute, restore_old_ip, escalate: the state is saved after the call.)
CheckpointLocatesAddress ==
  \A t \in Tx : Located(t)

\* Rule One (_step_stop): the old address has lost its auto_delete before
\* the server can lose the address, whichever path detaches it.
ProtectedBeforeDetach ==
  \A t \in Tx : ip[t] # OldIp[t] => protected[t] /\ OldIp[t] \notin autoDelete

\* No delete of release_old_ip, _release_unassigned or release_orphan_ip,
\* however stale the list it works from, removes an address a server is on.
AttachedExists == \A t \in Tx : ip[t] \in pool \cup {NoIp}

\* `done` is true of the world: the server runs on the new address and every
\* A record follows it (_step_verify, declare_dns_out_of_scope).
DoneIsServing ==
  \A t \in Tx : state[t] = "done" =>
    /\ ip[t] = NewIp[t] /\ power[t] = "running"
    /\ dns[t] \in {"new", "none"}

\* The old address leaves the project only when its transaction is finished
\* (release_old_ip: "would delete the only way back").
NoWayBackLost ==
  [][\A t \in Tx : OldIp[t] \in pool /\ OldIp[t] \notin pool' => Finished(t)]_vars

\* A detached server can always be put back: while a transaction is mid-swap
\* its old address exists, so restore_old_ip has something to attach.
WayBackExists ==
  \A t \in Tx : Where(t) \in {"server_off", "old_ip_unassigned",
                              "new_ip_assigned", "server_on"} => OldIp[t] \in pool

\* The new address of a rotation is attached to nothing until _step_assign,
\* and another rotation's quota release, or an operator, may delete it before
\* that.  The attach then fails, and its remedy gives the server its old
\* address again: while no call fails and no process dies, a process leaves a
\* server without an address only when the old one has been deleted too.
NoneStranded ==
  faults = 0 =>
    \A t \in Tx : pc[t] = "idle" /\ ip[t] = NoIp => OldIp[t] \notin pool

\* cloudflare.mode=provider_only keeps every path off the DNS: steps, both
\* remedies' DNS halves and the declared short cuts.
ProviderOnlyLeavesDns ==
  [][\A t \in ProviderOnly : dns'[t] = dns[t]]_vars

\* A process that was started ends: no state of the machine is without a
\* step, a remedy or an exit (execute, _handle_failure).
EveryRunEnds == \A t \in Tx : pc[t] # "idle" ~> pc[t] = "idle"

\* How many steps of execute() are left, from the state they begin in.
StepsLeft(s) == CASE s = "confirmed"              -> 10
                  [] s = "cloudflare_preflighted" -> 9
                  [] s = "new_ip_allocated"       -> 8
                  [] s = "server_off"             -> 7
                  [] s = "old_ip_unassigned"      -> 6
                  [] s = "new_ip_assigned"        -> 5
                  [] s = "server_on"              -> 4
                  [] s = "connectivity_ok"        -> 3
                  [] s = "ansible_done"           -> 2
                  [] OTHER                        -> 1

\* What is left of a step, by the counter it has reached ...
Within(p) == CASE p = "loop"      -> 7
               [] p = "quota"     -> 6
               [] p = "guarded"   -> 5
               [] p = "protected" -> 4
               [] p = "patching"  -> 3
               [] p = "called"    -> 2
               [] p = "recorded"  -> 1
               [] OTHER           -> 0

\* ... and of a remedy, or of what else ends a process.
Outside(p) == CASE p = "r_begin"  -> 8
                [] p = "r_read"   -> 7
                [] p = "r_stop"   -> 6
                [] p = "r_assign" -> 5
                [] p = "r_start"  -> 4
                [] p \in {"r_tail", "restart"}     -> 3
                [] p \in {"dns_half", "restarted"} -> 2
                [] p = "idle"     -> 0
                [] OTHER          -> 1

\* How far a process is from its end.
Distance(t) ==
  CASE pc[t] = "plan" -> IF state[t] = "created" THEN 112 ELSE 111
    [] Within(pc[t]) > 0 -> 10 * StepsLeft(state[t]) + Within(pc[t])
    [] OTHER -> Outside(pc[t])

\* The quota loop stays where it is and crosses off an address of its list.
Nearer(t) == \/ Distance(t)' < Distance(t)
             \/ /\ Distance(t)' = Distance(t) /\ pc[t] = "quota"
                /\ seen'[t] \subseteq seen[t] /\ seen'[t] # seen[t]

SameRun(t) == UNCHANGED <<pc[t], state[t], seen[t]>>

\* Why a run ends: no call, failure or remedy of it ever leads back to where
\* it has been before, not even when it fails, and nobody else sets it back:
\* it goes through each step, the quota list and one remedy at most once.
RunsGetShorter ==
  [][ \A t \in Tx :
        /\ Process(t) => Nearer(t)
        /\ pc[t] # "idle" => Nearer(t) \/ SameRun(t) ]_vars

\* restore_old_ip is re-entrant: repeated while a rollback is owed, it gets
\* there, from wherever failures and crashes left the earlier attempts, as
\* long as the old address has not been released.
RollbackConverges ==
  \A t \in Tx : Where(t) = "needs_rollback" ~>
    state[t] \in {"rolled_back", "rollback_incomplete"} \/ OldIp[t] \notin pool

Place(t) == CASE ip[t] = OldIp[t] -> "old"
              [] ip[t] = NewIp[t] -> "new"
              [] OTHER            -> "none"

Verdict(t) == CASE state[t] = "done" -> "swapped"
                [] state[t] \in {"rolled_back", "rollback_incomplete"} -> "restored"
                [] OTHER -> "open"

Swap == INSTANCE AddressSwap WITH where  <- [t \in Tx |-> Place(t)],
                                  status <- [t \in Tx |-> Verdict(t)]

\* The machine implements AddressSwap: no step moves an address in the
\* shadow of a verdict, and no verdict is given on another address.
ImplementsAddressSwap == Swap!Spec

\* What the checkpoint says of the cutover.
Claimed(t) == CASE applied[t] = "none" -> "none"
                [] applied[t] = "ok"   -> "ok"
                [] OTHER               -> "started"

Cutover == INSTANCE DnsCutover WITH records <- dns,
                                    claim   <- [t \in Tx |-> Claimed(t)],
                                    foreign <- [t \in Tx |-> FALSE]

\* As far as the DNS is concerned the machine is a DnsCutover that nobody
\* disturbs: what CloudflareDns does record by record is all it relies on.
ImplementsCutover == Cutover!Spec

-----------------------------------------------------------------------------
(* The inductive invariant behind the safety properties.                   *)

\* The program counter of a process fits the state it has saved.
PcFitsState(t) ==
  /\ pc[t] \in {"loop", "recorded"} => state[t] \in StepStates
  /\ pc[t] = "plan" => state[t] \in {"created", "validated"}
  /\ pc[t] = "finished" => state[t] = "done"
  /\ pc[t] = "quota" => state[t] = "cloudflare_preflighted"
  /\ pc[t] \in {"guarded", "protected"} => state[t] = "new_ip_allocated"
  /\ pc[t] \in {"patching", "called"} => state[t] = "ansible_done"
  /\ pc[t] \in {"restart", "restarted"} => state[t] \in RestartOnly
  /\ pc[t] \in {"r_read", "r_stop", "r_assign", "r_start", "r_tail",
                "r_incomplete", "dns_half"} => state[t] = "needs_rollback"
  /\ pc[t] = "r_clean" => state[t] \in RestartOnly \cup {"needs_rollback"}
  /\ state[t] = "escalated" => resume[t] \in StepStates \cup {"needs_rollback"}

\* The address, at the counters where it is more than the state tells.
PcFitsAddress(t) ==
  /\ pc[t] = "recorded" /\ state[t] = "server_off" => ip[t] = NoIp
  /\ pc[t] = "recorded" /\ state[t] = "old_ip_unassigned" => ip[t] = NewIp[t]
  /\ pc[t] \in {"r_start", "r_tail", "r_clean", "r_incomplete", "dns_half"}
       => ip[t] = OldIp[t]
  /\ pc[t] \in {"r_stop", "r_assign"} => ip[t] # OldIp[t]

\* From protect_ip on, protected is true and stays so.
ProtectionHolds(t) ==
  /\ pc[t] = "guarded" \/ protected[t] => OldIp[t] \notin autoDelete
  /\ pc[t] = "protected" => protected[t]
  /\ pc[t] = "recorded" /\ state[t] = "new_ip_allocated" => protected[t]
  /\ Where(t) \in {"server_off", "old_ip_unassigned"} \cup AfterAttach => protected[t]
  /\ ip[t] # OldIp[t] => protected[t]

\* What replace and verify have established on the way to `done`.
ServingFollows(t) ==
  /\ pc[t] = "called" => dns[t] = "new"
  /\ pc[t] = "recorded" /\ state[t] = "ansible_done" => dns[t] = "new"
  /\ Where(t) = "cloudflare_replaced" => dns[t] \in {"new", "none"}
  /\ pc[t] = "recorded" /\ state[t] = "cloudflare_replaced" => power[t] = "running"
  /\ state[t] = "done" => power[t] = "running" /\ dns[t] \in {"new", "none"}

\* The server has one of its own two addresses, and that one exists.
OwnAddress(t) == /\ ip[t] \in {OldIp[t], NewIp[t], NoIp}
                 /\ ip[t] \in pool \cup {NoIp}

TxInv(t) == /\ PcFitsState(t) /\ PcFitsAddress(t) /\ Located(t)
            /\ OwnAddress(t) /\ ProtectionHolds(t) /\ ServingFollows(t)

\* All of it together holds in every reachable state and is inductive.
IInv ==
  /\ TypeOK
  /\ \A t \in Tx : TxInv(t)

\* What is under way for a server without an address, as long as nothing
\* failed and its old address exists.
Attended(t) ==
  faults = 0 /\ ip[t] = NoIp /\ OldIp[t] \in pool =>
    \/ pc[t] = "recorded" /\ state[t] = "server_off"
    \/ pc[t] = "loop" /\ state[t] = "old_ip_unassigned"
    \/ pc[t] \in {"r_begin", "r_read", "r_stop", "r_assign"}

\* The manifest of a transaction past its preflight has records, an apply is
\* announced before it is dispatched, and one that is recorded has happened.
CutoverInv(t) ==
  /\ t \in ProviderOnly => applied[t] = "none"
  /\ pc[t] = "recorded" \/ Where(t) \in StepStates \ {"confirmed"} =>
       t \in ProviderOnly \/ dns[t] # "none"
  /\ applied[t] # "none" => dns[t] # "none"
  /\ pc[t] \in {"patching", "called"} => applied[t] # "none"
  /\ applied[t] = "ok" => dns[t] = "new"

-----------------------------------------------------------------------------
(* Sentences of the repository the code does not keep.                     *)

\* README, "If it stops": after `rolled_back` "the old address is back and
\* the box is up".
RolledBackMeansUp ==
  \A t \in Tx : state[t] = "rolled_back" => power[t] # "off"

\* _plan_hcloud: a run that would move a record off the allow-list "stops
\* HERE, at `validated`, before anything is powered off".
AllowListGate == \A t \in Unlisted : ip[t] = OldIp[t]

\* README: "`resume` re-asserts identity first and continues from the
\* recorded state. It is safe to run repeatedly"; rotate.py: the checkpoint
\* "makes every step re-runnable".  No step, run again after a crash or a
\* lost answer, takes its own earlier effect for a foreign server.
ResumeMatches == [][\A t \in Tx : ~IdentityMismatch(t)]_vars

=============================================================================
