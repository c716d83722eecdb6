------------------------- MODULE DataForestRotation -------------------------
(***************************************************************************)
(* The DataForest half of rotate.py.  A Seed holds several addresses, so   *)
(* nothing is powered off: NEW is added beside OLD, the guest, the         *)
(* inventory and the DNS are moved over, and the run stops at              *)
(* awaiting_finalize.  Releasing OLD is a second, explicit transaction     *)
(* half (finalize-precheck, provider-finalize); giving NEW back is either  *)
(* the whole `rollback` or four staged commands.                           *)
(*                                                                         *)
(* Every command is a process of its own with the tokens its stage may     *)
(* carry.  One process works on the checkpoint at a time (nothing in the   *)
(* code locks it; the workflow's concurrency group is what is relied on).  *)
(* It can die between any two calls, and a call can take effect although   *)
(* its answer is lost.  The provider works on an accepted add-ipv4 or      *)
(* remove-ipv4 by itself, whether or not the process that asked still      *)
(* lives, and may fail it.                                                 *)
(*                                                                         *)
(* The fields `outcome` and `history` of the checkpoint repeat what the    *)
(* state says and are left out, as is cloudflare.mode = provider_only,     *)
(* which only ends a run early at guest_verified.                          *)
(***************************************************************************)
EXTENDS Naturals, FiniteSets

CONSTANTS
  Old,        \* the address the Seed starts with
  Fresh,      \* the addresses the provider may hand out
  NoAddr,     \* new_ip.ip = None
  MaxIpv4,    \* team.resource_limits.max_ipv4_per_seed
  Queues,     \* whether a remove-ipv4 is accepted while an action is active
  Managers,   \* network managers the control node may have
  Pauses,     \* the values of --until that are tried
  MaxFaults   \* bound on failed calls, lost answers, crashes, foreign edits

ASSUME AddressAssumption ==
  /\ Old \notin Fresh /\ NoAddr \notin Fresh \cup {Old}
  /\ "add" \notin Fresh \cup {Old}
  /\ IsFiniteSet(Fresh)

ASSUME ConfigAssumption ==
  /\ MaxIpv4 \in Nat /\ MaxFaults \in Nat
  /\ Queues \in BOOLEAN
  /\ Managers \subseteq {"netplan", "other"}

VARIABLES
  \* the checkpoint
  state,     \* the state, or resume_state when the state is "escalated"
  halted,    \* whether the state is "escalated"
  new,       \* new_ip.ip
  started,   \* provider_{allocation,finalize,rollback}_started
  vouched,   \* dataforest_identity_ok speaks of new_ip and is still usable
  verified,  \* guest.verified_at
  cutover,   \* cloudflare_manifest, ansible.rc = 0, apply started, apply ok
  marker,    \* dns_finalize_verified: none, fresh or stale
  intent,    \* finalize_intent
  undone,    \* rollback.{dns,inventory,guest,provider}_step_at
  \* the running process: where it is, who called the remedy, its --until
  \* and the tokens in its environment
  pc, via, until, tokens,
  \* the interface the guest playbook acts on: bound and persisted addresses
  manager, bound, kept,
  \* the Seed's addresses and the actions the provider has accepted
  seed, active,
  \* the A records, and whether a third party edited them after the precheck
  dns, late,
  faults

control == <<state, halted, pc, via, until, tokens>>
record  == <<new, started, vouched, verified, cutover, marker, intent, undone>>
guest   == <<manager, bound, kept>>
cloud   == <<seed, active>>
names   == <<dns, late>>
vars    == <<control, record, guest, cloud, names, faults>>

-----------------------------------------------------------------------------
(* The step tables.                                                        *)

ApplyStates == {"confirmed", "dataforest_preflighted", "new_ip_allocated",
                "guest_configured", "guest_verified", "cloudflare_preflighted",
                "ansible_done", "cloudflare_replaced"}

FinalizeStates == {"awaiting_finalize", "dns_finalize_verified",
                   "finalizing_started", "guest_pre_finalized",
                   "old_ip_removed", "guest_finalized"}

StageStates == {"needs_rollback", "dns_rollback_done",
                "inventory_rollback_done", "guest_rollback_done"}

PlanStates == {"created", "validated", "planned"}

States == ApplyStates \cup FinalizeStates \cup StageStates \cup PlanStates
          \cup {"new", "done", "rolled_back", "rollback_incomplete"}

StepTo == [ s \in ApplyStates \cup FinalizeStates |->
  CASE s = "confirmed"              -> "dataforest_preflighted"
    [] s = "dataforest_preflighted" -> "new_ip_allocated"
    [] s = "new_ip_allocated"       -> "guest_configured"
    [] s = "guest_configured"       -> "guest_verified"
    [] s = "guest_verified"         -> "cloudflare_preflighted"
    [] s = "cloudflare_preflighted" -> "ansible_done"
    [] s = "ansible_done"           -> "cloudflare_replaced"
    [] s = "cloudflare_replaced"    -> "awaiting_finalize"
    [] s = "awaiting_finalize"      -> "dns_finalize_verified"
    [] s = "dns_finalize_verified"  -> "finalizing_started"
    [] s = "finalizing_started"     -> "guest_pre_finalized"
    [] s = "guest_pre_finalized"    -> "old_ip_removed"
    [] s = "old_ip_removed"         -> "guest_finalized"
    [] s = "guest_finalized"        -> "done" ]

\* Steps whose on_failure is "restore"; the others escalate.
Restore == {"new_ip_allocated", "guest_configured", "cloudflare_preflighted",
            "ansible_done", "old_ip_removed"}

GuestPauses == {"guest_configured", "guest_verified"}
DnsPauses   == {"cloudflare_preflighted", "ansible_done", "cloudflare_replaced"}
Pausable    == GuestPauses \cup DnsPauses \cup
               {"new_ip_allocated", "awaiting_finalize"}

ASSUME PausesAssumption == Pauses \subseteq Pausable

\* The environments _dispatch lets through to `resume --until u`.
ResumeTokens(u) ==
  CASE u \in DnsPauses \cup {"awaiting_finalize"} -> {{"cf"}, {"df", "cf"}}
    [] u \in GuestPauses                          -> {{}, {"df"}}
    [] OTHER                                      -> {{"df"}}

ApplyTokens(u) == IF u \in DnsPauses THEN {"df", "cf"} ELSE {"df"}

\* The steps that cannot do without a token.
NeedsDf == {"confirmed", "dataforest_preflighted", "guest_pre_finalized",
            "guest_finalized"}
NeedsCf == {"guest_verified", "awaiting_finalize"}

-----------------------------------------------------------------------------
(* Helpers.                                                                *)

Fault   == faults < MaxFaults /\ faults' = faults + 1
NoFault == UNCHANGED faults

\* No process runs; the checkpoint is there; its state is one of S.
Idle     == pc = "idle" /\ state # "new"
Saved(S) == Idle /\ ~halted /\ state \in S
At(s) == pc = "loop" /\ state = s /\ until # s

\* awaiting_finalize has a step in the finalize table only.
Runs(s) == At(s) /\ (s = "awaiting_finalize" => intent)

Goto(p) == pc' = p /\ UNCHANGED <<state, halted, via, until, tokens>>

\* The process ends; `until` and the tokens were its own.
Ends == pc' = "idle" /\ via' = "step" /\ until' = "none" /\ tokens' = {}

Exit     == Ends /\ UNCHANGED <<state, halted>>
Leave(s) == Ends /\ state' = s /\ UNCHANGED halted
Escalate == Ends /\ halted' = TRUE /\ UNCHANGED state

\* _handle_failure(): the policy of the step that failed.
Fail == \/ /\ state \in Restore
           /\ pc' = "w_begin" /\ via' = "step"
           /\ UNCHANGED <<state, halted, until, tokens>>
        \/ state \notin Restore /\ Escalate

\* run_guest_op: the playbook had its effect and its result file was read,
\* or a missing or malformed one ends the step.
Answered(p) == \/ Goto(p) /\ NoFault
               \/ Escalate /\ Fault

\* _assert_dataforest_identity: the configured Seed, with no active action.
Settled == active = {}

Both == {Old, new} \subseteq seed

\* Some of the records are on OLD.
OnOld == dns \in {"old", "mixed"}

-----------------------------------------------------------------------------
(* The guest playbook, operation by operation, on one interface.           *)

\* configure_guest: `ip addr add`, then the persistent file.  Adding what is
\* bound already fails, and a failed playbook leaves no result file.
GuestConfigured(a) ==
  \/ /\ a \in bound
     /\ Escalate /\ NoFault /\ UNCHANGED <<bound, kept>>
  \/ /\ a \notin bound /\ bound' = bound \cup {a}
     /\ \/ kept' = kept \cup {a} /\ Answered("recorded")
        \/ UNCHANGED kept /\ Escalate /\ Fault

\* verify_guest: both addresses are on the interface.
GuestServes == {Old, new} \subseteq bound

\* remove_guest_address: `ip addr del`; deleting what is not bound fails, and
\* so does the playbook when NEW is not there afterwards.
GuestDropped(a) ==
  /\ bound' = bound \ {a}
  /\ \/ {a, new} \subseteq bound /\ Answered("recorded")
     \/ ~({a, new} \subseteq bound) /\ Escalate /\ NoFault

\* restore_guest: `ip addr del a`, no file to restore, and `netplan apply`,
\* which brings back every persisted address.  Without the netplan binary
\* the playbook fails there and leaves no result file.
GuestRestored(a) ==
  \/ manager = "netplan" /\ bound' = (bound \ {a}) \cup kept /\ NoFault
  \/ manager = "netplan" /\ bound' = bound \ {a} /\ Fault
  \/ manager = "other"   /\ bound' = bound \ {a} /\ NoFault

-----------------------------------------------------------------------------
(* plan, apply, resume, finalize.                                          *)

\* _plan_dataforest: OLD is on the Seed and no action is under way.
PlanRead ==
  /\ pc = "idle" /\ state = "new"
  /\ Old \in seed /\ active = {}
  /\ state' = "created" /\ pc' = "plan" /\ tokens' = {"df"}
  /\ UNCHANGED <<halted, via, until, record, guest, cloud, names>> /\ NoFault

PlanValidate ==
  /\ pc = "plan" /\ state = "created"
  /\ state' = "validated"
  /\ UNCHANGED <<halted, pc, via, until, tokens, record, guest, cloud, names>>
  /\ NoFault

\* `plan` ends here; `apply` confirms and goes on with its own environment.
PlanFinish ==
  /\ pc = "plan" /\ state = "validated"
  /\ \/ Leave("planned")
     \/ /\ state' = "confirmed" /\ pc' = "loop"
        /\ until' \in (Pauses \ {"awaiting_finalize"}) \cup {"none"}
        /\ tokens' = ApplyTokens(until')
        /\ UNCHANGED <<halted, via>>
  /\ UNCHANGED <<record, guest, cloud, names>> /\ NoFault

\* Mutant: resume goes on from wherever the checkpoint stands.
ResumeAnywhere ==
  /\ \/ /\ Saved(PlanStates)
        /\ state' = "confirmed"
     \/ /\ Idle /\ state \in ApplyStates \cup FinalizeStates
        /\ UNCHANGED state
  /\ pc' = "loop" /\ halted' = FALSE
  /\ until' \in Pauses \cup {"none"}
  /\ tokens' \in ResumeTokens(until')
  /\ UNCHANGED <<via, record, guest, cloud, names>> /\ NoFault

\* `resume`: finalize_intent refuses every state but awaiting_finalize.
Resume ==
  /\ \/ /\ Saved(PlanStates)
        /\ state' = "confirmed"
     \/ /\ Idle /\ ~intent /\ state \in ApplyStates
        /\ UNCHANGED state
     \/ /\ Saved({"awaiting_finalize"}) /\ intent
        /\ UNCHANGED state
  /\ pc' = "loop" /\ halted' = FALSE
  /\ until' \in Pauses \cup {"none"}
  /\ tokens' \in ResumeTokens(until')
  /\ UNCHANGED <<via, record, guest, cloud, names>> /\ NoFault

\* `resume` at needs_rollback calls the Hetzner remedy, which wipes the
\* rollback record and then dies on a Seed that has no `status`.
ResumeWrongRemedy ==
  /\ Saved({"needs_rollback"})
  /\ undone' = {}
  /\ UNCHANGED <<control, new, started, vouched, verified, cutover, marker,
                 intent, guest, cloud, names>>
  /\ NoFault

\* The single-shot `finalize` needs the marker and brings its own tokens.
Finalize ==
  /\ Saved({"awaiting_finalize"}) /\ marker # "none"
  /\ intent' = TRUE
  /\ pc' = "loop" /\ tokens' \in {{"df"}, {"df", "cf"}}
  /\ UNCHANGED <<state, halted, via, until, new, started, vouched, verified,
                 cutover, marker, undone, guest, cloud, names>>
  /\ NoFault

\* --until names the state, or the apply half has reached its end.
Pause ==
  /\ pc = "loop"
  /\ \/ state = until
     \/ state = "awaiting_finalize" /\ ~intent
  /\ Exit
  /\ UNCHANGED <<record, guest, cloud, names>> /\ NoFault

\* execute(): the step returned, save the next state.
Transition ==
  /\ pc = "recorded" /\ via # "precheck"
  /\ IF StepTo[state] = "done" THEN Leave("done")
     ELSE /\ state' = StepTo[state] /\ pc' = "loop"
          /\ UNCHANGED <<halted, via, until, tokens>>
  /\ UNCHANGED <<record, guest, cloud, names>> /\ NoFault

\* A step fails before it had any effect: by the step's own policy, or with
\* an EscalationRequired of an adapter.
StepFails ==
  /\ \/ \E s \in DOMAIN StepTo : Runs(s)
     \/ pc \in {"add", "patching", "checking", "drop_old"}
  /\ Fail \/ Escalate
  /\ Fault
  /\ UNCHANGED <<record, guest, cloud, names>>

TokenMissing ==
  /\ \E s \in NeedsDf \cup NeedsCf :
       /\ Runs(s)
       /\ \/ s \in NeedsDf /\ "df" \notin tokens
          \/ s \in NeedsCf /\ "cf" \notin tokens
  /\ Escalate
  /\ UNCHANGED <<record, guest, cloud, names>> /\ NoFault

-----------------------------------------------------------------------------
(* The apply half: preflight, allocate, guest, DNS.                        *)

\* _step_dataforest_preflight: OLD alone, room for one more, nothing active.
Preflight ==
  /\ At("confirmed") /\ "df" \in tokens
  /\ \/ /\ seed = {Old} /\ active = {} /\ Cardinality(seed) < MaxIpv4
        /\ Goto("recorded")
     \/ /\ seed # {Old} \/ active # {} \/ Cardinality(seed) >= MaxIpv4
        /\ Escalate
  /\ UNCHANGED <<record, guest, cloud, names>> /\ NoFault

\* Mutant: a resumed allocation does not look for what is there already.
AllocateBlindly ==
  /\ At("dataforest_preflighted") /\ "df" \in tokens
  /\ started' = started \cup {"allocate"}
  /\ Goto("add") /\ UNCHANGED new
  /\ UNCHANGED <<vouched, verified, cutover, marker, intent, undone,
                 guest, cloud, names>>
  /\ NoFault

\* _step_dataforest_allocate reads first: it keeps a recorded address,
\* adopts the one address beyond OLD, or announces the POST on disk.  Its
\* branch that polls an active add-ipv4 is behind the identity check, which
\* refuses a Seed with an active action.
Allocate ==
  /\ At("dataforest_preflighted") /\ "df" \in tokens
  /\ \/ /\ Settled /\ new # NoAddr /\ seed = {Old, new}
        /\ Goto("recorded") /\ UNCHANGED <<new, started>>
     \/ /\ Settled /\ new = NoAddr
        /\ \E a \in Fresh : seed = {Old, a} /\ new' = a
        /\ Goto("recorded") /\ UNCHANGED started
     \/ /\ Settled /\ new = NoAddr /\ seed = {Old}
        /\ started' = started \cup {"allocate"}
        /\ Goto("add") /\ UNCHANGED new
     \/ /\ \/ ~Settled
           \/ new # NoAddr /\ seed # {Old, new}
           \/ new = NoAddr /\ seed # {Old} /\ \A a \in Fresh : seed # {Old, a}
        /\ Escalate /\ UNCHANGED <<new, started>>
  /\ UNCHANGED <<vouched, verified, cutover, marker, intent, undone,
                 guest, cloud, names>>
  /\ NoFault

\* _post_add_ipv4: a lost answer is a RetryableError and the POST is sent
\* again; the provider refuses it over an active action or at the limit.
AddPost ==
  /\ pc = "add"
  /\ \/ /\ active = {} /\ Cardinality(seed) < MaxIpv4
        /\ active' = {"add"}
        /\ \/ Goto("adding") /\ NoFault
           \/ Goto("add") /\ Fault
           \/ Escalate /\ Fault
     \/ /\ active # {} \/ Cardinality(seed) >= MaxIpv4
        /\ Escalate /\ UNCHANGED active /\ NoFault
  /\ UNCHANGED <<record, guest, seed, names>>

\* Mutant: whichever address comes first in the list is taken.
AddedAny ==
  /\ pc = "adding" /\ "add" \notin active
  /\ new' \in seed /\ Goto("recorded")
  /\ UNCHANGED <<started, vouched, verified, cutover, marker, intent, undone,
                 guest, cloud, names>>
  /\ NoFault

\* The action is over: exactly one address must have come.
Added ==
  /\ pc = "adding" /\ "add" \notin active
  /\ \/ /\ \E a \in Fresh : seed = {Old, a} /\ new' = a
        /\ Goto("recorded")
     \/ /\ \A a \in Fresh : seed # {Old, a}
        /\ Escalate /\ UNCHANGED new
  /\ UNCHANGED <<started, vouched, verified, cutover, marker, intent, undone,
                 guest, cloud, names>>
  /\ NoFault

\* _assert_dataforest_identity_staged: a fresh read with the provider token,
\* otherwise a marker of at most 30 minutes for this very address.
Vouched == IF "df" \in tokens THEN Settled ELSE vouched

\* _step_dataforest_configure_guest.
ConfigureGuest ==
  /\ At("new_ip_allocated")
  /\ \/ Vouched /\ GuestConfigured(new)
     \/ ~Vouched /\ Escalate /\ NoFault /\ UNCHANGED <<bound, kept>>
  /\ UNCHANGED <<record, manager, cloud, names>>

\* TCP probe and host key of NEW, then the playbook's look at the interface,
\* which must still carry OLD.  Nothing before this step can leave it
\* without either, so what it refuses is a failure of StepFails.
VerifyGuest ==
  /\ At("guest_configured")
  /\ GuestServes /\ new \in seed
  /\ verified' = TRUE /\ Goto("recorded")
  /\ UNCHANGED <<new, started, vouched, cutover, marker, intent, undone,
                 guest, cloud, names>>
  /\ NoFault

\* _step_cloudflare_preflight: no A record on OLD is a refusal.
DnsPreflight ==
  /\ At("guest_verified") /\ "cf" \in tokens
  /\ \/ /\ dns = "old" /\ cutover' = cutover \cup {"manifest"}
        /\ Goto("recorded")
     \/ /\ dns # "old" /\ Escalate /\ UNCHANGED cutover
  /\ UNCHANGED <<new, started, vouched, verified, marker, intent, undone,
                 guest, cloud, names>>
  /\ NoFault

\* What the records may look like after a run over them that got anywhere.
Moved(d) == CASE d = "old"   -> {"old", "mixed", "new"}
              [] d = "mixed" -> {"mixed", "new"}
              [] OTHER       -> {d}

\* `make ip-change`: rc 0 is recorded, another rc escalates, and a hung
\* playbook takes the process with it.
Ansible ==
  /\ At("cloudflare_preflighted")
  /\ dns' \in Moved(dns)
  /\ \/ cutover' = cutover \cup {"ansible"} /\ Goto("recorded") /\ NoFault
     \/ cutover' = cutover \ {"ansible"} /\ Escalate /\ Fault
     \/ UNCHANGED cutover /\ Exit /\ Fault
  /\ UNCHANGED <<new, started, vouched, verified, marker, intent, undone,
                 guest, cloud, late>>

\* _step_cloudflare_replace: the marker first.
ReplaceMark ==
  /\ At("ansible_done")
  /\ cutover' = cutover \cup {"apply"}
  /\ Goto("patching")
  /\ UNCHANGED <<new, started, vouched, verified, marker, intent, undone,
                 guest, cloud, names>>
  /\ NoFault

\* Then the PATCHes: all read back on NEW, or a part of them; a partial
\* result escalates, an unreadable one restores.
Replace ==
  /\ pc = "patching"
  /\ \/ /\ "cf" \in tokens
        /\ dns' = "new" /\ cutover' = cutover \cup {"ok"}
        /\ Goto("recorded") /\ NoFault
     \/ /\ "cf" \in tokens
        /\ dns' \in Moved(dns) /\ UNCHANGED cutover
        /\ Escalate \/ Fail
        /\ Fault
     \/ /\ "cf" \notin tokens
        /\ Escalate /\ UNCHANGED <<dns, cutover>> /\ NoFault
  /\ UNCHANGED <<new, started, vouched, verified, marker, intent, undone,
                 guest, cloud, late>>

\* _step_dataforest_awaiting_finalize saves a summary.
AwaitFinalize ==
  /\ At("cloudflare_replaced") /\ Goto("recorded")
  /\ UNCHANGED <<record, guest, cloud, names>> /\ NoFault

-----------------------------------------------------------------------------
(* remove-ipv4, as the finalize half and both rollbacks ask for it.        *)

\* Mutant: a refusal is taken for an answer worth a retry.
PostRemoveRetries(a, polling, Refused) ==
  \/ /\ a \in seed /\ Cardinality(seed) > 1 /\ (active = {} \/ Queues)
     /\ active' = active \cup {a}
     /\ \/ Goto(polling) /\ NoFault
        \/ UNCHANGED control /\ Fault
        \/ Refused /\ Fault
  \/ /\ a \notin seed \/ Cardinality(seed) <= 1 \/ active # {}
     /\ UNCHANGED <<control, active>> /\ NoFault

\* The provider accepts an address that is on the Seed and not its last;
\* a lost answer sends the POST again, a refusal is the caller's business.
PostRemove(a, polling, Refused) ==
  \/ /\ a \in seed /\ Cardinality(seed) > 1 /\ (active = {} \/ Queues)
     /\ active' = active \cup {a}
     /\ \/ Goto(polling) /\ NoFault
        \/ UNCHANGED control /\ Fault
        \/ Refused /\ Fault
  \/ /\ a \notin seed \/ Cardinality(seed) <= 1 \/ active # {}
     /\ Refused /\ UNCHANGED active /\ NoFault

-----------------------------------------------------------------------------
(* The finalize half: OLD leaves.                                          *)

\* Mutant: the read-back is skipped.
PrecheckBlind == marker' = "fresh" /\ intent' = TRUE /\ late' = FALSE

\* _step_dataforest_dns_finalize_precheck: discover returns records on OLD
\* only, and any it returns is a refusal, so the check passes exactly when
\* its token sees none there.  (With a configured list of allowed records
\* discover itself refuses the moved ones; the model has no such list.)  The
\* marker is saved with the intent, before the state is.
PrecheckPasses ==
  /\ ~OnOld
  /\ marker' = "fresh" /\ intent' = TRUE /\ late' = FALSE

\* `finalize-precheck`; a refusal or an error saves nothing.
FinalizePrecheck ==
  /\ Saved({"awaiting_finalize"})
  /\ PrecheckPasses
  /\ pc' = "recorded" /\ via' = "precheck" /\ tokens' = {"cf"}
  /\ UNCHANGED <<state, halted, until, new, started, vouched, verified,
                 cutover, undone, guest, cloud, dns>>
  /\ NoFault

\* The stage saves dns_finalize_verified and ends there.
PrecheckSaved ==
  /\ pc = "recorded" /\ via = "precheck"
  /\ Leave("dns_finalize_verified")
  /\ UNCHANGED <<record, guest, cloud, names>> /\ NoFault

\* The same step inside execute(): an interrupted stage, resumed.
PrecheckStep ==
  /\ Runs("awaiting_finalize") /\ "cf" \in tokens
  /\ \/ PrecheckPasses /\ Goto("recorded")
     \/ dns # "new" /\ Escalate /\ UNCHANGED <<marker, intent, late>>
  /\ UNCHANGED <<new, started, vouched, verified, cutover, undone,
                 guest, cloud, dns>>
  /\ NoFault

\* `provider-finalize`: exactly dns_finalize_verified.
ProviderFinalize ==
  /\ Saved({"dns_finalize_verified"})
  /\ intent' = TRUE
  /\ pc' = "loop" /\ tokens' = {"df"}
  /\ UNCHANGED <<state, halted, via, until, new, started, vouched, verified,
                 cutover, marker, undone, guest, cloud, names>>
  /\ NoFault

\* _step_dataforest_finalize_started saves the next state first ...
FinalizeStarted ==
  /\ At("dns_finalize_verified")
  /\ state' = "finalizing_started" /\ pc' = "checking"
  /\ UNCHANGED <<halted, via, until, tokens, record, guest, cloud, names>>
  /\ NoFault

\* ... then looks whether it may go on at all.
MayFinalize ==
  /\ intent /\ marker = "fresh" /\ "df" \in tokens
  /\ Settled /\ Both
  /\ "ok" \in cutover /\ verified

\* The announcement is on disk before anything is taken away.
FinalizeCheck ==
  /\ pc = "checking"
  /\ \/ /\ MayFinalize
        /\ started' = started \cup {"finalize"} /\ Goto("loop")
     \/ ~MayFinalize /\ Escalate /\ UNCHANGED started
  /\ UNCHANGED <<new, vouched, verified, cutover, marker, intent, undone,
                 guest, cloud, names>>
  /\ NoFault

\* _step_dataforest_remove_guest_address: OLD leaves the guest first.
RemoveGuestAddress ==
  /\ At("finalizing_started")
  /\ GuestDropped(Old)
  /\ UNCHANGED <<record, manager, kept, cloud, names>>

\* _step_dataforest_remove_provider refuses a Seed with an active action or
\* a single address; so its branches for an OLD that is gone already and for
\* an active remove-ipv4 are never taken.
RemoveProvider ==
  /\ At("guest_pre_finalized") /\ "df" \in tokens
  /\ \/ Settled /\ Cardinality(seed) > 1 /\ Old \in seed /\ Goto("drop_old")
     \/ /\ ~Settled \/ Cardinality(seed) <= 1 \/ Old \notin seed
        /\ Escalate
  /\ UNCHANGED <<record, guest, cloud, names>> /\ NoFault

RemovePost ==
  /\ pc = "drop_old"
  /\ PostRemove(Old, "dropping_old", Escalate)
  /\ UNCHANGED <<record, guest, seed, names>>

\* Mutant: that the action was accepted is good enough.
RemovedUnpolled ==
  /\ pc = "dropping_old" /\ Goto("recorded")
  /\ UNCHANGED <<record, guest, cloud, names>> /\ NoFault

Removed ==
  /\ pc = "dropping_old" /\ Old \notin active
  /\ \/ Old \notin seed /\ new \in seed /\ Goto("recorded")
     \/ (Old \in seed \/ new \notin seed) /\ Escalate
  /\ UNCHANGED <<record, guest, cloud, names>> /\ NoFault

\* _step_dataforest_finalize_guest passes NEW as the address to take out.
FinalizeGuest ==
  /\ At("old_ip_removed")
  /\ GuestRestored(new)
  /\ \/ manager = "netplan" /\ Goto("recorded")
     \/ manager = "other"   /\ Escalate
  /\ UNCHANGED <<record, manager, kept, cloud, names>>

\* _step_verify: NEW is on the Seed and nothing is active; whether it
\* answers and whether DNS follows it is only recorded.
Verify ==
  /\ At("guest_finalized") /\ "df" \in tokens
  /\ \/ new \in seed /\ active = {} /\ Goto("recorded")
     \/ (new \notin seed \/ active # {}) /\ Escalate
  /\ UNCHANGED <<record, guest, cloud, names>> /\ NoFault

-----------------------------------------------------------------------------
(* _rollback_dataforest_new_ip, whole: by a failed step or by `rollback`.  *)

\* _mark_rollback_incomplete raises: a step escalates, a command ends.
Incomplete == IF via = "step" THEN Escalate ELSE Exit

Rollback ==
  /\ Idle
  /\ pc' = "w_begin" /\ via' = "command"
  /\ tokens' \in {{"df"}, {"df", "cf"}}
  /\ UNCHANGED <<state, halted, until, record, guest, cloud, names>> /\ NoFault

\* Mutant: the failed step's state stays the state to resume from.
RollbackBeginUnsaved ==
  /\ pc = "w_begin"
  /\ undone' = {} /\ Goto("w_dns")
  /\ UNCHANGED <<new, started, vouched, verified, cutover, marker, intent,
                 guest, cloud, names>>
  /\ NoFault

RollbackBegin ==
  /\ pc = "w_begin"
  /\ state' = "needs_rollback" /\ halted' = FALSE /\ undone' = {}
  /\ pc' = "w_dns"
  /\ UNCHANGED <<via, until, tokens, new, started, vouched, verified,
                 cutover, marker, intent, guest, cloud, names>>
  /\ NoFault

\* The DNS half exchanges the two addresses once too often (CloudflareDns
\* has the records one by one); here its result is not looked at.
RollbackDnsHalf ==
  /\ pc = "w_dns"
  /\ dns' \in IF cutover \cap {"ansible", "apply"} # {} THEN Moved(dns) ELSE {dns}
  /\ Goto("w_guest")
  /\ UNCHANGED <<record, guest, cloud, late>> /\ NoFault

\* NEW leaves the guest; a failure is logged.
RollbackGuestHalf ==
  /\ pc = "w_guest" /\ Goto("w_seed")
  /\ \/ new # NoAddr /\ GuestRestored(new)
     \/ UNCHANGED bound /\ Fault
     \/ new = NoAddr /\ UNCHANGED bound /\ NoFault
  /\ UNCHANGED <<record, manager, kept, cloud, names>>

\* Mutant: the release of NEW is not announced on disk.
RollbackSeedSilent ==
  /\ pc = "w_seed"
  /\ \/ new \notin seed /\ Goto("w_check")
     \/ Both /\ Goto("w_drop")
     \/ new \in seed /\ Old \notin seed /\ Incomplete
  /\ UNCHANGED <<record, guest, cloud, names>> /\ NoFault

\* The Seed decides: NEW gone already, OLD gone, or both there.
RollbackSeed ==
  /\ pc = "w_seed"
  /\ \/ /\ "df" \in tokens /\ new \notin seed
        /\ Goto("w_check") /\ UNCHANGED started
     \/ /\ "df" \in tokens /\ Both
        /\ started' = started \cup {"rollback"} /\ Goto("w_drop")
     \/ /\ "df" \notin tokens \/ (new \in seed /\ Old \notin seed)
        /\ Incomplete /\ UNCHANGED started
  /\ UNCHANGED <<new, vouched, verified, cutover, marker, intent, undone,
                 guest, cloud, names>>
  /\ NoFault

RollbackPost ==
  /\ pc = "w_drop"
  /\ PostRemove(new, "w_dropping", Incomplete)
  /\ UNCHANGED <<record, guest, seed, names>>

RollbackPolled ==
  /\ pc = "w_dropping" /\ new \notin active
  /\ Goto("w_check")
  /\ UNCHANGED <<record, guest, cloud, names>> /\ NoFault

\* Any provider call of the remedy can fail.
RollbackCallFails ==
  /\ pc \in {"w_seed", "w_drop", "w_check"}
  /\ Incomplete /\ Fault
  /\ UNCHANGED <<record, guest, cloud, names>>

\* The Seed is read again; then the guest's persistent half, which passes
\* OLD as the address to take out.
RollbackCheck ==
  /\ pc = "w_check"
  /\ \/ /\ Old \in seed /\ new \notin seed
        /\ GuestRestored(Old) /\ Goto("w_save")
     \/ /\ Old \notin seed \/ new \in seed
        /\ Incomplete /\ UNCHANGED bound /\ NoFault
  /\ UNCHANGED <<record, manager, kept, cloud, names>>

RollbackSave ==
  /\ pc = "w_save" /\ Leave("rolled_back")
  /\ UNCHANGED <<record, guest, cloud, names>> /\ NoFault

-----------------------------------------------------------------------------
(* The staged rollback: four commands, each with its own token.            *)

\* `rollback-dns`.  The manifest alone decides what is patched.
StageDns ==
  /\ Saved({"needs_rollback", "awaiting_finalize", "rolled_back",
            "rollback_incomplete"})
  /\ ~("dns" \in undone /\ state = "rolled_back")
  /\ IF state = "awaiting_finalize" /\ "dns" \notin undone
       THEN state' = "needs_rollback" ELSE UNCHANGED state
  /\ pc' = "s_dns" /\ tokens' = {"cf"}
  /\ UNCHANGED <<halted, via, until, record, guest, cloud, names>> /\ NoFault

StageDnsEnd ==
  /\ pc = "s_dns"
  /\ dns' \in IF "manifest" \in cutover THEN Moved(dns) ELSE {dns}
  /\ undone' = undone \cup {"dns"}
  /\ \/ Leave("dns_rollback_done") /\ NoFault
     \/ Leave("rollback_incomplete") /\ Fault
  /\ UNCHANGED <<new, started, vouched, verified, cutover, marker, intent,
                 guest, cloud, late>>

\* `rollback-inventory` prompts or prints; no token, nothing to fail.
StageInventory ==
  /\ \/ Saved({"dns_rollback_done", "rollback_incomplete"})
     \/ /\ Saved({"inventory_rollback_done", "guest_rollback_done"})
        /\ "inventory" \notin undone
  /\ undone' = undone \cup {"inventory"}
  /\ IF state = "dns_rollback_done"
       THEN Leave("inventory_rollback_done") ELSE Exit
  /\ UNCHANGED <<new, started, vouched, verified, cutover, marker, intent,
                 guest, cloud, names>>
  /\ NoFault

\* `rollback-guest`: restore_guest with OLD as the address to take out; a
\* failure ends in rollback_incomplete.
StageGuest ==
  /\ \/ Saved({"inventory_rollback_done", "rollback_incomplete"})
     \/ Saved({"guest_rollback_done"}) /\ "guest" \notin undone
  /\ GuestRestored(Old)
  /\ \/ /\ manager = "netplan"
        /\ undone' = undone \cup {"guest"}
        /\ IF state = "inventory_rollback_done"
             THEN Leave("guest_rollback_done") ELSE Exit
     \/ /\ manager = "other"
        /\ Leave("rollback_incomplete") /\ UNCHANGED undone
  /\ UNCHANGED <<new, started, vouched, verified, cutover, marker, intent,
                 manager, kept, cloud, names>>

\* The playbook fails before it touches the interface.
StageGuestFails ==
  /\ Saved({"inventory_rollback_done", "rollback_incomplete"})
  /\ Leave("rollback_incomplete") /\ Fault
  /\ UNCHANGED <<record, guest, cloud, names>>

EarlierStages == {"dns", "inventory", "guest"}

\* Mutant: the stage insists on releasing NEW itself.
StageProviderInsists ==
  /\ EarlierStages \subseteq undone
  /\ Saved({"guest_rollback_done"}) /\ Both
  /\ started' = started \cup {"rollback"}
  /\ pc' = "s_drop" /\ tokens' = {"df"}
  /\ UNCHANGED <<state, halted, via, until, new, vouched, verified, cutover,
                 marker, intent, undone, guest, cloud, names>>
  /\ NoFault

\* `rollback-provider`: the earlier stages' markers, then the Seed.  Without
\* NEW on it the verdict is given whatever became of OLD.
StageProvider ==
  /\ EarlierStages \subseteq undone
  /\ \/ Saved({"guest_rollback_done"})
     \/ Saved({"rolled_back"}) /\ "provider" \notin undone
  /\ \/ /\ new \notin seed
        /\ undone' = undone \cup {"provider"} /\ Leave("rolled_back")
        /\ UNCHANGED started
     \/ /\ Both
        /\ started' = started \cup {"rollback"}
        /\ pc' = "s_drop" /\ tokens' = {"df"}
        /\ UNCHANGED <<state, halted, via, until, undone>>
  /\ UNCHANGED <<new, vouched, verified, cutover, marker, intent,
                 guest, cloud, names>>
  /\ NoFault

StagePost ==
  /\ pc = "s_drop"
  /\ PostRemove(new, "s_dropping", Exit)
  /\ UNCHANGED <<record, guest, seed, names>>

StagePolled ==
  /\ pc = "s_dropping" /\ new \notin active
  /\ Goto("s_check")
  /\ UNCHANGED <<record, guest, cloud, names>> /\ NoFault

StageCheck ==
  /\ pc = "s_check"
  /\ \/ /\ Old \in seed /\ new \notin seed
        /\ undone' = undone \cup {"provider"} /\ Leave("rolled_back")
     \/ /\ Old \notin seed \/ new \in seed
        /\ Exit /\ UNCHANGED undone
  /\ UNCHANGED <<new, started, vouched, verified, cutover, marker, intent,
                 guest, cloud, names>>
  /\ NoFault

StageCallFails ==
  /\ pc \in {"s_drop", "s_check"}
  /\ Exit /\ Fault
  /\ UNCHANGED <<record, guest, cloud, names>>

-----------------------------------------------------------------------------
(* `dataforest-identity-check`, and what nobody commands.                  *)

IdentityCheck ==
  /\ Idle /\ Settled
  /\ vouched' = (new # NoAddr)
  /\ UNCHANGED <<control, new, started, verified, cutover, marker, intent,
                 undone, guest, cloud, names>>
  /\ NoFault

\* Thirty minutes pass.
VouchExpires ==
  /\ vouched /\ vouched' = FALSE
  /\ UNCHANGED <<control, new, started, verified, cutover, marker, intent,
                 undone, guest, cloud, names>>
  /\ NoFault

MarkerExpires ==
  /\ marker = "fresh" /\ marker' = "stale"
  /\ UNCHANGED <<control, new, started, vouched, verified, cutover, intent,
                 undone, guest, cloud, names>>
  /\ NoFault

Effect(op) ==
  IF op = "add" THEN \E a \in Fresh \ seed : seed' = seed \cup {a}
                ELSE seed' = seed \ {op}

\* The provider completes an action ...
ActionCompletes ==
  /\ \E op \in active : active' = active \ {op} /\ Effect(op)
  /\ UNCHANGED <<control, record, guest, names>> /\ NoFault

\* Mutant: a removal that was given up on is asked for once more.
PollTriesAgain ==
  \/ pc = "adding" /\ Escalate
  \/ pc = "dropping_old" /\ Goto("drop_old")
  \/ pc = "w_dropping" /\ Incomplete
  \/ pc = "s_dropping" /\ Goto("s_check")

\* A poll that saw `failed`, or whose 30 minutes ran out: an ordinary
\* failure of the step, of the remedy, and nothing to rollback-provider.
PollGivesUp ==
  \/ pc \in {"adding", "dropping_old"} /\ Escalate
  \/ pc = "w_dropping" /\ Incomplete
  \/ pc = "s_dropping" /\ Goto("s_check")

Polled == CASE pc = "adding"       -> "add"
            [] pc = "dropping_old" -> Old
            [] OTHER               -> new

Polling == pc \in {"adding", "dropping_old", "w_dropping", "s_dropping"}

\* ... or fails it, which the process that polls it sees.
ActionFails ==
  /\ \E op \in active :
       /\ active' = active \ {op}
       /\ IF Polling /\ Polled = op THEN PollGivesUp ELSE UNCHANGED control
  /\ Fault
  /\ UNCHANGED <<record, guest, seed, names>>

PollTimeout ==
  /\ Polling /\ Polled \in active
  /\ PollGivesUp
  /\ UNCHANGED <<record, guest, cloud, names>> /\ NoFault

\* Somebody else sets a moved record back.
ForeignEdit ==
  /\ dns = "new" /\ dns' = "mixed"
  /\ late' = (marker # "none")
  /\ Fault
  /\ UNCHANGED <<control, record, guest, cloud>>

Crash ==
  /\ pc # "idle" /\ Exit /\ Fault
  /\ UNCHANGED <<record, guest, cloud, names>>

-----------------------------------------------------------------------------
(* The specification.                                                      *)

Init ==
  /\ state = "new" /\ halted = FALSE
  /\ new = NoAddr /\ started = {} /\ vouched = FALSE /\ verified = FALSE
  /\ cutover = {} /\ marker = "none" /\ intent = FALSE /\ undone = {}
  /\ pc = "idle" /\ via = "step" /\ until = "none" /\ tokens = {}
  /\ manager \in Managers /\ bound = {Old} /\ kept = {Old}
  /\ seed = {Old} /\ active = {}
  /\ dns \in {"old", "none"} /\ late = FALSE
  /\ faults = 0

Stage == StageDns \/ StageInventory \/ StageGuest \/ StageGuestFails
         \/ StageProvider

Command ==
  \/ PlanRead \/ Resume \/ ResumeWrongRemedy \/ Finalize \/ FinalizePrecheck
  \/ ProviderFinalize \/ Rollback \/ Stage \/ IdentityCheck

ApplyStep ==
  \/ Preflight \/ Allocate \/ AddPost \/ Added \/ ConfigureGuest \/ VerifyGuest
  \/ DnsPreflight \/ Ansible \/ ReplaceMark \/ Replace \/ AwaitFinalize

FinalizeStep ==
  \/ PrecheckSaved \/ PrecheckStep \/ FinalizeStarted \/ FinalizeCheck
  \/ RemoveGuestAddress \/ RemoveProvider \/ RemovePost \/ Removed
  \/ FinalizeGuest \/ Verify

Remedy ==
  \/ RollbackBegin \/ RollbackDnsHalf \/ RollbackGuestHalf \/ RollbackSeed
  \/ RollbackPost \/ RollbackPolled \/ RollbackCallFails \/ RollbackCheck
  \/ RollbackSave

StageStep ==
  \/ StageDnsEnd \/ StagePost \/ StagePolled \/ StageCheck \/ StageCallFails

\* What a running process does next.
Process ==
  \/ PlanValidate \/ PlanFinish \/ Pause \/ Transition \/ StepFails
  \/ TokenMissing \/ PollTimeout
  \/ ApplyStep \/ FinalizeStep \/ Remedy \/ StageStep

Environment == \/ VouchExpires \/ MarkerExpires \/ ActionCompletes
               \/ ActionFails \/ ForeignEdit \/ Crash

Next == Command \/ Process \/ Environment

Spec == Init /\ [][Next]_vars

\* A process that runs comes to its next call or save; every poll ends.
LiveSpec == Spec /\ WF_vars(Process)

\* The provider completes what it accepted, and the operator does not give
\* up the four stages of the rollback.
RetrySpec ==
  /\ LiveSpec
  /\ WF_vars(ActionCompletes)
  /\ SF_vars(StageDns) /\ SF_vars(StageInventory)
  /\ SF_vars(StageGuest) /\ SF_vars(StageProvider)

-----------------------------------------------------------------------------
(* Properties.                                                             *)

Programs == {"idle", "plan", "loop", "recorded", "add", "adding", "patching",
             "checking", "drop_old", "dropping_old", "w_begin", "w_dns",
             "w_guest", "w_seed", "w_drop", "w_dropping", "w_check", "w_save",
             "s_dns", "s_drop", "s_dropping", "s_check"}

Addresses == Fresh \cup {Old}

ControlOK ==
  /\ state \in States /\ halted \in BOOLEAN
  /\ pc \in Programs /\ via \in {"step", "command", "precheck"}
  /\ until \in Pausable \cup {"none"} /\ tokens \subseteq {"df", "cf"}

RecordOK ==
  /\ new \in Fresh \cup {NoAddr}
  /\ started \subseteq {"allocate", "finalize", "rollback"}
  /\ vouched \in BOOLEAN /\ verified \in BOOLEAN
  /\ cutover \subseteq {"manifest", "ansible", "apply", "ok"}
  /\ marker \in {"none", "fresh", "stale"} /\ intent \in BOOLEAN
  /\ undone \subseteq {"dns", "inventory", "guest", "provider"}

WorldOK ==
  /\ manager \in Managers
  /\ bound \subseteq Addresses \cup {NoAddr} /\ kept \subseteq Addresses \cup {NoAddr}
  /\ seed \subseteq Addresses
  /\ active \subseteq Addresses \cup {"add"}
  /\ dns \in {"none", "old", "mixed", "new"} /\ late \in BOOLEAN
  /\ faults \in Nat

\* Every variable keeps its range; NEW is never OLD.
TypeOK == ControlOK /\ RecordOK /\ WorldOK

\* An address the checkpoint takes for NEW is the only one the Seed gained,
\* although the add-ipv4 POST is sent again when its answer is lost and the
\* process may die between the POST and the save of new_ip.
OneNewAddress == new # NoAddr => seed \ {Old} \subseteq {new}

\* When OLD is gone, no record the token sees still names it, save one that
\* somebody set back after the precheck had passed.
OldLeavesUnreferenced == Old \notin seed /\ OnOld => late

\* A Seed loses its last address only when the finalize half and a rollback
\* have both been announced on disk: neither alone can do it, whatever is
\* repeated, refused, lost or completed late.
EmptySeedNeedsBoth == seed = {} => {"finalize", "rollback"} \subseteq started

Proven == /\ intent /\ marker # "none" /\ verified /\ "ok" \in cutover
          /\ "finalize" \in started
          /\ new \in seed \/ "rollback" \in started

\* OLD leaves the Seed only after the precheck's marker, the operator's
\* intent, the guest's verification, the DNS result and the announcement
\* were all on disk, and with NEW there unless a rollback took it.
OldLeavesProven == [][ (Old \in seed /\ Old \notin seed') => Proven ]_vars

\* The names move towards NEW only when NEW was proved to serve and still
\* is bound on the guest and held by the Seed.
DnsFollowsServing ==
  [][ dns' # dns /\ state \in {"cloudflare_preflighted", "ansible_done"} =>
        verified /\ new \in seed \cap bound ]_vars

Held == { h \in {"old", "new"} : IF h = "old" THEN Old \in seed
                                              ELSE seed \cap Fresh # {} }

Handover == INSTANCE AddressHandover
  WITH held <- Held, announced <- started \ {"allocate"}, done <- state = "done"

\* The transaction implements the handover of AddressHandover.tla.
ImplementsHandover == Handover!Spec

\* How many steps of the two halves are left, from the state they begin in.
StepsLeft(s) == CASE s = "confirmed"                -> 14
                  [] s = "dataforest_preflighted"   -> 13
                  [] s = "new_ip_allocated"         -> 12
                  [] s = "guest_configured"         -> 11
                  [] s = "guest_verified"           -> 10
                  [] s = "cloudflare_preflighted"   -> 9
                  [] s = "ansible_done"             -> 8
                  [] s = "cloudflare_replaced"      -> 7
                  [] s = "awaiting_finalize"        -> 6
                  [] s = "dns_finalize_verified"    -> 5
                  [] s = "finalizing_started"       -> 4
                  [] s = "guest_pre_finalized"      -> 3
                  [] s = "old_ip_removed"           -> 2
                  [] OTHER                         -> 1

\* What is left of a step, by the point it has reached ...
Within(p) == CASE p = "checking" -> 6
               [] p = "loop"     -> 5
               [] p \in {"add", "patching", "drop_old"} -> 4
               [] p \in {"adding", "dropping_old"}      -> 3
               [] p = "recorded" -> 2
               [] OTHER          -> 0

\* ... and of a remedy or a stage.
Outside(p) == CASE p = "w_begin" -> 8
                [] p = "w_dns"   -> 7
                [] p = "w_guest" -> 6
                [] p = "w_seed"  -> 5
                [] p \in {"w_drop", "s_drop"}         -> 4
                [] p \in {"w_dropping", "s_dropping"} -> 3
                [] p \in {"w_check", "s_check"}       -> 2
                [] p = "idle"    -> 0
                [] OTHER         -> 1

\* How far the process is from its end.
Distance == CASE pc = "plan" -> IF state = "created" THEN 152 ELSE 151
              [] Within(pc) > 0 -> 10 * StepsLeft(state) + Within(pc)
              [] OTHER -> Outside(pc)

Nearer  == Distance' < Distance
SameRun == UNCHANGED <<pc, state>>

\* Why a run ends: a process stays where it is only to send a POST again
\* whose answer was lost, and is never led back, by a failure or by what the
\* provider does to the action it polls; no state is worked on twice.
RunsGetShorter ==
  [][ /\ Process => Nearer \/ (SameRun /\ faults' > faults)
      /\ pc # "idle" => Nearer \/ SameRun ]_vars

\* Every process ends: no poll, retry or remedy runs for ever.
EveryRunEnds == pc # "idle" ~> pc = "idle"

\* A staged rollback that is not given up ends in rolled_back, wherever it
\* was broken off and whichever of its stages had failed before, unless OLD
\* had been released or the guest stage can never succeed.
StagedRollbackConverges ==
  Saved(StageStates \cup {"rollback_incomplete"})
    ~> \/ state = "rolled_back" \/ Old \notin seed \/ manager = "other"

\* rotate.py about finalize: the guest drops OLD and keeps NEW.
FinalizeKeepsNewIp ==
  state \in {"guest_finalized", "old_ip_removed"} => new \in bound

-----------------------------------------------------------------------------
(* The inductive invariant.                                                *)

RollbackStates == StageStates \cup {"rolled_back", "rollback_incomplete"}

RollbackPrograms == {"w_dns", "w_guest", "w_seed", "w_drop", "w_dropping",
                     "w_check", "w_save", "s_dns", "s_drop", "s_dropping",
                     "s_check"}

\* The states past a step, those in which its effect is waiting to be saved
\* included: up to the end of the apply half, and from the release of OLD.
Past(s, later) == state \in later \/ (state = s /\ pc = "recorded")

GuestProved   == {"guest_verified", "cloudflare_preflighted", "ansible_done",
                  "cloudflare_replaced"}
GuestHasNew   == GuestProved \cup {"guest_configured"}
SeedHasNew    == GuestHasNew \cup {"new_ip_allocated"}
OldReleased   == {"old_ip_removed", "guest_finalized", "done"}

\* A rollback's programs work in its states, every other one in a step's.
ControlInv ==
  /\ pc \in RollbackPrograms => state \in RollbackStates
  /\ pc = "recorded" => state \in DOMAIN StepTo \ {"dns_finalize_verified"}
  /\ pc \in {"add", "adding"} => state = "dataforest_preflighted" /\ new = NoAddr
  /\ pc = "patching" => state = "ansible_done"
  /\ pc = "checking" => state = "finalizing_started"
  /\ pc \in {"drop_old", "dropping_old"} => state = "guest_pre_finalized"

\* A recorded NEW is the only one and no further one is under way.
AllocationInv ==
  new # NoAddr => seed \ {Old} \subseteq {new} /\ "add" \notin active

\* What the apply half has established is still so.
ServingInv ==
  /\ Past("dataforest_preflighted", SeedHasNew) => new \in seed
  /\ Past("new_ip_allocated", GuestHasNew) => new \in bound
  /\ Past("guest_configured", GuestProved) => verified

\* NEW alone is asked to leave by a rollback, in its states and announced;
\* a stage has been recorded in its states only.
RollbackInv ==
  /\ undone # {} => state \in RollbackStates
  /\ active \cap Fresh # {} => "rollback" \in started /\ state \in RollbackStates
  /\ active \cap Fresh \subseteq {new}
  /\ pc \in {"w_drop", "w_dropping", "s_drop", "s_dropping"}
       => "rollback" \in started

\* OLD is asked to leave only after the announcement, and the announcement
\* was made on the evidence.
FinalizeInv ==
  /\ "finalize" \in started => Proven
  /\ Old \in active \/ Old \notin seed => "finalize" \in started
  /\ Past("finalizing_started", OldReleased \cup {"guest_pre_finalized"})
       \/ (state = "finalizing_started" /\ pc = "loop")
       => "finalize" \in started
  /\ Past("guest_pre_finalized", OldReleased) => Old \notin seed
  /\ state = "guest_finalized" /\ pc = "recorded" => new \in seed

\* Once the precheck has passed, only a third party moves a record back.
NamesInv == marker # "none" /\ OnOld => late

IInv == /\ TypeOK /\ ControlInv /\ AllocationInv /\ ServingInv
        /\ RollbackInv /\ FinalizeInv /\ NamesInv

=============================================================================
