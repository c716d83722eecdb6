# change-ip: a verification development of server-ip-rotation

`server-ip-rotation` replaces a server's public IPv4 at its provider (Hetzner
Cloud or DataForest), moves the Cloudflare records after it, and keeps a
checkpoint from which every run can be resumed or rolled back. This directory
holds TLA+ modules translated from its source, the TLC configurations that
check them, and TLAPS proofs about them. Paths such as `rotate.py:1871` are
relative to the repository.

## 1. The system

### Components

| component | state it keeps | operations | hard because |
|---|---|---|---|
| **Hetzner state machine** (`rotate.py`: `_plan_hcloud`, `execute`, `_step_*`, `restart_only`, `restore_old_ip`, `release_old_ip`, `release_orphan_ip`, `declare_*`) | checkpoint `state/<txid>.json`: `state`, `resume_from`, `outcome`, facts such as `protected`, `ansible.rc`, `cloudflare_apply*`, `released_at` | `plan`, `apply`, `resume`, `rollback`, `dns-rollback-only`, `release-old-ip`, the declare commands | each provider call and each save is a step of its own: a crash or a lost answer between them; remedies that fail half-way; one irreversible delete |
| **Hetzner provider** (`hcloud_step.yml`, `providers.py`) | server power, attached Primary IP, the project's pool, `auto_delete` | protect, allocate, stop, unassign, assign, start, release, reads | shared by all rotations; forces power-offs of its own; a quota |
| **Cloudflare half** (`cloudflare_replace_ip_step.yml`, `cloudflare_adapter.py`, `_step_cloudflare_*`, `_do_dns_rollback`, `dns_rollback_only`) | manifest, per-account apply markers, verdict; the records themselves | discover, apply, rollback, verify | no conditional update, several accounts with overlapping zones, third-party edits |
| **DataForest state machine** (`rotate.py` `_plan_dataforest`, `_step_dataforest_*`, `finalize_*`, `_rollback_dataforest_new_ip`) | checkpoint with its own step table, `df_*` facts, finalize stages | plan, staged apply, staged rollback, finalize | non-idempotent `add-ipv4` and remove POSTs polled to completion; a point of no return |
| **DataForest provider and guest** (`dataforest_adapter.py`, `dataforest_step.yml`, `dataforest_guest_adapter.py`) | address lists, provider actions, guest addresses and routes | add, remove, poll; bind, verify, restore | both addresses coexist; guest rollback from a snapshot |
| **Workflow and stage runner** (`.github/workflows/run.yml`, `stage.py`, `find_resumable_checkpoint.py`) | artifacts with checkpoints, job graph | change-ip, resume, rollback as sequences of processes | jobs that pick up a checkpoint another job left |
| **Inventory and ip-change** (`ansible_adapter.py`, `update_inventory.py`, `sync_inventory_repo.sh`, `Makefile`) | the fleet's inventory file | edit, commit, `make ip-change`, revert | a run that moves records itself and then fails |
| **Configuration, summaries, self-test** | none | validate, redact, print | - |
| **Change classifier, secret setup, CI** | none | - | - |

### How they interact

`rotate.py` calls the provider and Cloudflare through Ansible subprocesses
(one play per call, its answer read from a result file) and saves the
checkpoint after each step. A command is a process; on a crash the checkpoint
survives and the program counter does not. `run.yml` strings commands
together: a Hetzner `rollback` job runs the provider half
(`rollback --no-dns-rollback`) and then `dns-rollback-only`, in two processes.
Rotations of different servers run at the same time and meet in the project's
pool of Primary IPs; accounts meet in the records that more than one token can
see.

### What makes each component correct

* Hetzner: the checkpoint is never ahead of the provider and at most one call
  behind; the old address is protected before it can be detached and exists
  until the rotation is finished; a verdict (`done`, `rolled_back`) is true of
  the server; a rollback that is repeated gets there; no delete takes an
  address a server is on.
* Cloudflare: a PATCH follows from this run's own reads; a saved replace
  happened to every record of every account; the markers cover whatever an
  apply wrote; a clean rollback was read back; a repeated apply finishes.
* DataForest: a recorded new address is the only one the Seed gained; the old
  one is released on the whole of the evidence only; neither half alone takes
  the Seed's last address; a staged rollback that was broken off gets there.
* Workflow: a resume moves records to the address the box is on, a rollback
  undoes the box's last move, and a lost upload is not the end of a run.

The hazards behind these are listed, each at its line, in `PROJECT.json`.

## 2. The modules

| module | models | composed with |
|---|---|---|
| `AddressSwap` | what a rotation promises: the address moves while the rotation is open, one hop at a time, and a verdict is given only on the address it speaks of | abstract specification of `HcloudRotation` |
| `HcloudRotation` | the Hetzner state machine with its provider, any number of rotations in one project | instantiates `AddressSwap` with a refinement mapping |
| `MCHcloudRotation` | one or two rotations with their addresses, for TLC | |
| `HcloudRotationProofs`, `HcloudRunsProofs`, `HcloudCutoverProofs` | theorems about `HcloudRotation`: its invariants and its refinement of `AddressSwap`; the progress of its runs; its refinement of `DnsCutover` | |
| `DnsCutover` | what a rotation promises about its records as a whole: the checkpoint claims the cutover only after it has begun and only when it is complete, until somebody else writes a record; that they move from the old address to the new one only is what the code does today, because its rollback exchanges the addresses twice (`DnsCleanBack`), and is promised nowhere | abstract specification of the DNS half, in `HcloudRotation` and in `CloudflareDns` |
| `CloudflareDns` | the DNS half of one transaction, record by record and account by account | instantiates `DnsCutover` with a refinement mapping, which justifies the `Moved`/`DnsRollback` summary in `HcloudRotation` |
| `MCCloudflareDns` | two accounts with an overlapping zone, for TLC | |
| `CloudflareDnsProofs` | theorems about `CloudflareDns` | |
| `AddressHandover` | what a DataForest rotation promises: NEW comes beside OLD, whichever leaves was announced on disk, OLD is announced only with both there, the end has NEW alone | abstract specification of `DataForestRotation` |
| `DataForestRotation` | the DataForest state machine with provider, guest and records, one transaction | instantiates `AddressHandover` with a refinement mapping |
| `MCDataForestRotation` | one Seed, two addresses the provider may hand out, for TLC | |
| `DataForestRotationProofs`, `DataForestRunsProofs` | theorems about `DataForestRotation`: its invariants and its refinement of `AddressHandover`; the progress of its runs | |
| `RotationWorkflow` | `run.yml`'s Hetzner jobs, their artifacts, `find_resumable_checkpoint.py`, `stage.py` | takes the outcomes of `rotate.py` from `HcloudRotation` and those of the records from `CloudflareDns` |
| `MCRotationWorkflow` | two servers, for TLC | |
| `RotationWorkflowProofs` | theorems about `RotationWorkflow` | |

### HcloudRotation

`state`, `resume`, `outcome`, `protected`, `ansible`, `applied` and `released`
are the checkpoint; `power`, `ip`, `pool`, `autoDelete` and `dns` are the
provider and the records; `pc`, `via` and `seen` are the running process, and
`Crash` loses them. One action is one provider call, one decision after a read,
or one save. Values of `state` are the names of the code. `pc` is

* `loop` between steps (`execute`), `recorded` when a step's results are in the
  checkpoint object and the next state has to be saved (`Transition`);
* `quota`, `guarded`, `protected`, `patching`, `called` in the middle of
  `_step_allocate`, `_step_stop` and `_step_cloudflare_replace`;
* `restart`, `restarted` in `restart_only`, and `r_*` in `restore_old_ip`,
  whose caller (`via`) decides what its failure does;
* `dns_half` between the two processes of `run.yml`'s rollback job.

`Fail` is `_handle_failure` with the policy of the step table: `restart_only`,
`restore_old_ip` or escalate. `Answered` is a call that took effect and whose
answer arrived, or did not. `with_retries` is one call: what it wraps here is
idempotent, so the attempts together either took effect or did not.

Abstractions, and what they rest on:

* a Primary IP is its name; `find_ip` and `allocate_ip` speak of
  `<alias>-ipv4-<txid>`;
* identity is the address only. The server's id, name and location do not
  change during a rotation, so a mismatch of theirs is the outcome `StepFails`
  or `IdentityMismatch` already has;
* `plan`'s first save at `created` and its reads are one step: nothing but the
  plan itself has happened when it fails;
* `dns` says where the A records of the transaction are as a whole: `old`,
  `mixed`, `new` or `none`. What a run may do to them is `Moved`, forward only:
  `CloudflareDns` has the records one by one, and both modules implement
  `DnsCutover` (`HcloudCutover`, `DnsRefinement`): the word here moves only as
  the records there do, for a rollback as well. That rests on the exchange of
  the addresses which `DnsCleanBack` reports: its repair adds a move back to
  `DnsCutover`, to `CloudflareDns` and to `DnsRollback`;
* a rotation is `provider_only` for good (`ProviderOnly`): `run.yml:315-318`
  and `rotate.py:1073` fix the mode per run;
* nobody but this program attaches or detaches these servers' addresses.

### CloudflareDns

`stage`, `manifest` (the owner of each record), `ansible`, `started` (the
markers), `applied` and `verdict` are the checkpoint; `live` is Cloudflare.
`op`, `queue`, `left`, `todo` and `failed` are the process: the accounts to
go, the records the loop under way has to go, the records planned for a PATCH,
and whether an account failed. One action is one request, one save, or one
decision. `drift` and `moved` are history: records somebody else wrote since
this transaction last read them, and records an apply PATCHed.

`Args` is what `rotate.py` passes to the playbook and `Source`/`Target` what
the playbook makes of it; that a rollback exchanges the addresses in both is
in these three definitions. A play that fails anywhere leaves no result file,
so all its failures are one outcome (`RunFails`). After a failed `uri` item
Ansible goes on with the other items and fails the play afterwards; since the
records have no order in the model, `RequestFails` at any point covers this.
`rotate.py` also has a branch for a result with `ok: false` and a non-zero rc,
which this playbook never writes: `CloudflareDns` leaves it out,
`HcloudRotation` keeps it. In between preflight and replace the server moves;
here that is only `IpChange`, the run that may move records by itself.
`scan_only`, paging and the playbook's verify operation (which nothing calls)
are not modelled.

### DataForestRotation

The variables of the checkpoint keep the code's names shortened: `new` is
`new_ip.ip`, `started` the three `provider_*_started` markers,
`vouched` `dataforest_identity_ok` while it is usable, `cutover` the four
results of the DNS half, `marker` `dns_finalize_verified`, `intent`
`finalize_intent`, `undone` the `rollback.*_step_at`. `state` is the resume
state when `halted` (escalated). `seed` and `active` are the provider: the
addresses, and the actions it accepted; `manager`, `bound` and `kept` the
guest's interface: who manages it, and the bound and the persisted addresses;
`dns` and `late` the records and whether somebody set one back after the
precheck. `pc`, `via`, `until` and `tokens` are the process, lost by `Crash`:
every workflow stage carries its own tokens, and a step that needs one it has
not fails (`TokenMissing`).

* An asynchronous provider action is three steps: the POST is accepted
  (`AddPost`, `PostRemove`: it joins `active`, with the answer or without),
  the provider completes or fails it by itself (`ActionCompletes`,
  `ActionFails`), the process sees that in a poll, or its deadline passes
  (`Added`, `Removed`, `PollTimeout`). A crash, a rollback or a second POST may
  come anywhere in between.
* `Queues` says whether a remove-ipv4 is accepted while another action is
  active: the repository does not say what DataForest answers, so both values
  are allowed, and the run takes the one with more behaviour.
* The guest playbook is modelled by what its tasks do to the interface, task
  by task: `GuestConfigured`, `GuestDropped`, `GuestRestored`. That binding
  what is bound fails, that `netplan apply` brings persisted addresses back and
  that a host without netplan ends the playbook there are the code's own
  (`dataforest_step.yml`), and two findings and hazards follow from it.
* The precheck is modelled for an empty list of allowed records; a
  configured list adds refusals only.
  `cloudflare.mode = provider_only` only ends a run early and is left out.
  Records another Cloudflare account owns are not seen by this half's single
  token, so they are outside the model as they are outside the code.
* `Finalize` is the single-shot command, `FinalizePrecheck` and
  `ProviderFinalize` the two stages of the workflow; `Rollback` the whole
  rollback, `StageDns` to `StageProvider` the four stages.

### RotationWorkflow

A runner's disk lives as long as its job: all a later run knows is the
artifacts. `store` is the list of `rotation-state*` artifacts, oldest first,
each a checkpoint reduced to what `run.yml` and `find_resumable_checkpoint.py`
look at: transaction, state (or resume state), whether there is a `new_ip`,
whether anything speaks of moved records, whether `rollback.state` says the old
address is back. `addr` and `names` are the world, `plan` what was planned and
`job` the run each server's concurrency group admits, step by step: `rotate`
at the next step of `rotate.py`'s table, `restore` and `restore_dns` in the two
halves of its remedy, `undo_dns` in the second command of the rollback job,
`upload` (`if: always()`).

* Each invocation of `rotate.py` is cut into its outcomes. They are those of
  `HcloudRotation` (a swap that moved the box, refused, broke off in the middle,
  or was rolled back; a replace that ended, stopped on the way or went on to its
  remedy). Records are only ever PATCHed to NEW, by a rollback as well
  (`DnsCleanBack` says why).
* The remedy of the replace step has two halves, the box (`RestoreAddress`) and
  then the records (`RestoreDns`), with a state between them in which other
  jobs, or the loss of this one, may come. Either may break off, the first also
  with the box on no address (`RestoreBreaks`): the checkpoint is then escalated
  from `needs_rollback` and `rollback.state` stays open. `MaxFaults` counts the
  failed stage once, where the remedy begins (`ReplaceUnreadable`), whatever the
  remedy comes to.
* Transaction `t` gets the address `t`: an address a box has left is not handed
  out to another one. `BoxesStayApart` rests on this.
* The records of a server are one value; a partly moved set counts as not
  moved, which a later run may still move.
* The operator types any address (`Dispatch`). `plan`/`apply` compare it with
  a live read, the lookups with the checkpoint only.
* `JobLost` is a lost runner or a failed upload; `StartResume` may fail to
  download one artifact, which the script passes over; `Expire` drops the
  oldest. (The comments of the rollback job speak of 30 days; the uploads say
  `retention-days: 3`. The model has no clock.)
* Equal artifacts are kept once: the lookups cannot tell them apart.
* `release-old-ip`, which the jobs may run at their end, is in
  `HcloudRotation`; it changes neither `addr` nor `names`.

What the records do is `RecordsFollowBox`: forward they go to the address of
their box, and in a remedy or a rollback they are touched only when the box is
back on OLD. The first half is about dispatches that name the address the box
is on. A dispatch with an address that is out of date may find the checkpoint
of an older transaction, and at `ansible_done` the next step is the PATCH:
`_step_cloudflare_replace` does not call `assert_identity`, and only `Verify`,
afterwards, notices that the box is elsewhere. The hazard is listed at
`rotate.py:2086`; no property covers it.

## 3. The runs

| run | instance | what it shows | distinct states |
|---|---|---|---|
| `HcloudOne` | one rotation, 3 faults, a project at its limit with one left-over address, policy `release` | `IInv` (the inductive invariant), `CheckpointLocatesAddress`, `ProtectedBeforeDetach`, `DoneIsServing`, `WayBackExists`, `NoWayBackLost`, refinement of `AddressSwap` and of `DnsCutover`, `RunsGetShorter`; every process ends, a repeated rollback converges | about 58 thousand |
| `HcloudTwo` | two rotations, one of them provider_only, policy `release`, operator sweeps, no faults | `IInv`, `AttachedExists`, `NoneStranded`, `ProviderOnlyLeavesDns` | about 860 thousand |
| `DnsRecords` | two accounts whose tokens share a record, one third-party edit, 2 faults | `TypeOK`, `PlanIsFresh`, `ReplacedIsTrue`, `MarkersCoverMoves`, `CleanIsReadBack`, `RollbackStaysInMarkers`, refinement of `DnsCutover`, `RunsGetShorter`; a repeated apply converges | about 440 thousand |
| `DataForestStaged` | one DataForest transaction, every command, 2 faults, two addresses to hand out, `max_ipv4` 3, pauses at `guest_verified` and `awaiting_finalize`, with and without netplan | `TypeOK`, `IInv`, `OneNewAddress`, `OldLeavesUnreferenced`, `EmptySeedNeedsBoth`, `OldLeavesProven`, `DnsFollowsServing`, refinement of `AddressHandover`, `RunsGetShorter`; every process ends, a staged rollback converges | about 185 thousand |
| `WorkflowArtifacts` | two servers, two transactions, 1 fault, any typed address, expiring artifacts | `IInv` (the types included), `BoxesStayApart`, `RecordsFollowBox`, `RollbackUndoesLastMove`; an interrupted run is completed by repeated resumes | about 402 thousand |

Seven runs show sentences of the repository that the code does not keep; each
ends in a violation, and `PROJECT.json` quotes the sentence under "findings".

| run | sentence | what happens |
|---|---|---|
| `HcloudResume` | `resume` is safe to run repeatedly | a crash between `unassign` or `assign` and the save makes the next `resume` take its own effect for a foreign server and escalate; `rollback` still works |
| `HcloudQuotaSweep` | the only way back is not deleted mid-rotation | at the quota, one rotation's allocate deletes the detached old address of another one in flight |
| `HcloudRolledBackUp` | after `rolled_back` the box is up | both remedies accept a start that answers "starting"; the box may then fail to boot |
| `HcloudAllowList` | an allow-list violation stops the run at `validated` | `resume` confirms `validated` like any other plan state and does not check the list again |
| `DnsCleanBack` | a clean rollback has every record back on the old address | the addresses are exchanged twice, so the rollback moves records to the new address and reports `clean` |
| `DataForestFinalizeReach` | the last guest step drops OLD and keeps NEW | `restore_guest` is called with NEW as the address to delete, and `netplan apply` brings OLD back |
| `DnsVerifyDrift` | verify knows of an edit made after the apply | it compares the manifest the apply saved |

`CleanIsReadBack` and `CleanMeansBack` are the two readings of a clean verdict:
the first says that every record was read back at the address the run was
aiming at, which holds; the second that this is the old one, which does not.
`NoWayBackLost` holds for one rotation (`HcloudOne`) and fails for two at the
limit (`HcloudQuotaSweep`); that it holds for any number of them below the
limit is a theorem (`WayBackIsKeptWithRoom`). `NoneStranded` is what remains at
the limit: the quota step of one rotation, or the sweep, may take the new
address of another between its allocate and its assign, and the remedy of that
assign then gives the server its old address again. Only a server whose old
address was deleted as well is left without one. `AttachedExists` does not say
this, since the address that is deleted is attached to nothing.

### Bounds, and why they are enough

* `MaxFaults` bounds failed calls, lost answers, failed boots and crashes
  together. Three reach a step that fails, a remedy that fails, and a crash of
  the next attempt. No safety proof depends on it.
* One rotation of its own is enough for everything that is about one server;
  the pool is all that rotations share, and two rotations plus a sweeping
  operator are enough for one to delete what another one needs. `HcloudTwo`
  has no faults (the interleaving is the question there, and the theorems
  cover the product); `Limit = 3` with two old and two new addresses makes the
  second allocate meet the quota.
* `HcloudOne` has `Limit = 2` and a left-over address so that the quota branch
  is taken: release, try again.
* Two accounts with `Sees` overlapping in one of three records: an account
  with a record of its own before and after the shared one, an allow-list on
  the first. `MaxEdits = 1` puts one third-party write anywhere, before,
  between and after the reads.
* `DataForestStaged` has two fresh addresses because a second `add-ipv4` is the
  hazard, and `MaxIpv4 = 3` so that the limit does not hide it. Two faults
  reach a lost answer and a crash, a failed stage and a failed retry of it. The
  two pauses are one of each token class; the theorems cover the others.
* `WorkflowArtifacts` has two transactions, so that one server has an older
  and a newer checkpoint, or two servers have one each: that is what the
  lookups can confuse. Dispatches are bounded by `MaxTx`, so the model may
  come to rest: deadlock is not checked in this run.
* In the violation runs the bounds are the least that show the behaviour.

### Fairness

`LiveSpec` assumes that a process that was started keeps going
(`WF_vars(Process(t))`): the program is sequential and every call has a
timeout. `RetrySpec` adds what the README tells the operator to do: to repeat
`rollback` while one is owed (`SF_vars(RetryRollback(t))`), and, for the DNS
half, to resume an apply that is owed (`SF_vars(StartApply)`). Strong fairness,
because other commands of the operator may come in between. Faults are not
fair and are bounded, so the properties say: when faults stop, it converges.
For DataForest `RetrySpec` repeats the four rollback stages, and the provider
completes what it accepted (`WF_vars(ActionCompletes)`); a poll has a deadline
of its own, so that `EveryRunEnds` does not rest on the provider.  For the
workflow, a job that runs goes on (`timeout-minutes`, `if: always()`), and the
operator keeps dispatching `resume` with the address the box is on.
Nothing else is assumed of the environment: boots need not finish, third parties
need not write.

`RollbackConverges` excludes by name the case that the old address has been
released; `ApplyConverges` excludes a third-party edit, against which the
apply rightly fails closed for ever. `StagedRollbackConverges` excludes a
released OLD, and a guest without netplan, whose stage can never succeed.
`InterruptedRunCompletes` ends when the box moves on, is rolled back, or no
artifact that says so is left.

## 4. The proofs

All theorems hold for every set of transactions, addresses, accounts and
records and every limit and bound allowed by the assumptions
(`AddressAssumption`: each transaction has two addresses of its own, for
DataForest OLD is none of those handed out; `ConfigAssumption`,
`PausesAssumption`, `DnsAssumption` and `WorkflowAssumption`: types of the
parameters, "no address" is not an address, an address that a transaction gets
is none that a server was on at the beginning, pauses are
pausable states, accounts are ordered by their number).

`HcloudRotationProofs`

* `Invariance`: `Spec => []IInv`. The safety invariants are not inductive by
  themselves: whether `Transition` keeps `Located` depends on what a step
  established when `pc` became `recorded`, the escalated state has to be looked
  through (`Where`), and `ProtectedBeforeDetach` needs to know that `protected`
  never comes ahead of the provider. `IInv` adds this as `PcFitsState`,
  `PcFitsAddress`, `ProtectionHolds`, `ServingFollows` and `OwnAddress`. The
  proof has one lemma per group of actions (`CommandInv`, `StepForwardInv`,
  `RemedyInv`, `ProcessInv`, `EnvironmentInv`) for the acting transaction, and
  one per group for the others (`...Others`), of which only the pool changes:
  what is deleted is attached to nobody.
* `TypeCorrect`, `CheckpointIsTruthful`, `RuleOne`, `AttachedIsNeverDeleted`,
  `DoneIsTrue` follow from it.
* `Refinement`: `Spec => ImplementsAddressSwap`. Every step is a hop that
  `AddressSwap` allows, or a stutter: `CommandHop`, `StepForwardHop`,
  `RemedyHop`, `EnvironmentHop`, then `HopImplements`.

* `WayBackIsKept`, `WayBackIsThere`: `NoWayBackLost` and `WayBackExists` for a
  lone rotation without a sweeping operator. `Onward` says of each action that
  it enters a state with a detached address only from such a state or from
  `new_ip_allocated`, where the address is still on the server, and that only
  `ReleaseOldIp` deletes it. With a second rotation both are false
  (`HcloudQuotaSweep`).
* `WayBackIsKeptWithRoom`, `WayBackIsThereWithRoom`: the same two properties for
  any number of rotations, under `Roomy`, which is the condition the
  counterexample violates and nothing more: retention is `keep`, or the limit
  is above the number of addresses the project can come to hold, left-overs
  included. Then no process ever
  enters the quota loop (`NoQuotaLoop`, `NextRoomy`), and the other deletes are
  a rotation's own. An operator who keeps this room and sweeps nothing while a
  rotation is open has every way back; the code does not check for it.
* `NobodyIsStranded`: `Spec => []NoneStranded`, for any number of rotations and
  any sweep. `Attended` strengthens it: a server on no address whose old address
  exists has a process that is about to give it one (at the save or the step
  after the unassign, or in the remedy before its assign). The `...Attends`
  lemmas show it of each group of actions of the transaction itself; of the
  others' steps it is enough that no old address comes back into the project.
* `ProviderOnlyKeepsOff`: `ProviderOnlyLeavesDns`, beside any number of other
  transactions. What is needed besides the guards is that no provider_only
  process is ever at `patching`; the `...OffDns` lemmas keep both together.

`HcloudRunsProofs`

* `EveryStepIsProgress`: `RunsGetShorter`. `Distance` counts what a process has
  before it: the steps of the table from its state, the calls of its step, or
  the rest of its remedy. Every step of it lowers this number, or stays in the
  quota loop with one address less on its list, and nothing else changes it but
  the crash that ends the run. This is the safety half of `EveryRunEnds`: no
  failure and no remedy of `_handle_failure` leads back into a state the run
  has worked on, so a run that keeps going ends. What is left to TLC is
  that a running process always has a step to take (ENABLED) and fairness.

`HcloudCutoverProofs`

* `HcloudCutover`: `Spec => ImplementsCutover`, for all transactions at once.
  The mapping is `dns`, and `cloudflare_apply` with its markers as a `claim`.
  `CutoverInv` is the strengthening: past its preflight a transaction has
  records, a PATCH is never under way without its announcement, and a claim
  that is made stays true. The `...Aside` lemmas say that all actions but those
  of the DNS half leave claim and records alone, `OtherRecords` that no action
  touches another transaction's, so each step is a step of one `t` or a stutter.

`CloudflareDnsProofs`

* `DnsInvariance`: `Spec => []IInv`. The four safety invariants need
  `LoopsFit` (the loops work on the account in front, in the stage of the
  operation), `MarkersFit` (a running apply has the front account's marker on
  disk, a run stays within its scope) and `ReadBackFits` (what the accounts
  already behind, and the read-back so far, have established). One lemma per
  action, one step per conjunct.
* `DnsTypeCorrect`, `PlanFollowsRead`, `ReplaceIsTruthful`,
  `MarkersAreEnough`, `CleanIsEarned` follow from it.
* `RollbackKeepsOut` is an action property, from the invariant and
  `WritesInFront`: a record that changes without an edit belongs
  to the account in front and goes to the new address.
* `RunsAreFinite`: `RunsGetShorter`, with sets for a measure: a step of a run
  ends it, takes an account off its queue, or leaves it with a later phase or
  fewer records for the account in front, or is a failed request.
* `DnsRefinement`: `Spec => ImplementsCutover`. `Summary` is where the
  records stand that some token sees, `Claimed` what the checkpoint says. It
  holds as long as nobody else has written (`edits = 0`), and so does
  `UndisturbedInv`, which it needs: what a run has written is on the new
  address, the manifest has every record that is not somebody else's and there
  is one, an apply in progress has marked every account it is done with, and
  one that is recorded has every record of the manifest on the new address. `UndisturbedForwards` turns
  `WritesInFront` into what a step may do to all the records; a first edit is
  the step `Disturb`, after which nothing is promised. What it says of the
  direction holds of the code as it is, double exchange included.

`DataForestRotationProofs`

* `Invariance`: `Spec => []IInv`. `IInv` adds to the types: `ControlInv` (where
  the process can be in which state), `AllocationInv` (with NEW on disk no
  further add is under way), `ServingInv` (what the apply half established
  lasts, since no rollback program runs in its states), `RollbackInv` (only NEW
  is asked to leave by a rollback, announced, in its states), `FinalizeInv` (OLD
  is asked to leave only after the announcement, and the announcement was made
  on the evidence) and `NamesInv`. One lemma per group of actions, one step per
  action, one leaf per part.
* `TypeCorrect`, `OneAddressGained`, `SeedIsKept`, `OldIsUnreferenced` and
  `NamesFollow` follow from it.
* `OldLeavesOnEvidence` and `HandoverRefinement` rest on the `...Quiet` lemmas:
  all but five actions leave the Seed and its announcements alone. The five
  are the announcements (`FinalizeCheck`, `RollbackSeed`, `StageProvider`), the
  provider (`ProviderImplements`) and the last save (`TransitionImplements`).

`DataForestRunsProofs`

* `DataForestRunsAreFinite`: `RunsGetShorter`, by a `Distance` as above. The one
  step that does not lower it is a POST sent again after its answer was lost.
  It uses `IInv` for the states in which a process can be at a counter.

`RotationWorkflowProofs`

* `Invariance`: `Spec => []IInv`, for any servers, transactions and faults.
  What an artifact says may be out of date; what a job knows of its box is not:
  its concurrency group admits one job per server, so nobody else moves the box
  while it runs. `JobFitsAddress` says so for each stage, for the dispatches
  that named the address the box is on, and of `restore_dns` and `undo_dns`, for
  every dispatch, that the box is back on OLD. `CheckpointsPlanned` keeps what a
  checkpoint refers to (`OldOf`) as it was planned. `GoOnInv`, `BeginInv` and
  `ArtifactsInv` are the three ways a job changes; every action is one of them.
* `TypeCorrect`, `RecordsFollow` and `RollbackUndoes` follow from it. Which
  artifact a lookup returns plays no part: it is enough that the address in it
  was compared with the typed one.
* `BoxesApart`: `Spec => []BoxesStayApart`, for dispatches with any address,
  right or out of date. `HomeInv` is inductive beside `IInv`: the address of a
  box and of its records, the old address of every transaction of it and the
  transaction of every job on it are the box's own (`Own`), which only grows,
  and the sets of two boxes are disjoint. It rests on the lookups comparing the
  server besides the address, as the mutant `StartRollbackUnnamed` shows.

Only model-checked: the liveness properties (`EveryRunEnds`,
`RollbackConverges`, `ApplyConverges`, `StagedRollbackConverges`,
`InterruptedRunCompletes`): fairness and ENABLED are beyond the prover. For
`EveryRunEnds`, `RunsGetShorter` proves all but these two. It is stated as
progress of each step; that a run is therefore finite also needs induction over
the distance and over finite sets of accounts and records, which is left to the
reader.

## 5. The plan

| step | module | what | state |
|---|---|---|---|
| 1 | `AddressSwap`, `HcloudRotation` and proofs | core of the system | done |
| 2 | `CloudflareDns` and proofs | records, accounts, markers | done |
| 3 | two rotations in one project | part of `HcloudRotation` | done |
| 4 | `AddressHandover`, `DataForestRotation` and proofs | staged apply, finalize, both rollbacks, asynchronous provider | done |
| 5 | `RotationWorkflow` | Hetzner jobs, artifacts, lookup of a resumable checkpoint, rollback pick | done |
| 6 | `NoWayBackLost`, `WayBackExists` | theorems for a lone rotation | done |
| 7 | DataForest job chain | hand-over of `rotation-state-guest`, `-dns`, `-prechecked` between its jobs | open |
| 8 | theorems about `RotationWorkflow` and `ProviderOnlyLeavesDns` | safety for any number of servers and transactions | done |
| 9 | `RunsGetShorter` | the safety half of termination, for the three machines | done |
| 10 | `DnsCutover` | what `HcloudRotation` assumes of the records, refined by both of its implementations | done |
| 11 | `NoWayBackLost`, `WayBackExists` for many rotations | under the room that makes them true | done |
| 12 | `BoxesStayApart` | isolation of servers in the workflow | done |

### Not modelled

* The artifacts of the DataForest jobs: their token environments and the order
  of their commands are in `DataForestRotation`, which starts every command
  from the last saved checkpoint.
* The inventory edit and its commit (`update_inventory.py`,
  `sync_inventory_repo.sh`): they change a file no modelled step reads back;
  `ip-change` itself is a step of `CloudflareDns` and `RotationWorkflow`.
* `dns-scan`, the `verify` job, status and summaries: they read.
* Configuration validation, redaction and the self-test: no state a rotation
  depends on; the change classifier, secret setup and CI: outside a rotation.
* Time: the age limits of markers and vouchers are `MarkerExpires` and
  `VouchExpires`, at any moment; the retry schedule is how often a call may
  fail.
