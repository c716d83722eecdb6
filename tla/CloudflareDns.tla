--------------------------- MODULE CloudflareDns ----------------------------
(***************************************************************************)
(* The DNS half of a rotation, record by record: rotate.py's preflight,    *)
(* replace, verify and rollback, and the apply and rollback operations of  *)
(* cloudflare_replace_ip_step.yml they run once per Cloudflare account.    *)
(*                                                                         *)
(* A playbook run reads every record of its account, refuses to write when *)
(* one is neither at the source nor at the target, PATCHes the ones at the *)
(* source and reads all of them back.  It writes its result file last, so  *)
(* a run that fails anywhere answers the same: no result, rc # 0.  Between *)
(* any two requests somebody else may write a record, and the process may  *)
(* die.  HcloudRotation has the server; here its steps between preflight   *)
(* and replace are only the ip-change run, which may move records itself.  *)
(***************************************************************************)
EXTENDS Naturals, FiniteSets

CONSTANTS
  Accounts,   \* credentials by their place in cloudflare.accounts
  Records,    \* A records, a (zone_id, record_id) pair each
  Sees,       \* [Accounts -> SUBSET Records], the zones a token covers
  Named,      \* [Accounts -> SUBSET Records], the account's allow-list
  Nobody,     \* owner of a record that is not in the manifest
  MaxEdits,   \* bound on writes by somebody else
  MaxFaults   \* bound on failed requests, lost effects and crashes

ASSUME DnsAssumption ==
  /\ Accounts \subseteq Nat
  /\ Sees \in [Accounts -> SUBSET Records]
  /\ Named \in [Accounts -> SUBSET Records]
  /\ Nobody \notin Accounts
  /\ MaxEdits \in Nat /\ MaxFaults \in Nat

VARIABLES
  \* the checkpoint: state, cloudflare_manifest (the owner of each record),
  \* ansible.rc, cloudflare_apply_started, cloudflare_apply,
  \* cloudflare_rollback
  stage, manifest, ansible, started, applied, verdict,
  \* the process: operation, accounts to go, records of the loop under way
  \* to go, records planned to be PATCHed, an account of this run failed
  pc, op, queue, left, todo, failed,
  \* Cloudflare
  live,
  \* history: records somebody else wrote since this transaction last read
  \* them, records the apply has PATCHed
  drift, moved,
  edits, faults

checkpoint == <<stage, manifest, ansible, started, applied, verdict>>
process    == <<pc, op, queue, left, todo, failed>>
history    == <<drift, moved>>
vars       == <<stage, manifest, ansible, started, applied, verdict,
                pc, op, queue, left, todo, failed,
                live, drift, moved, edits, faults>>

-----------------------------------------------------------------------------
(* Helpers.                                                                *)

NoManifest == [r \in Records |-> Nobody]
InManifest == {r \in Records : manifest[r] # Nobody}
Subset(a)  == {r \in Records : manifest[r] = a}
Owners     == {manifest[r] : r \in InManifest}

\* The account whose turn it is.
Front(a) == a \in queue /\ \A b \in queue : a <= b

Fault   == faults < MaxFaults /\ faults' = faults + 1
NoFault == UNCHANGED faults

\* The arguments rotate.py passes: rollback exchanges the two addresses.
Args(o) == IF o = "apply" THEN [old_ip |-> "old", new_ip |-> "new"]
                          ELSE [old_ip |-> "new", new_ip |-> "old"]

\* What the playbook takes them for: rollback moves new_ip to old_ip.
Source(o) == IF o = "apply" THEN Args(o).old_ip ELSE Args(o).new_ip
Target(o) == IF o = "apply" THEN Args(o).new_ip ELSE Args(o).old_ip

Idle == /\ pc' = "idle" /\ queue' = {} /\ left' = {} /\ todo' = {}
        /\ failed' = FALSE /\ UNCHANGED op

Begin(o, accounts) ==
  /\ pc' = "next" /\ op' = o /\ queue' = accounts
  /\ left' = {} /\ todo' = {} /\ failed' = FALSE

-----------------------------------------------------------------------------
(* Preflight: one discover per account, the manifest saved at the end.     *)

Preflight ==
  /\ pc = "idle" /\ stage = "confirmed"
  /\ pc' = "scan" /\ queue' = Accounts
  /\ UNCHANGED <<checkpoint, op, left, todo, failed, live, history, edits>>
  /\ NoFault

\* A record that two tokens see belongs to the account that saw it first.
Claim(a, found) ==
  [r \in Records |-> IF r \in found /\ manifest[r] = Nobody THEN a ELSE manifest[r]]

\* Every A record on the old address that the token sees, the named ones
\* among them.
Discover(a) ==
  /\ pc = "scan" /\ Front(a)
  /\ LET found == {r \in Sees[a] : live[r] = "old"}
     IN \/ /\ Named[a] \subseteq found
           /\ manifest' = Claim(a, found)
           /\ queue' = queue \ {a}
           /\ UNCHANGED <<pc, op, left, todo, failed>> /\ NoFault
        \/ /\ ~(Named[a] \subseteq found) /\ NoFault
           /\ manifest' = NoManifest /\ Idle
        \/ /\ manifest' = NoManifest /\ Idle /\ Fault
  /\ drift' = drift \ Sees[a]
  /\ UNCHANGED <<stage, ansible, started, applied, verdict, live, moved, edits>>

\* A full change-ip with nothing to move is refused.
Preflighted ==
  /\ pc = "scan" /\ queue = {}
  /\ stage' = IF InManifest = {} THEN stage ELSE "preflighted"
  /\ Idle
  /\ UNCHANGED <<manifest, ansible, started, applied, verdict, live, history, edits>>
  /\ NoFault

-----------------------------------------------------------------------------
(* `make ip-change`: it ends, fails or dies with its process; or it is     *)
(* declared out of scope.                                                  *)

IpChange ==
  /\ pc = "idle" /\ stage = "preflighted"
  /\ \E S \in SUBSET {r \in Records : live[r] = "old"} :
       /\ live' = [r \in Records |-> IF r \in S THEN "new" ELSE live[r]]
       /\ drift' = drift \cup S
  /\ \/ ansible' = "ok" /\ stage' = "ansible_done" /\ NoFault
     \/ ansible' \in {ansible, "failed"} /\ UNCHANGED stage /\ Fault
  /\ UNCHANGED <<manifest, started, applied, verdict, process, moved, edits>>

DeclareAnsible ==
  /\ pc = "idle" /\ stage = "preflighted"
  /\ ansible' = "skipped" /\ stage' = "ansible_done"
  /\ UNCHANGED <<manifest, started, applied, verdict, process, live, history, edits>>
  /\ NoFault

-----------------------------------------------------------------------------
(* Apply and rollback, account by account.                                 *)

StartApply ==
  /\ pc = "idle" /\ stage = "ansible_done"
  /\ Begin("apply", Owners)
  /\ UNCHANGED <<checkpoint, live, history, edits>> /\ NoFault

DnsWasDone == ansible = "ok" \/ started # {}

\* Mutant: the markers are not looked at.
EligibleAll == Owners

\* Accounts with a marker, or all of them when no marker is on disk.
Eligible == IF started # {} THEN Owners \cap started ELSE Owners

\* A missing token refuses the whole DNS half.
StartRollback ==
  /\ pc = "idle" /\ DnsWasDone
  /\ \/ /\ Begin("rollback", Eligible) /\ stage' = "needs_rollback"
        /\ UNCHANGED verdict /\ NoFault
     \/ /\ stage' = "rollback_incomplete" /\ verdict' = "incomplete" /\ Fault
        /\ UNCHANGED process
  /\ UNCHANGED <<manifest, ansible, started, applied, live, history, edits>>

\* run.yml's rollback job: after the provider half, if there was any DNS
\* work, dns_rollback_only in a process of its own, which wants a marker.
StartDnsOnly ==
  /\ pc = "idle" /\ DnsWasDone
  /\ \/ /\ started = {}
        /\ stage' = "rolled_back" /\ verdict' = "skipped"
        /\ UNCHANGED process
     \/ /\ started # {}
        /\ Begin("dns_only", Eligible) /\ stage' = "needs_rollback"
        /\ UNCHANGED verdict
  /\ UNCHANGED <<manifest, ansible, started, applied, live, history, edits>>
  /\ NoFault

\* Mutant: one marker for the whole apply, named for its first account.
RunAccountUnmarked(a) ==
  /\ pc = "next" /\ Front(a)
  /\ started' = IF op = "apply" /\ started = {} THEN {a} ELSE started
  /\ pc' = "read" /\ left' = Subset(a) /\ todo' = {}
  /\ UNCHANGED <<stage, manifest, ansible, applied, verdict,
                 op, queue, failed, live, history, edits>> /\ NoFault

\* The apply's marker is saved before the account's subprocess starts.
RunAccount(a) ==
  /\ pc = "next" /\ Front(a)
  /\ started' = IF op = "apply" THEN started \cup {a} ELSE started
  /\ pc' = "read" /\ left' = Subset(a) /\ todo' = {}
  /\ UNCHANGED <<stage, manifest, ansible, applied, verdict,
                 op, queue, failed, live, history, edits>> /\ NoFault

\* Mutant: an account that raised is logged and forgotten.
RunFailsUnnoted(a) ==
  IF op = "apply"
    THEN Idle
    ELSE /\ pc' = "next" /\ queue' = queue \ {a}
         /\ left' = {} /\ todo' = {} /\ UNCHANGED <<op, failed>>

\* The playbook ended without a result file: apply escalates, rollback notes
\* it and goes on with the next account.
RunFails(a) ==
  IF op = "apply"
    THEN Idle
    ELSE /\ pc' = "next" /\ queue' = queue \ {a} /\ failed' = TRUE
         /\ left' = {} /\ todo' = {} /\ UNCHANGED op

\* Mutant: whatever is not at the target is planned for a PATCH.
ReadUnclassified(a, r) ==
  /\ pc = "read" /\ Front(a) /\ r \in left
  /\ todo' = IF live[r] # Target(op) THEN todo \cup {r} ELSE todo
  /\ left' = left \ {r}
  /\ pc' = IF left' = {} THEN "patch" ELSE "read"
  /\ drift' = drift \ {r}
  /\ UNCHANGED <<checkpoint, op, queue, failed, live, moved, edits>> /\ NoFault

\* Mutant: a record that is at the target already counts as drift.
ReadAtSource(a, r) ==
  /\ pc = "read" /\ Front(a) /\ r \in left
  /\ \/ /\ live[r] = Source(op)
        /\ todo' = todo \cup {r} /\ left' = left \ {r}
        /\ pc' = IF left' = {} THEN "patch" ELSE "read"
        /\ UNCHANGED <<op, queue, failed>>
     \/ /\ live[r] # Source(op)
        /\ RunFails(a)
  /\ drift' = drift \ {r}
  /\ UNCHANGED <<checkpoint, live, moved, edits>> /\ NoFault

\* One GET of the loop that classifies every record before any is written.
Read(a, r) ==
  /\ pc = "read" /\ Front(a) /\ r \in left
  /\ \/ /\ live[r] \in {Source(op), Target(op)}
        /\ todo' = IF live[r] = Source(op) THEN todo \cup {r} ELSE todo
        /\ left' = left \ {r}
        /\ pc' = IF left' = {} THEN "patch" ELSE "read"
        /\ UNCHANGED <<op, queue, failed>>
     \/ /\ live[r] \notin {Source(op), Target(op)}
        /\ RunFails(a)
  /\ drift' = drift \ {r}
  /\ UNCHANGED <<checkpoint, live, moved, edits>> /\ NoFault

\* One PATCH; it may answer 200 and do nothing.
Patch(r) ==
  /\ pc = "patch" /\ r \in todo /\ live[r] # "gone"
  /\ \/ live' = [live EXCEPT ![r] = Target(op)] /\ NoFault
     \/ UNCHANGED live /\ Fault
  /\ todo' = todo \ {r}
  /\ moved' = IF op = "apply" THEN moved \cup {r} ELSE moved
  /\ UNCHANGED <<checkpoint, pc, op, queue, left, failed, drift, edits>>

\* The record is not there any more.
PatchRefused(a, r) ==
  /\ pc = "patch" /\ Front(a) /\ r \in todo /\ live[r] = "gone"
  /\ RunFails(a)
  /\ UNCHANGED <<checkpoint, live, history, edits>> /\ NoFault

Patched(a) ==
  /\ pc = "patch" /\ Front(a) /\ todo = {}
  /\ pc' = "back" /\ left' = Subset(a)
  /\ UNCHANGED <<checkpoint, op, queue, todo, failed, live, history, edits>>
  /\ NoFault

\* Mutant: the answers of the PATCHes are believed.
ReadBackTrusting(a, r) ==
  /\ pc = "back" /\ Front(a) /\ r \in left
  /\ left' = left \ {r}
  /\ drift' = drift \ {r}
  /\ UNCHANGED <<checkpoint, pc, op, queue, todo, failed, live, moved, edits>>
  /\ NoFault

\* Mutant: a record found off the target is PATCHed again, in place.
ReadBackAgain(a, r) ==
  /\ pc = "back" /\ Front(a) /\ r \in left
  /\ IF live[r] = Target(op)
       THEN left' = left \ {r} /\ UNCHANGED <<pc, todo>>
       ELSE pc' = "patch" /\ todo' = {r} /\ left' = {}
  /\ drift' = drift \ {r}
  /\ UNCHANGED <<checkpoint, op, queue, failed, live, moved, edits>> /\ NoFault

\* One GET of the read-back: apply asserts, rollback collects what is
\* incomplete, a record that is gone fails both.
ReadBack(a, r) ==
  /\ pc = "back" /\ Front(a) /\ r \in left
  /\ \/ /\ live[r] = Target(op) \/ (op # "apply" /\ live[r] # "gone")
        /\ left' = left \ {r}
        /\ failed' = (failed \/ live[r] # Target(op))
        /\ UNCHANGED <<pc, op, queue, todo>>
     \/ /\ live[r] # Target(op) /\ (op = "apply" \/ live[r] = "gone")
        /\ RunFails(a)
  /\ drift' = drift \ {r}
  /\ UNCHANGED <<checkpoint, live, moved, edits>> /\ NoFault

\* The result is accepted, or unreadable: with_retries runs it once more.
AccountDone(a) ==
  /\ pc = "back" /\ left = {} /\ Front(a)
  /\ \/ /\ pc' = "next" /\ queue' = queue \ {a}
        /\ UNCHANGED left /\ NoFault
     \/ /\ pc' = "read" /\ left' = Subset(a)
        /\ UNCHANGED queue /\ Fault
  /\ UNCHANGED <<checkpoint, op, todo, failed, live, history, edits>>

\* A request fails, with or without its effect.  The loop goes on over the
\* other records before the play fails; as the order of the records is open,
\* ending here leaves no outcome out.
RequestFails(a) ==
  /\ pc \in {"read", "patch", "back"} /\ Front(a)
  /\ \/ UNCHANGED <<live, moved>>
     \/ \E r \in todo :
          /\ pc = "patch" /\ live[r] # "gone"
          /\ live' = [live EXCEPT ![r] = Target(op)]
          /\ moved' = IF op = "apply" THEN moved \cup {r} ELSE moved
  /\ RunFails(a) /\ Fault
  /\ UNCHANGED <<checkpoint, drift, edits>>

\* cloudflare_apply is saved, then the state.
RecordApply ==
  /\ pc = "next" /\ queue = {} /\ op = "apply"
  /\ applied' = "ok" /\ pc' = "applied"
  /\ UNCHANGED <<stage, manifest, ansible, started, verdict,
                 op, queue, left, todo, failed, live, history, edits>> /\ NoFault

Replaced ==
  /\ pc = "applied"
  /\ stage' = "replaced" /\ Idle
  /\ UNCHANGED <<manifest, ansible, started, applied, verdict, live, history, edits>>
  /\ NoFault

\* Mutant: the verdict is saved as the state.
RecordRollbackVerdict ==
  /\ pc = "next" /\ queue = {} /\ op # "apply"
  /\ verdict' = IF failed THEN "incomplete" ELSE "clean"
  /\ stage' = verdict'
  /\ Idle
  /\ UNCHANGED <<manifest, ansible, started, applied, live, history, edits>>
  /\ NoFault

\* cloudflare_rollback is saved, then the state, unless the process dies in
\* between; dns_rollback_only leaves an incomplete rollback open.
RecordRollback ==
  /\ pc = "next" /\ queue = {} /\ op # "apply"
  /\ verdict' = IF failed THEN "incomplete" ELSE "clean"
  /\ \/ /\ stage' = CASE ~failed                     -> "rolled_back"
                      [] failed /\ op = "rollback"   -> "rollback_incomplete"
                      [] OTHER                       -> stage
        /\ NoFault
     \/ UNCHANGED stage /\ Fault
  /\ Idle
  /\ UNCHANGED <<manifest, ansible, started, applied, live, history, edits>>

\* _step_verify compares the manifest the apply saved, not Cloudflare.
Verify ==
  /\ pc = "idle" /\ stage = "replaced"
  /\ stage' = "done"
  /\ UNCHANGED <<manifest, ansible, started, applied, verdict, process,
                 live, history, edits>> /\ NoFault

-----------------------------------------------------------------------------
(* The environment.                                                        *)

\* Somebody else writes a record, or deletes it for good.
Edit(r) ==
  /\ edits < MaxEdits /\ edits' = edits + 1
  /\ live[r] # "gone"
  /\ \E c \in {"old", "new", "other", "gone"} \ {live[r]} :
       live' = [live EXCEPT ![r] = c]
  /\ drift' = drift \cup {r}
  /\ UNCHANGED <<checkpoint, process, moved, faults>>

Crash ==
  /\ pc # "idle" /\ Idle /\ Fault
  /\ manifest' = IF pc = "scan" THEN NoManifest ELSE manifest
  /\ UNCHANGED <<stage, ansible, started, applied, verdict, live, history, edits>>

-----------------------------------------------------------------------------
(* The specification.                                                      *)

Init ==
  /\ stage = "confirmed" /\ manifest = NoManifest /\ ansible = "none"
  /\ started = {} /\ applied = "none" /\ verdict = "none"
  /\ pc = "idle" /\ op = "apply" /\ queue = {} /\ left = {} /\ todo = {}
  /\ failed = FALSE
  /\ live \in [Records -> {"old", "other"}]
  /\ drift = {} /\ moved = {} /\ edits = 0 /\ faults = 0

Command == \/ Preflight \/ IpChange \/ DeclareAnsible \/ StartApply
           \/ StartRollback \/ StartDnsOnly \/ Verify

AccountStep(a) ==
  \/ Discover(a) \/ RunAccount(a) \/ Patched(a) \/ AccountDone(a) \/ RequestFails(a)
  \/ \E r \in Records : Read(a, r) \/ PatchRefused(a, r) \/ ReadBack(a, r)

Process ==
  \/ Preflighted \/ RecordApply \/ Replaced \/ RecordRollback
  \/ \E a \in Accounts : AccountStep(a)
  \/ \E r \in Records : Patch(r)

Environment == Crash \/ \E r \in Records : Edit(r)

Next == Command \/ Process \/ Environment

Spec == Init /\ [][Next]_vars

\* A started process runs, and the operator resumes an apply that is owed.
RetrySpec == Spec /\ WF_vars(Process) /\ SF_vars(StartApply)

-----------------------------------------------------------------------------
(* Properties.                                                             *)

Stages == {"confirmed", "preflighted", "ansible_done", "replaced", "done",
           "needs_rollback", "rolled_back", "rollback_incomplete"}

CheckpointOK ==
  /\ stage \in Stages
  /\ manifest \in [Records -> Accounts \cup {Nobody}]
  /\ ansible \in {"none", "ok", "failed", "skipped"}
  /\ started \in SUBSET Accounts
  /\ applied \in {"none", "ok"}
  /\ verdict \in {"none", "clean", "incomplete", "skipped"}

ProcessOK ==
  /\ pc \in {"idle", "scan", "next", "read", "patch", "back", "applied"}
  /\ op \in {"apply", "rollback", "dns_only"}
  /\ queue \in SUBSET Accounts
  /\ left \in SUBSET Records /\ todo \in SUBSET Records
  /\ failed \in BOOLEAN

\* Every variable has its type; the counters stay within their bounds.
TypeOK ==
  /\ CheckpointOK /\ ProcessOK
  /\ live \in [Records -> {"old", "new", "other", "gone"}]
  /\ drift \in SUBSET Records /\ moved \in SUBSET Records
  /\ edits \in 0..MaxEdits /\ faults \in 0..MaxFaults

\* A record is planned for a PATCH only as this run saw it: at the source,
\* unless somebody wrote it after the GET (classify, fail closed, PATCH).
PlanIsFresh == \A r \in todo : live[r] = Source(op) \/ r \in drift

\* A replace that is on disk happened: every record of the manifest, of every
\* account, is on the new address or was written by somebody else after its
\* read-back (_step_cloudflare_replace, through crashes and resumes).
ReplacedIsTrue ==
  stage \in {"replaced", "done"} =>
    \A r \in InManifest : live[r] = "new" \/ r \in drift

\* The markers on disk cover every record an apply has PATCHed, whenever it
\* died: they are what the rollback goes by.
MarkersCoverMoves == \A r \in moved : manifest[r] \in started

\* A clean verdict means that every account that may have been touched was
\* gone through and every record read back at the address the run was aiming
\* at; one account that failed is enough for `incomplete` (_do_dns_rollback).
CleanIsReadBack ==
  stage = "rolled_back" /\ verdict = "clean" =>
    \A r \in InManifest : manifest[r] \in Eligible =>
      live[r] = Target("rollback") \/ r \in drift

\* Once there are markers, no rollback writes a record of an account whose
\* apply was never dispatched.
RollbackStaysInMarkers ==
  [][ op # "apply" /\ started # {} /\ edits' = edits =>
        \A r \in Records : live'[r] # live[r] => manifest[r] \in started ]_vars

\* An apply that died, or failed, half-way through its accounts is finished
\* by running it again: records it moved before are recognised.  Only
\* somebody else's write can stand in its way.
ApplyConverges ==
  stage = "ansible_done" ~> stage # "ansible_done" \/ edits > 0

\* The records some token of the configuration sees, in one word.
Visible == UNION {Sees[a] : a \in Accounts}
SomeAt(c) == \E r \in Visible : live[r] = c
Summary == CASE SomeAt("old") /\ ~SomeAt("new") -> "old"
             [] SomeAt("old") /\ SomeAt("new")  -> "mixed"
             [] ~SomeAt("old") /\ SomeAt("new") -> "new"
             [] OTHER                           -> "none"

Claimed == CASE applied = "ok" -> "ok"
             [] applied # "ok" /\ started # {} -> "started"
             [] OTHER -> "none"

Cutover == INSTANCE DnsCutover WITH Tx      <- {"this"},
                                    records <- [t \in {"this"} |-> Summary],
                                    claim   <- [t \in {"this"} |-> Claimed],
                                    foreign <- [t \in {"this"} |-> edits > 0]

\* Account by account and record by record, with tokens that overlap, this
\* is the DnsCutover HcloudRotation relies on, until somebody else writes.
ImplementsCutover == Cutover!Spec

\* What an account has before it, and what the loop under way has to go.
Phase == CASE pc = "read"  -> 3
           [] pc = "patch" -> 2
           [] pc = "back"  -> 1
           [] pc = "applied" -> 0
           [] OTHER -> 4
ToGo == IF pc = "patch" THEN todo ELSE left

\* The process has ended, has an account less to go, or is further on with
\* the account it is at.
Nearer ==
  \/ pc # "idle" /\ pc' = "idle"
  \/ pc # "idle" /\ queue' \subseteq queue /\ queue' # queue
  \/ queue' = queue /\ Phase' < Phase
  \/ queue' = queue /\ Phase' = Phase /\ ToGo' \subseteq ToGo /\ ToGo' # ToGo

SameRun == UNCHANGED process

\* A run over the accounts goes back only when a request failed: whatever
\* Cloudflare holds and whoever writes it, each step of scan, classify, PATCH,
\* read-back and verdict has less before it, and nobody else lengthens it.
RunsGetShorter ==
  [][ /\ Process => Nearer \/ faults' > faults
      /\ pc # "idle" => Nearer \/ SameRun \/ faults' > faults ]_vars

-----------------------------------------------------------------------------
(* The inductive invariant behind the safety properties.                   *)

Running == pc \in {"next", "read", "patch", "back", "applied"}

\* The accounts the running operation set out to go through.
Scope == IF op = "apply" THEN Owners ELSE Eligible

\* The loops work on the account in front, in the stage of the operation.
LoopsFit ==
  /\ \A r \in todo \cup left : Front(manifest[r])
  /\ todo \cap left = {}
  /\ pc \notin {"read", "patch"} => todo = {}
  /\ pc \notin {"read", "back"} => left = {}
  /\ pc = "scan" => stage = "confirmed"
  /\ Running => stage = IF op = "apply" THEN "ansible_done" ELSE "needs_rollback"
  /\ pc = "applied" => op = "apply" /\ queue = {}
  /\ op = "apply" \/ ~Running => ~failed

\* Markers come with the first apply; a run has only accounts of its scope
\* to go, and the front account of an apply has its marker.
MarkersFit ==
  /\ stage \in {"confirmed", "preflighted"} => started = {} /\ moved = {}
  /\ Running => queue \subseteq Scope
  /\ op = "apply" /\ pc \in {"read", "patch", "back"} =>
       \A a \in Accounts : Front(a) => a \in started

\* A record at the address the run aims at, but for what others wrote.
Arrived(r) == live[r] = Target(op) \/ r \in drift

\* What the accounts behind, and the read-back so far, have established.
ReadBackFits ==
  ~failed =>
    /\ Running => \A r \in InManifest : manifest[r] \in Scope \ queue => Arrived(r)
    /\ pc = "back" => \A r \in Records : Front(manifest[r]) /\ r \notin left => Arrived(r)

\* All of it together is inductive.
IInv ==
  /\ TypeOK /\ LoopsFit /\ MarkersFit /\ ReadBackFits
  /\ PlanIsFresh /\ ReplacedIsTrue /\ MarkersCoverMoves /\ CleanIsReadBack

\* While nobody else writes: records leave the old address for the new one
\* only, the manifest has all that were there, and what an apply recorded is
\* still so.
UndisturbedInv ==
  /\ \A r \in Records : live[r] \in {"old", "new", "other"}
  /\ \A r \in drift : live[r] = "new"
  /\ stage = "confirmed" =>
       applied = "none" /\ ansible = "none" /\ \A r \in Records : live[r] # "new"
  /\ pc = "scan" => \A a \in Accounts \ queue : \A r \in Sees[a] :
       live[r] = "old" => manifest[r] # Nobody
  /\ \A r \in InManifest : r \in Visible /\ live[r] # "other"
  /\ stage # "confirmed" =>
       /\ InManifest # {}
       /\ \A r \in Visible : live[r] # "other" => r \in InManifest
  /\ op = "apply" /\ Running => Owners \ queue \subseteq started
  /\ applied = "ok" => started # {} /\ \A r \in InManifest : live[r] = "new"

CutoverInv == edits = 0 => UndisturbedInv

-----------------------------------------------------------------------------
(* Sentences of the repository the code does not keep.                     *)

\* tests/test_cloudflare_playbook.py: rollback's old_ip is "the BASELINE we
\* are returning to"; rotate.py logs "every allowlisted A is back on the old
\* IP" for a clean verdict.
CleanMeansBack ==
  verdict = "clean" => \A r \in InManifest : manifest[r] \in started => live[r] # "new"

\* _step_verify: an edit between apply and verify "can drift the wire"; "the
\* state machine should know about it".
VerifySeesDrift == [][Verify => \A r \in InManifest : live[r] = "new"]_vars

=============================================================================
