-------------------------- MODULE RotationWorkflow --------------------------
(***************************************************************************)
(* run.yml around the Hetzner rotation: the jobs swap, dns, resume_hcloud  *)
(* and rollback, the artifacts that carry a checkpoint from one run to the *)
(* next, find_resumable_checkpoint.py and stage.py.                        *)
(*                                                                         *)
(* A runner's disk lives as long as its job, so all a later run knows of a *)
(* transaction is the artifacts earlier jobs uploaded.  They expire, an    *)
(* upload can fail and a download can fail.  Each invocation of rotate.py  *)
(* is cut into the steps that matter here, with the outcomes that          *)
(* HcloudRotation.tla gives it.  The transactions are numbered as they are *)
(* planned, and number t gets the address t: an address a box has left is  *)
(* not handed out again.                                                   *)
(***************************************************************************)
EXTENDS Naturals, SequencesExt

CONSTANTS
  Boxes,      \* the servers; a box's first address is the box itself
  NoAddr,     \* the server has no public IPv4
  MaxTx,      \* bound on the transactions that are planned
  MaxFaults   \* bound on failed stages, lost uploads and lost downloads

ASSUME WorkflowAssumption ==
  /\ MaxTx \in Nat /\ MaxFaults \in Nat
  /\ NoAddr \notin Boxes \cup 1..MaxTx
  /\ Boxes \cap (1..MaxTx) = {}

VARIABLES
  addr,    \* the address a box is on
  names,   \* the address its DNS records hold
  plan,    \* the transactions: box, OLD, and whether provider-only
  store,   \* the checkpoint artifacts, oldest first
  job,     \* the run each box's concurrency group admits
  faults

vars == <<addr, names, plan, store, job, faults>>

Addresses == Boxes \cup 1..MaxTx

-----------------------------------------------------------------------------
(* Checkpoints, as far as the workflow looks into them: `at` is the state, *)
(* an escalated one being what resume_state says; `new` whether there is a *)
(* new_ip; `dns` whether ansible or an apply marker speaks of moved        *)
(* records; `back` whether rollback.state says that OLD is back.           *)

Early == {"planned", "midswap"}
Late  == {"connectivity_ok", "ansible_done", "cloudflare_replaced", "done"}
Undo  == {"needs_rollback", "rolled_back", "rollback_incomplete"}

Checkpoint == [tx : 1..MaxTx, at : Early \cup Late \cup Undo,
               new : BOOLEAN, dns : BOOLEAN, back : BOOLEAN]

OldOf(cp) == plan[cp.tx].old
BoxOf(cp) == plan[cp.tx].box
NewOf(cp) == cp.tx

Idle == [op |-> "idle"]

\* `step` is where in its command a job is: "rotate" at the next step of
\* rotate.py's table, "restore" and "restore_dns" in the two halves of the
\* remedy, "undo_dns" in the second command of the job rollback, "upload" in
\* the step that saves the checkpoint.
Steps == {"rotate", "restore", "restore_dns", "undo_dns", "upload"}

Jobs == {Idle} \cup
        [op : {"swap", "dns", "resume", "rollback"}, cp : Checkpoint,
         step : Steps, honest : BOOLEAN]

Fault   == faults < MaxFaults /\ faults' = faults + 1
NoFault == UNCHANGED faults

Runs(b, ops) == job[b].op \in ops /\ job[b].step = "rotate"
CpOf(b)      == job[b].cp

\* The job goes on at a step with the checkpoint cp on its disk.
GoOn(b, cp, step) ==
  job' = [job EXCEPT ![b] = [@ EXCEPT !.cp = cp, !.step = step]]

\* rotate.py left another state than the stage expects (stage.py: the exit
\* code or the state does not match), so that only the `always()` step runs.
StageFails(b, cp) == GoOn(b, cp, "upload")

Begin(b, op, cp, typed) ==
  job' = [job EXCEPT ![b] = [op |-> op, cp |-> cp, step |-> "rotate",
                             honest |-> typed = addr[b]]]

-----------------------------------------------------------------------------
(* The job swap.                                                           *)

\* rotate.py apply: the typed address is asserted against a live read.
StartSwap(b, only, typed) ==
  /\ job[b] = Idle /\ Len(plan) < MaxTx /\ typed = addr[b]
  /\ plan' = Append(plan, [box |-> b, old |-> addr[b], only |-> only])
  /\ Begin(b, "swap", [tx |-> Len(plan'), at |-> "planned", new |-> FALSE,
                       dns |-> FALSE, back |-> FALSE], typed)
  /\ UNCHANGED <<addr, names, store>> /\ NoFault

\* An empty manifest is refused before anything moves; so does any failure
\* of the preflights end the run.
SwapRefused(b) ==
  /\ Runs(b, {"swap"})
  /\ \/ ~plan[CpOf(b).tx].only /\ names[b] # addr[b] /\ NoFault
     \/ Fault
  /\ StageFails(b, CpOf(b))
  /\ UNCHANGED <<addr, names, plan, store>>

Swappable(b) == plan[CpOf(b).tx].only \/ names[b] = addr[b]

\* rc 6 at connectivity_ok: the box is on NEW.
SwapMoves(b) ==
  /\ Runs(b, {"swap"}) /\ Swappable(b)
  /\ addr' = [addr EXCEPT ![b] = NewOf(CpOf(b))]
  /\ GoOn(b, [CpOf(b) EXCEPT !.at = "connectivity_ok", !.new = TRUE], "upload")
  /\ UNCHANGED <<names, plan, store>> /\ NoFault

\* Escalated in the middle of the swap, or rolled back by rotate.py itself.
SwapBreaks(b) ==
  /\ Runs(b, {"swap"}) /\ Swappable(b)
  /\ \/ /\ addr' \in {[addr EXCEPT ![b] = a] :
                        a \in {addr[b], NoAddr, NewOf(CpOf(b))}}
        /\ StageFails(b, [CpOf(b) EXCEPT !.at = "midswap", !.new = TRUE])
     \/ /\ UNCHANGED addr
        /\ \E known \in BOOLEAN :
             StageFails(b, [CpOf(b) EXCEPT !.at = "rolled_back", !.new = known,
                                           !.back = TRUE])
  /\ Fault
  /\ UNCHANGED <<names, plan, store>>

-----------------------------------------------------------------------------
(* `rotate.py resume`, in the jobs dns and resume_hcloud.                  *)

Resumes(b, at) == Runs(b, {"dns", "resume"}) /\ CpOf(b).at = at

\* What the records may hold after a run over the transaction's manifest.
Patched(b) == IF names[b] = OldOf(CpOf(b)) THEN {names[b], NewOf(CpOf(b))}
                                           ELSE {names[b]}

SetNames(b, a) == names' = [names EXCEPT ![b] = a]

\* The inventory is synchronized, then `make ip-change` runs, or a node
\* outside the fleet is declared out of its scope, on a live identity check.
Inventory(b) ==
  /\ Resumes(b, "connectivity_ok")
  /\ \/ /\ \E a \in Patched(b) : SetNames(b, a)
        /\ \/ /\ GoOn(b, [CpOf(b) EXCEPT !.at = "ansible_done", !.dns = TRUE],
                      "rotate")
              /\ NoFault
           \/ StageFails(b, CpOf(b)) /\ Fault
     \/ /\ UNCHANGED names /\ NoFault
        /\ \/ /\ addr[b] = NewOf(CpOf(b))
              /\ GoOn(b, [CpOf(b) EXCEPT !.at = "ansible_done"], "rotate")
           \/ /\ addr[b] # NewOf(CpOf(b))
              /\ StageFails(b, CpOf(b))
  /\ UNCHANGED <<addr, plan, store>>

\* _step_cloudflare_replace: read back as NEW, or stopped on the way, or
\* refused because the records hold neither address.
Replace(b) ==
  /\ Resumes(b, "ansible_done")
  /\ LET tried == [CpOf(b) EXCEPT !.dns = TRUE]
     IN \/ /\ names[b] \in {OldOf(tried), NewOf(tried)}
           /\ SetNames(b, NewOf(tried))
           /\ GoOn(b, [tried EXCEPT !.at = "cloudflare_replaced"], "rotate")
           /\ NoFault
        \/ /\ \E a \in Patched(b) : SetNames(b, a)
           /\ StageFails(b, tried) /\ Fault
        \/ /\ names[b] \notin {OldOf(tried), NewOf(tried)}
           /\ UNCHANGED names
           /\ StageFails(b, tried) /\ NoFault
  /\ UNCHANGED <<addr, plan, store>>

-----------------------------------------------------------------------------
(* The remedy of the replace step, restore_old_ip: the box first, then the *)
(* records.  The stage fails once, whatever the remedy comes to, so that   *)
(* the failure is counted where the remedy begins.                         *)

Restores(b, step) == job[b].op \in {"dns", "resume"} /\ job[b].step = step

\* Where restore_old_ip can leave the box when a call of it fails: stopped
\* where it was, without an address, or on OLD but not started.
BrokenOff(b) == {addr[b], OldOf(CpOf(b))} \cup
                IF addr[b] = OldOf(CpOf(b)) THEN {} ELSE {NoAddr}

\* The answer of the replace step is unreadable: the records may have moved
\* or not, and the remedy begins with saving needs_rollback.
ReplaceUnreadable(b) ==
  /\ Resumes(b, "ansible_done")
  /\ \E a \in Patched(b) : SetNames(b, a)
  /\ GoOn(b, [CpOf(b) EXCEPT !.at = "needs_rollback", !.dns = TRUE], "restore")
  /\ Fault
  /\ UNCHANGED <<addr, plan, store>>

\* The box is on OLD again; the remedy goes on with the records.
RestoreAddress(b) ==
  /\ Restores(b, "restore")
  /\ addr' = [addr EXCEPT ![b] = OldOf(CpOf(b))]
  /\ GoOn(b, CpOf(b), "restore_dns")
  /\ UNCHANGED <<names, plan, store>> /\ NoFault

\* The remedy fails too, or dies: escalated, with rollback.state open.
RestoreBreaks(b) ==
  /\ Restores(b, "restore")
  /\ addr' \in {[addr EXCEPT ![b] = a] : a \in BrokenOff(b)}
  /\ StageFails(b, CpOf(b))
  /\ UNCHANGED <<names, plan, store>> /\ NoFault

\* _do_dns_rollback PATCHes the records that are on OLD to NEW (see
\* CloudflareDns.tla), and its verdict is saved, or it dies before that.
RestoreDns(b) ==
  /\ Restores(b, "restore_dns")
  /\ \E a \in Patched(b) : SetNames(b, a)
  /\ \/ \E verdict \in {"rolled_back", "rollback_incomplete"} :
          StageFails(b, [CpOf(b) EXCEPT !.at = verdict, !.back = TRUE])
     \/ StageFails(b, CpOf(b))
  /\ UNCHANGED <<addr, plan, store>> /\ NoFault

-----------------------------------------------------------------------------
(* The last step of `resume`.                                              *)

\* _step_verify asserts that the box is on NEW.
Verify(b) ==
  /\ Resumes(b, "cloudflare_replaced")
  /\ \/ /\ addr[b] = NewOf(CpOf(b))
        /\ GoOn(b, [CpOf(b) EXCEPT !.at = "done"], "upload") /\ NoFault
     \/ /\ addr[b] # NewOf(CpOf(b))
        /\ StageFails(b, CpOf(b)) /\ NoFault
     \/ StageFails(b, CpOf(b)) /\ Fault
  /\ UNCHANGED <<addr, names, plan, store>>

-----------------------------------------------------------------------------
(* The job resume_hcloud.                                                  *)

\* Mutant: only a run that stopped right after the swap is resumed.
ResumableEarly(cp, b, typed) ==
  /\ BoxOf(cp) = b /\ NewOf(cp) = typed
  /\ cp.at = "connectivity_ok" /\ ~plan[cp.tx].only

\* Mutant: the current address is not compared.
ResumableAnywhere(cp, b, typed) ==
  /\ BoxOf(cp) = b
  /\ cp.at \in Late \ {"done"} /\ ~plan[cp.tx].only

\* is_resumable: identity, a state that can advance, and a manifest, which
\* a provider-only run has not.  In Late there always is a new_ip.
Resumable(cp, b, typed) ==
  /\ BoxOf(cp) = b /\ NewOf(cp) = typed
  /\ cp.at \in Late \ {"done"} /\ ~plan[cp.tx].only

\* find_checkpoint, newest first: of the artifacts that can be read, the
\* first of each transaction counts.
Found(b, typed, unread) ==
  LET Read    == DOMAIN store \ unread
      Newest  == {i \in Read : \A j \in Read :
                                 j > i => store[j].tx # store[i].tx}
      Matches == {i \in Newest : Resumable(store[i], b, typed)}
  IN {store[i] : i \in {i \in Matches : \A j \in Matches : j <= i}}

\* Every artifact is read; or one cannot be, and is passed over.
StartResume(b, typed) ==
  /\ job[b] = Idle
  /\ \/ /\ \E cp \in Found(b, typed, {}) : Begin(b, "resume", cp, typed)
        /\ NoFault
     \/ /\ \E i \in DOMAIN store : \E cp \in Found(b, typed, {i}) :
             Begin(b, "resume", cp, typed)
        /\ Fault
  /\ UNCHANGED <<addr, names, plan, store>>

-----------------------------------------------------------------------------
(* The job rollback.                                                       *)

\* Where the checkpoint says that the box is now.
Now(cp) == IF cp.back \/ ~cp.new THEN OldOf(cp) ELSE NewOf(cp)

\* Mutant: the typed address is not compared.
StartRollbackAnywhere(b, typed) ==
  /\ job[b] = Idle /\ store # <<>>
  /\ LET cp == store[Len(store)]
     IN BoxOf(cp) = b /\ Begin(b, "rollback", cp, typed)
  /\ UNCHANGED <<addr, names, plan, store>> /\ NoFault

\* Mutant: the server is not compared.
StartRollbackUnnamed(b, typed) ==
  /\ job[b] = Idle /\ store # <<>>
  /\ LET cp == store[Len(store)]
     IN Now(cp) = typed /\ Begin(b, "rollback", cp, typed)
  /\ UNCHANGED <<addr, names, plan, store>> /\ NoFault

\* The newest artifact of the repository, whosever it is, must be of the
\* box and of the address that were typed.
StartRollback(b, typed) ==
  /\ job[b] = Idle /\ store # <<>>
  /\ LET cp == store[Len(store)]
     IN BoxOf(cp) = b /\ Now(cp) = typed /\ Begin(b, "rollback", cp, typed)
  /\ UNCHANGED <<addr, names, plan, store>> /\ NoFault

\* `rollback --no-dns-rollback`; whether the records follow is read from
\* the checkpoint.  A restore that breaks off leaves rollback.state open.
UndoSwap(b) ==
  /\ Runs(b, {"rollback"})
  /\ LET undone == [CpOf(b) EXCEPT !.at = "needs_rollback", !.back = TRUE]
     IN \/ /\ addr' = [addr EXCEPT ![b] = OldOf(undone)]
           /\ GoOn(b, undone, IF undone.dns THEN "undo_dns" ELSE "upload")
           /\ NoFault
        \/ /\ addr' \in {[addr EXCEPT ![b] = a] : a \in BrokenOff(b)}
           /\ StageFails(b, [undone EXCEPT !.back = FALSE])
           /\ Fault
  /\ UNCHANGED <<names, plan, store>>

\* `rollback --dns-rollback-only`: clean, or needs_rollback is kept.
UndoDns(b) ==
  /\ job[b].op = "rollback" /\ job[b].step = "undo_dns"
  /\ \E a \in Patched(b) : SetNames(b, a)
  /\ \/ GoOn(b, [CpOf(b) EXCEPT !.at = "rolled_back"], "upload") /\ NoFault
     \/ StageFails(b, CpOf(b)) /\ Fault
  /\ UNCHANGED <<addr, plan, store>>

-----------------------------------------------------------------------------
(* Artifacts.                                                              *)

\* An equal artifact that is there already is not kept twice.
Kept(cp) ==
  LET copies == {i \in DOMAIN store : store[i] = cp}
  IN IF copies = {} THEN store
                    ELSE RemoveAt(store, CHOOSE i \in copies : TRUE)

\* `if: always()`.  The job dns goes on in the same run after a swap that
\* stopped where it should, with the checkpoint it has just uploaded.
Upload(b) ==
  /\ job[b] # Idle /\ job[b].step = "upload"
  /\ store' = Append(Kept(CpOf(b)), CpOf(b))
  /\ job' = [job EXCEPT ![b] =
       IF job[b].op = "swap" /\ CpOf(b).at = "connectivity_ok"
             /\ ~plan[CpOf(b).tx].only
         THEN [job[b] EXCEPT !.op = "dns", !.step = "rotate"]
         ELSE Idle]
  /\ UNCHANGED <<addr, names, plan>> /\ NoFault

\* The upload fails, or the runner is lost with its disk.
JobLost(b) ==
  /\ job[b] # Idle
  /\ job' = [job EXCEPT ![b] = Idle] /\ Fault
  /\ UNCHANGED <<addr, names, plan, store>>

\* retention-days: the oldest goes first.
Expire ==
  /\ store # <<>> /\ store' = Tail(store)
  /\ UNCHANGED <<addr, names, plan, job>> /\ NoFault

-----------------------------------------------------------------------------
(* The specification.                                                      *)

Init ==
  /\ addr = [b \in Boxes |-> b]
  /\ names = [b \in Boxes |-> b]
  /\ plan = <<>> /\ store = <<>>
  /\ job = [b \in Boxes |-> Idle]
  /\ faults = 0

JobStep(b) ==
  \/ SwapRefused(b) \/ SwapMoves(b) \/ SwapBreaks(b)
  \/ Inventory(b) \/ Replace(b) \/ Verify(b)
  \/ ReplaceUnreadable(b) \/ RestoreAddress(b) \/ RestoreBreaks(b)
  \/ RestoreDns(b)
  \/ UndoSwap(b) \/ UndoDns(b) \/ Upload(b)

\* The operator types any address, the right one or one that is out of date.
Dispatch(b) ==
  \E typed \in Addresses :
    \/ \E only \in BOOLEAN : StartSwap(b, only, typed)
    \/ StartResume(b, typed)
    \/ StartRollback(b, typed)

Next == \/ \E b \in Boxes : Dispatch(b) \/ JobStep(b) \/ JobLost(b)
        \/ Expire

Spec == Init /\ [][Next]_vars

\* A job that runs goes on, and the operator keeps asking for `resume` with
\* the address the box is on.
RetrySpec ==
  /\ Spec
  /\ \A b \in Boxes : WF_vars(JobStep(b)) /\ SF_vars(StartResume(b, addr[b]))

-----------------------------------------------------------------------------
(* Properties.                                                             *)

\* Every variable keeps its range; a checkpoint holds a state of rotate.py.
TypeOK ==
  /\ addr \in [Boxes -> Addresses \cup {NoAddr}]
  /\ names \in [Boxes -> Addresses]
  /\ plan \in Seq([box : Boxes, old : Addresses, only : BOOLEAN])
  /\ store \in Seq(Checkpoint)
  /\ job \in [Boxes -> Jobs]
  /\ faults \in 0..MaxFaults

\* A checkpoint of a transaction that was planned.
Planned == [tx : 1..Len(plan), at : Early \cup Late \cup Undo,
            new : BOOLEAN, dns : BOOLEAN, back : BOOLEAN]

\* Artifacts and disks hold checkpoints of planned transactions only.
CheckpointsPlanned ==
  /\ store \in Seq(Planned) /\ Len(plan) <= MaxTx
  /\ \A b \in Boxes : job[b] # Idle => CpOf(b) \in Planned

\* Where a job has the box, by the stage it has reached.
JobFitsAddress ==
  \A b \in Boxes :
    /\ Runs(b, {"swap"}) => CpOf(b).at = "planned"
    /\ job[b].op = "swap" /\ job[b].step = "upload"
         /\ CpOf(b).at = "connectivity_ok" => addr[b] = NewOf(CpOf(b))
    /\ Runs(b, {"dns", "resume"}) /\ job[b].honest => addr[b] = NewOf(CpOf(b))
    /\ Runs(b, {"rollback"}) /\ job[b].honest => addr[b] = Now(CpOf(b))
    /\ job[b] # Idle /\ job[b].step \in {"restore_dns", "undo_dns"}
         => addr[b] = OldOf(CpOf(b))

\* The types with what the jobs know of the addresses: until a job is over,
\* nobody else moves its box, and nothing it read from an artifact changes.
IInv == TypeOK /\ CheckpointsPlanned /\ JobFitsAddress

\* The records are the second half of every command.  Forward, a dispatch
\* that named the address the box is on moves them to that address only,
\* however old the checkpoint is that was found: newer ones may have expired
\* or been lost with their upload or download.  In a remedy or a rollback
\* they are touched only when the box is back on OLD.
RecordsFollowBox ==
  [][ \A b \in Boxes : names'[b] # names[b] =>
        /\ Runs(b, {"dns", "resume"}) /\ job[b].honest => names'[b] = addr[b]
        /\ job[b].step # "rotate" => addr[b] = OldOf(CpOf(b)) ]_vars

\* A rollback that named the address the box is on undoes the move that put
\* it there and no other, although it takes the newest artifact there is.
RollbackUndoesLastMove ==
  [][ \A b \in Boxes :
        addr'[b] # addr[b] /\ Runs(b, {"rollback"}) /\ job[b].honest
          => /\ addr[b] = NewOf(CpOf(b))
             /\ addr'[b] \in {OldOf(CpOf(b)), NoAddr} ]_vars

\* Whatever address is typed and whichever artifact a lookup takes, one that
\* is out of date or the newest of all: no box comes to an address that
\* another one is on, and no box's records to one.
BoxesStayApart ==
  \A b, c \in Boxes :
    b # c /\ addr[b] # NoAddr => addr[b] # addr[c] /\ addr[b] # names[c]

\* The addresses a box has had or was promised.  They are all that its
\* transactions, its jobs, honest or not, and its records speak of.
Own(b) == {b} \cup {t \in 1..Len(plan) : plan[t].box = b}

BoxesHome == \A b \in Boxes : addr[b] \in Own(b) \cup {NoAddr} /\ names[b] \in Own(b)
PlansHome == \A t \in 1..Len(plan) : plan[t].old \in Own(plan[t].box)
JobsHome  == \A b \in Boxes : job[b] # Idle => BoxOf(CpOf(b)) = b

HomeInv == BoxesHome /\ PlansHome /\ JobsHome

\* The records are where the box's last move left them, and the newest
\* artifact of that transaction says that they wait.
Waiting(b) ==
  \E i \in DOMAIN store :
       /\ BoxOf(store[i]) = b /\ NewOf(store[i]) = addr[b]
       /\ names[b] = OldOf(store[i])
       /\ store[i].at \in {"connectivity_ok", "ansible_done"}
       /\ ~plan[store[i].tx].only
       /\ \A j \in DOMAIN store : j > i => store[j].tx # store[i].tx

\* A box that moved while its records did not, and that is neither moved
\* nor rolled back meanwhile, gets its records by repeated `resume`s, as
\* long as an artifact says so: no lost upload or failed stage is the end.
InterruptedRunCompletes == \A b \in Boxes : Waiting(b) ~> ~Waiting(b)

=============================================================================
