--------------------------- MODULE V4WriteSession ---------------------------
(***************************************************************************)
(* The v4 write session: one operation replaces or deletes several         *)
(* artifacts of an authority, and the idempotency ledger next to it,       *)
(* through a journal that holds every proposed body, files staged beside   *)
(* their targets, and a runtime manifest published by compare-and-swap.    *)
(*                                                                         *)
(* Processes are programs that open one runtime.  A command reads the      *)
(* authority without any lease, builds a proposal from what it read, and   *)
(* commits it under the writer lease, which it never waits for.  A pending *)
(* journal is only ever completed: nothing is rolled back.  One step is    *)
(* one read of the authority or one change of a file.                      *)
(*                                                                         *)
(* A body stands for its SHA-256 digest and a manifest for its own: two    *)
(* are equal iff their digests are.  Body 0 is what the authority starts   *)
(* with, body n what the n-th operation writes.                            *)
(***************************************************************************)
EXTENDS Naturals

CONSTANTS
    Procs,          \* programs that open the runtime
    NoProc,         \* nobody holds the writer lease
    Artifacts,      \* records and stream segments of the authority
    Ledger,         \* the idempotency ledger, in the runtime directory
    ExternalBodies, \* bodies an external writer gives an artifact
    Absent,         \* no such file
    Torn,           \* a staged file whose bytes were not all written
    RawRace,        \* TRUE: an external writer may act between a target's
                    \* comparison and its replacement
    MaxCommits,     \* bound: operations proposed
    MaxEdits,       \* bound: external edits
    MaxFaults       \* bound: crashes and failing files together

Targets == Artifacts \cup {Ledger}
Own == 0 .. MaxCommits
Bodies == Own \cup ExternalBodies \cup {Absent}

ASSUME ProcessesAssumption == NoProc \notin Procs
ASSUME ArtifactsAssumption == Artifacts # {} /\ Ledger \notin Artifacts
ASSUME ContentAssumption ==
    /\ ExternalBodies \cap Nat = {}
    /\ Absent \notin Nat \cup ExternalBodies
    /\ Torn \notin Nat \cup ExternalBodies \cup {Absent}
ASSUME LimitsAssumption ==
    /\ RawRace \in BOOLEAN
    /\ MaxCommits \in Nat
    /\ MaxEdits \in Nat
    /\ MaxFaults \in Nat

VARIABLES
    files,    \* the authority's artifacts and the ledger
    author,   \* who changed each of them last (history variable)
    stage,    \* the files staged beside them
    journal,  \* write-journal.v2.json
    jstage,   \* whether write-journal.v2.json.stage exists
    manifest, \* authority-manifest.v2.json
    recorded, \* the ledger of the operation in force (history variable)
    lease,    \* the holder of writer.lock
    pc,       \* where each process is
    txn,      \* what its running call holds
    mem,      \* the baseline it is bound to between calls
    used      \* how much of each bound is spent

runtime == <<journal, jstage, manifest, recorded>>
disk == <<files, author, stage, runtime>>
vars == <<disk, lease, pc, txn, mem, used>>

-----------------------------------------------------------------------------
(* Manifests, proposals and journals *)

NoWrites == [t \in {} |-> 0]
Writes == UNION {[S -> Bodies] : S \in SUBSET Targets}
Rosters == [Artifacts -> Bodies]
Manifest(generation, roster) == [generation |-> generation, roster |-> roster]
NoManifest == Manifest(0, NoWrites)

Overlay(roster, writes) ==
    [a \in Artifacts |-> IF a \in DOMAIN writes THEN writes[a] ELSE roster[a]]
Authority == [a \in Artifacts |-> files[a]]

NoJournal == [phase |-> "none", base |-> NoManifest, want |-> NoManifest,
              expect |-> NoWrites, writes |-> NoWrites]
Pending == journal.phase # "none"
Published == journal.phase \in {"manifest-published", "generation-published"}

\* read_v4 refuses an authority that holds anything but its artifacts: a file
\* staged in it, or left there, makes it unreadable.
Readable == \A a \in Artifacts : stage[a] = Absent
\* _actual_manifest is the given one.
ActualIs(m) == Readable /\ Authority = m.roster

\* _verify_recovery_state: what the journal does not name is as it was, and
\* what it names is as it was or as it is to be.
StateVerified ==
    /\ \A a \in Artifacts \ DOMAIN journal.writes :
           files[a] = journal.base.roster[a]
    /\ \A t \in DOMAIN journal.writes :
           files[t] \in {journal.expect[t], journal.writes[t]}

NoTxn == [op |-> "none", base |-> NoManifest, ledger |-> Absent,
          writes |-> NoWrites, expect |-> NoWrites, want |-> NoManifest,
          goal |-> "none", todo |-> {}, staged |-> {}, target |-> {}]
Unbound == [base |-> NoManifest, ledger |-> Absent, admitted |-> FALSE]

-----------------------------------------------------------------------------
(* Entering and leaving a call *)

Goto(p, label) == pc' = [pc EXCEPT ![p] = label]
\* StorageWriterLease.release, or the end of the process that held it.
Freed(p) == IF lease = p THEN NoProc ELSE lease

Begin(p, op, label) ==
    /\ pc[p] = "idle"
    /\ Goto(p, label)
    /\ txn' = [txn EXCEPT ![p].op = op]

\* An exception ends the call; the lease is released on the way out.
Leave(p) ==
    /\ Goto(p, "idle")
    /\ txn' = [txn EXCEPT ![p] = NoTxn]
    /\ lease' = Freed(p)
    /\ UNCHANGED <<files, author, manifest, recorded, mem>>
Refuse(p) == Leave(p) /\ UNCHANGED <<stage, journal, jstage, used>>

\* _cleanup_stages: the files this call staged and did not use.
WithoutStages(p) ==
    [t \in Targets |-> IF t \in txn[p].staged THEN Absent ELSE stage[t]]

\* Mutant: the journal is given up with the call.
RefuseAndForget(p) ==
    /\ Leave(p)
    /\ stage' = WithoutStages(p)
    /\ journal' = NoJournal
    /\ UNCHANGED <<jstage, used>>
RefuseAndCleanUp(p) ==
    /\ Leave(p)
    /\ stage' = WithoutStages(p)
    /\ UNCHANGED <<journal, jstage, used>>

-----------------------------------------------------------------------------
(* Binding to a baseline, without the lease *)

\* V4TaskRepository._load, V4CaptureReplyRepository._load: a command recovers
\* what is pending, then loads its baseline.
LoadBaseline(p) ==
    /\ Begin(p, "load", "lock")
    /\ UNCHANGED <<disk, lease, mem, used>>

\* admit_experimental_v4_mutation_repository reads the whole authority before
\* it looks for a journal to recover.
Admit(p) ==
    /\ Begin(p, "admit", "admit")
    /\ mem' = [mem EXCEPT ![p] = Unbound]
    /\ UNCHANGED <<disk, lease, used>>
AdmitReadRepository(p) ==
    /\ pc[p] = "admit"
    /\ \/ ~Readable /\ Refuse(p)
       \/ /\ Readable
          /\ Goto(p, IF Pending THEN "lock" ELSE "state")
          /\ UNCHANGED <<disk, lease, txn, mem, used>>

\* The manifest, the ledger and the artifacts are read one after the other.
ReadRuntimeState(p) ==
    /\ pc[p] = "state"
    /\ txn' = [txn EXCEPT ![p].base = manifest]
    /\ Goto(p, "ledger")
    /\ UNCHANGED <<disk, lease, mem, used>>
ReadLedger(p) ==
    /\ pc[p] = "ledger"
    /\ txn' = [txn EXCEPT ![p].ledger = files[Ledger]]
    /\ Goto(p, "physical")
    /\ UNCHANGED <<disk, lease, mem, used>>
ReadPhysical(p) ==
    /\ pc[p] = "physical"
    /\ \/ ~ActualIs(txn[p].base) /\ Refuse(p)
       \/ /\ ActualIs(txn[p].base)
          /\ mem' = [mem EXCEPT ![p] = [base |-> txn[p].base,
                                        ledger |-> txn[p].ledger,
                                        admitted |-> txn[p].op = "admit"]]
          /\ txn' = [txn EXCEPT ![p] = NoTxn]
          /\ Goto(p, "idle")
          /\ UNCHANGED <<disk, lease, used>>

-----------------------------------------------------------------------------
(* Proposing *)

\* What an operation may do to a set of artifacts: write each of them, or
\* delete one that is there.  A command may record its answer in the ledger; an
\* admitted session records none.
Seen(p) == IF mem[p].admitted THEN Authority ELSE mem[p].base.roster
Proposals(p) ==
    LET body == used.commits + 1
        within == IF mem[p].admitted THEN Artifacts ELSE Targets
        scopes == {S \in SUBSET within : S \cap Artifacts # {}}
    IN UNION {[S -> {body, Absent}] : S \in scopes}
Deletes(writes) == {t \in DOMAIN writes : writes[t] = Absent}

\* The proposed manifest is built from a copy of the authority, read again.
Propose(p, writes) ==
    /\ pc[p] = "idle"
    /\ mem[p].base # NoManifest
    /\ used.commits < MaxCommits
    /\ \A t \in Deletes(writes) : t \in Artifacts /\ Seen(p)[t] # Absent
    /\ Readable
    /\ txn' = [txn EXCEPT ![p] =
          [@ EXCEPT !.op = "execute",
                    !.writes = writes,
                    !.expect = [t \in DOMAIN writes |->
                         IF t = Ledger THEN mem[p].ledger ELSE Seen(p)[t]],
                    !.want = Manifest(mem[p].base.generation + 1,
                                      Overlay(Authority, writes))]]
    /\ Goto(p, IF mem[p].admitted THEN "fresh" ELSE "lock")
    /\ mem' = [mem EXCEPT ![p] = IF @.admitted THEN @ ELSE Unbound]
    /\ used' = [used EXCEPT !.commits = @ + 1]
    /\ UNCHANGED <<disk, lease>>

\* V4WritableRepositorySession.commit refuses a stale admission.
CheckAdmissionFresh(p) ==
    /\ pc[p] = "fresh"
    /\ LET fresh == manifest = mem[p].base /\ ActualIs(manifest) IN
       \/ ~fresh /\ Refuse(p)
       \/ /\ fresh
          /\ Goto(p, "lock")
          /\ UNCHANGED <<disk, lease, txn, mem, used>>

-----------------------------------------------------------------------------
(* Opening a session: the lease, and what it finds *)

\* Mutant: the lease is taken whoever holds it.
AcquireHeldLease(p) ==
    /\ pc[p] = "lock"
    /\ lease' = p
    /\ Goto(p, "open")
    /\ UNCHANGED <<disk, txn, mem, used>>
\* A lease another program holds is never waited for.
AcquireLease(p) ==
    /\ pc[p] = "lock"
    /\ \/ lease # NoProc /\ Refuse(p)
       \/ /\ lease = NoProc
          /\ lease' = p
          /\ Goto(p, "open")
          /\ UNCHANGED <<disk, txn, mem, used>>

\* The proposal changes exactly its targets, each from what the manifest in
\* force names.
RosterTransitionValid(p) ==
    LET proposal == txn[p]
        targets == DOMAIN proposal.writes \ {Ledger}
    IN /\ {a \in Artifacts : manifest.roster[a] # proposal.want.roster[a]} = targets
       /\ \A a \in targets : /\ manifest.roster[a] = proposal.expect[a]
                             /\ proposal.want.roster[a] = proposal.writes[a]
\* _validate_manifest_transition: and it is the next generation.
TransitionValid(p) ==
    /\ txn[p].want.generation = manifest.generation + 1
    /\ RosterTransitionValid(p)

\* Mutant: a pending journal is not looked for.
AdmissibleOverJournal(p) == ActualIs(manifest) /\ TransitionValid(p)
Admissible(p) == ~Pending /\ ActualIs(manifest) /\ TransitionValid(p)

\* execute_write_session up to its journal.
OpenExecution(p) ==
    /\ pc[p] = "open"
    /\ txn[p].op = "execute"
    /\ \/ ~Admissible(p) /\ Refuse(p)
       \/ /\ Admissible(p)
          /\ txn' = [txn EXCEPT ![p].goal = "prepared"]
          /\ Goto(p, "journal")
          /\ UNCHANGED <<disk, lease, mem, used>>

\* recover_write_session up to its first check of the authority.
Unambiguous ==
    \/ manifest = journal.want
    \/ manifest = journal.base /\ ~Published
OpenRecovery(p) ==
    /\ pc[p] = "open"
    /\ txn[p].op \in {"load", "admit"}
    /\ IF Pending /\ ~Unambiguous THEN Refuse(p)
       ELSE /\ Goto(p, IF ~Pending THEN "done"
                       ELSE IF manifest = journal.want THEN "actual"
                       ELSE "verify")
            /\ UNCHANGED <<disk, lease, txn, mem, used>>

-----------------------------------------------------------------------------
(* The journal: staged, then renamed over *)

\* _publish_journal: a leftover stage stops the first publication and is
\* replaced by every later one.
StageJournal(p) ==
    /\ pc[p] = "journal"
    /\ \/ txn[p].goal = "prepared" /\ jstage /\ Refuse(p)
       \/ /\ txn[p].goal = "prepared" => ~jstage
          /\ jstage' = TRUE
          /\ Goto(p, "rename")
          /\ UNCHANGED <<files, author, stage, journal, manifest, recorded, lease,
                         txn, mem, used>>

\* What follows each phase: its next one, or the work done in it.
Advance(p, goal) ==
    /\ Goto(p, "journal")
    /\ txn' = [txn EXCEPT ![p].goal = goal]
PublishJournal(p) ==
    /\ pc[p] = "rename"
    /\ jstage' = FALSE
    /\ LET goal == txn[p].goal IN
       /\ journal' = IF goal = "prepared"
                     THEN [phase |-> goal, base |-> manifest,
                           want |-> txn[p].want, expect |-> txn[p].expect,
                           writes |-> txn[p].writes]
                     ELSE [journal EXCEPT !.phase = goal]
       /\ \/ goal = "prepared" /\ Advance(p, "applying")
          \/ goal = "manifest-published" /\ Advance(p, "generation-published")
          \/ /\ goal \in {"applying", "generation-published"}
             /\ Goto(p, IF goal = "generation-published" THEN "remove"
                        ELSE IF txn[p].op = "execute" THEN "verify"
                        ELSE "stage")
             /\ txn' = txn
    /\ UNCHANGED <<files, author, stage, manifest, recorded, lease, mem, used>>

\* The check before anything is staged.  An execution makes it once its journal
\* says "applying", a recovery before it says so.
VerifyRecoveryState(p) ==
    /\ pc[p] = "verify"
    /\ \/ ~StateVerified /\ Refuse(p)
       \/ /\ StateVerified
          /\ Goto(p, IF journal.phase = "prepared" THEN "journal" ELSE "stage")
          /\ txn' = [txn EXCEPT ![p] = [@ EXCEPT !.goal = "applying",
                                                 !.todo = DOMAIN journal.writes]]
          /\ UNCHANGED <<disk, lease, mem, used>>

-----------------------------------------------------------------------------
(* _stage_targets *)

\* Mutant: the ledger may come before the artifacts.
AnyTurn(p, t) == t \in txn[p].todo
\* Targets are sorted by their scope: the artifacts come before the ledger.
Turn(p, t) == t \in txn[p].todo /\ (t = Ledger => txn[p].todo = {Ledger})

\* A target that already is as proposed, or is to be deleted, needs no stage.
StageUnneeded(p, t) ==
    /\ pc[p] = "stage"
    /\ Turn(p, t)
    /\ journal.writes[t] \in {files[t], Absent}
    /\ txn' = [txn EXCEPT ![p].todo = @ \ {t}]
    /\ UNCHANGED <<disk, lease, pc, mem, used>>

\* Mutant: every residue is refused.
AnyResidue(t) == stage[t] # Absent
\* _write_stage replaces a residue that holds the proposed bytes, and refuses
\* any other one.  What was staged before it stays, for its caller has not been
\* told of it.
StageConflicts(t) == stage[t] \notin {Absent, journal.writes[t]}
OpenStage(p, t) ==
    /\ pc[p] = "stage"
    /\ Turn(p, t)
    /\ journal.writes[t] \notin {files[t], Absent}
    /\ \/ StageConflicts(t) /\ Refuse(p)
       \/ /\ ~StageConflicts(t)
          /\ stage' = [stage EXCEPT ![t] = Torn]
          /\ txn' = [txn EXCEPT ![p].target = {t}]
          /\ Goto(p, "fill")
          /\ UNCHANGED <<files, author, runtime, lease, mem, used>>
FillStage(p) ==
    /\ pc[p] = "fill"
    /\ stage' = [t \in Targets |-> IF t \in txn[p].target
                                   THEN journal.writes[t] ELSE stage[t]]
    /\ txn' = [txn EXCEPT ![p] =
                   [@ EXCEPT !.todo = txn[p].todo \ txn[p].target,
                             !.staged = txn[p].staged \cup txn[p].target,
                             !.target = {}]]
    /\ Goto(p, "stage")
    /\ UNCHANGED <<files, author, runtime, lease, mem, used>>
\* Mutant: only the authority's targets are applied.
AuthorityStaged(p) ==
    /\ pc[p] = "stage"
    /\ txn[p].todo = {}
    /\ txn' = [txn EXCEPT ![p].todo = DOMAIN journal.writes \ {Ledger}]
    /\ Goto(p, "apply")
    /\ UNCHANGED <<disk, lease, mem, used>>
TargetsStaged(p) ==
    /\ pc[p] = "stage"
    /\ txn[p].todo = {}
    /\ txn' = [txn EXCEPT ![p].todo = DOMAIN journal.writes]
    /\ Goto(p, "apply")
    /\ UNCHANGED <<disk, lease, mem, used>>

-----------------------------------------------------------------------------
(* _apply_stages *)

TargetApplied(p, t) ==
    /\ pc[p] = "apply"
    /\ Turn(p, t)
    /\ files[t] = journal.writes[t]
    /\ txn' = [txn EXCEPT ![p].todo = @ \ {t}]
    /\ UNCHANGED <<disk, lease, pc, mem, used>>

\* Mutant: a staged target is replaced whatever it holds.
ReplaceableIfStaged(p, t) == journal.writes[t] # Absent => t \in txn[p].staged
\* A target is compared with what the operation expects to replace.  One that
\* needed no stage a moment ago and is to be replaced now has none: a KeyError,
\* which leaves like any refusal.
Replaceable(p, t) ==
    /\ files[t] = journal.expect[t]
    /\ journal.writes[t] # Absent => t \in txn[p].staged
CompareTarget(p, t) ==
    /\ pc[p] = "apply"
    /\ Turn(p, t)
    /\ files[t] # journal.writes[t]
    /\ \/ ~Replaceable(p, t) /\ RefuseAndCleanUp(p)
       \/ /\ Replaceable(p, t)
          /\ txn' = [txn EXCEPT ![p] = [@ EXCEPT !.todo = txn[p].todo \ {t},
                                                 !.target = {t}]]
          /\ Goto(p, "replace")
          /\ UNCHANGED <<disk, lease, mem, used>>
ReplaceTarget(p) ==
    /\ pc[p] = "replace"
    /\ files' = [t \in Targets |-> IF t \in txn[p].target
                                   THEN journal.writes[t] ELSE files[t]]
    /\ author' = [t \in Targets |-> IF t \in txn[p].target
                                    THEN "session" ELSE author[t]]
    /\ stage' = [t \in Targets |-> IF t \in txn[p].target
                                   THEN Absent ELSE stage[t]]
    /\ txn' = [txn EXCEPT ![p].target = {}]
    /\ Goto(p, "reverify")
    /\ UNCHANGED <<runtime, lease, mem, used>>

\* The authority is verified again after every replacement.
VerifyReplacement(p) ==
    /\ pc[p] = "reverify"
    /\ \/ ~StateVerified /\ RefuseAndCleanUp(p)
       \/ /\ StateVerified
          /\ Goto(p, "apply")
          /\ UNCHANGED <<disk, lease, txn, mem, used>>

TargetsApplied(p) ==
    /\ pc[p] = "apply"
    /\ txn[p].todo = {}
    /\ stage' = WithoutStages(p)
    /\ txn' = [txn EXCEPT ![p].staged = {}]
    /\ Goto(p, "actual")
    /\ UNCHANGED <<files, author, runtime, lease, mem, used>>

-----------------------------------------------------------------------------
(* _complete_generation *)

\* The authority is read whole and must be the proposed one; the manifest is
\* published unless it already was, then the phases that are left.
VerifyAuthority(p) ==
    /\ pc[p] = "actual"
    /\ \/ ~ActualIs(journal.want) /\ Refuse(p)
       \/ /\ ActualIs(journal.want)
          /\ manifest # journal.want
          /\ Goto(p, "manifest")
          /\ UNCHANGED <<disk, lease, txn, mem, used>>
       \/ /\ ActualIs(journal.want)
          /\ manifest = journal.want
          /\ \/ /\ journal.phase = "generation-published"
                /\ Goto(p, "remove")
                /\ txn' = txn
             \/ /\ journal.phase # "generation-published"
                /\ Advance(p, IF journal.phase = "manifest-published"
                              THEN "generation-published"
                              ELSE "manifest-published")
          /\ UNCHANGED <<disk, lease, mem, used>>

\* Mutant: the proposal is numbered once more.
PublishNextGeneration(p) ==
    /\ pc[p] = "manifest"
    /\ manifest = journal.base
    /\ manifest' = [journal.want EXCEPT !.generation = @ + 1]
    /\ Advance(p, "manifest-published")
    /\ UNCHANGED <<files, author, stage, journal, jstage, recorded, lease, mem,
                   used>>
\* publish_runtime_manifest: compare-and-swap, then one replacement.
PublishManifest(p) ==
    /\ pc[p] = "manifest"
    /\ manifest = journal.base
    /\ manifest' = journal.want
    /\ recorded' = IF Ledger \in DOMAIN journal.writes
                   THEN journal.writes[Ledger] ELSE recorded
    /\ Advance(p, "manifest-published")
    /\ UNCHANGED <<files, author, stage, journal, jstage, lease, mem, used>>

RemoveJournal(p) ==
    /\ pc[p] = "remove"
    /\ journal' = NoJournal
    /\ Goto(p, "done")
    /\ UNCHANGED <<files, author, stage, jstage, manifest, recorded, lease, txn,
                   mem, used>>

\* The lease is released; a load or an admission goes on to bind to what it
\* found, and an admitted session to what it committed.
Return(p) ==
    /\ pc[p] = "done"
    /\ lease' = Freed(p)
    /\ \/ /\ txn[p].op # "execute"
          /\ Goto(p, "state")
          /\ UNCHANGED <<txn, mem>>
       \/ /\ txn[p].op = "execute"
          /\ Goto(p, "idle")
          /\ txn' = [txn EXCEPT ![p] = NoTxn]
          /\ mem' = IF mem[p].admitted
                    THEN [mem EXCEPT ![p].base = txn[p].want] ELSE mem
    /\ UNCHANGED <<disk, used>>

-----------------------------------------------------------------------------
(* Faults and external writers *)

\* The program dies: the lease is freed, files stay as they are.
Crash(p) ==
    /\ used.faults < MaxFaults
    /\ pc[p] # "idle" \/ mem[p] # Unbound
    /\ Goto(p, "idle")
    /\ txn' = [txn EXCEPT ![p] = NoTxn]
    /\ mem' = [mem EXCEPT ![p] = Unbound]
    /\ lease' = Freed(p)
    /\ used' = [used EXCEPT !.faults = @ + 1]
    /\ UNCHANGED disk

\* A file operation fails: a full disk, a locked file.  The file it was making
\* is removed; only the two steps of _apply_stages clean up the other stages.
FileFails(p) ==
    /\ used.faults < MaxFaults
    /\ used' = [used EXCEPT !.faults = @ + 1]
    /\ Leave(p)
    /\ journal' = journal
    /\ \/ /\ pc[p] = "rename"
          /\ jstage' = FALSE
          /\ stage' = stage
       \/ /\ pc[p] = "fill"
          /\ stage' = [t \in Targets |-> IF t \in txn[p].target
                                         THEN Absent ELSE stage[t]]
          /\ jstage' = jstage
       \/ /\ pc[p] = "replace"
          /\ stage' = WithoutStages(p)
          /\ jstage' = jstage
       \/ /\ pc[p] \in {"journal", "manifest", "remove"}
          /\ UNCHANGED <<stage, jstage>>

\* An editor or a sync tool changes, removes or restores an artifact.
Replacing(a) == \E p \in Procs : pc[p] = "replace" /\ a \in txn[p].target
ExternalEdit(a, body) ==
    /\ used.edits < MaxEdits
    /\ body # files[a]
    /\ ~RawRace => ~Replacing(a)
    /\ files' = [files EXCEPT ![a] = body]
    /\ author' = [author EXCEPT ![a] = "external"]
    /\ used' = [used EXCEPT !.edits = @ + 1]
    /\ UNCHANGED <<stage, runtime, lease, pc, txn, mem>>

-----------------------------------------------------------------------------
\* The inactive v4 authority a workspace was converted to, generation 0.
Init ==
    /\ files = [t \in Targets |-> 0]
    /\ author = [t \in Targets |-> "session"]
    /\ stage = [t \in Targets |-> Absent]
    /\ journal = NoJournal
    /\ jstage = FALSE
    /\ manifest = Manifest(0, [a \in Artifacts |-> 0])
    /\ recorded = 0
    /\ lease = NoProc
    /\ pc = [p \in Procs |-> "idle"]
    /\ txn = [p \in Procs |-> NoTxn]
    /\ mem = [p \in Procs |-> Unbound]
    /\ used = [commits |-> 0, edits |-> 0, faults |-> 0]

Call(p) ==
    \/ LoadBaseline(p) \/ Admit(p)
    \/ \E writes \in Proposals(p) : Propose(p, writes)

Step(p) ==
    \/ AdmitReadRepository(p)
    \/ ReadRuntimeState(p) \/ ReadLedger(p) \/ ReadPhysical(p)
    \/ CheckAdmissionFresh(p) \/ AcquireLease(p)
    \/ OpenExecution(p) \/ OpenRecovery(p)
    \/ StageJournal(p) \/ PublishJournal(p) \/ VerifyRecoveryState(p)
    \/ \E t \in Targets : StageUnneeded(p, t) \/ OpenStage(p, t)
    \/ FillStage(p) \/ TargetsStaged(p)
    \/ \E t \in Targets : TargetApplied(p, t) \/ CompareTarget(p, t)
    \/ ReplaceTarget(p) \/ VerifyReplacement(p) \/ TargetsApplied(p)
    \/ VerifyAuthority(p) \/ PublishManifest(p) \/ RemoveJournal(p)
    \/ Return(p)

External ==
    \E a \in Artifacts :
        \E body \in ExternalBodies \cup {Absent, manifest.roster[a]} :
            ExternalEdit(a, body)

Next ==
    \/ \E p \in Procs : Call(p) \/ Step(p) \/ Crash(p) \/ FileFails(p)
    \/ External

Spec == Init /\ [][Next]_vars

-----------------------------------------------------------------------------
(* Properties *)

Labels == {"idle", "admit", "state", "ledger", "physical", "fresh", "lock", "open",
           "journal", "rename", "verify", "stage", "fill", "apply", "replace",
           "reverify", "actual", "manifest", "remove", "done"}
Phases == {"none", "prepared", "applying", "manifest-published",
           "generation-published"}
Manifests == [generation : Nat, roster : Rosters \cup {NoWrites}]
Journals == [phase : Phases, base : Manifests, want : Manifests,
             expect : Writes, writes : Writes]
Txns == [op : {"none", "load", "admit", "execute"},
         base : Manifests, ledger : Bodies, writes : Writes, expect : Writes,
         want : Manifests, goal : Phases, todo : SUBSET Targets,
         staged : SUBSET Targets, target : SUBSET Targets]
Mems == [base : Manifests, ledger : Bodies, admitted : BOOLEAN]

\* Every variable has its type.
TypeOK ==
    /\ files \in [Targets -> Bodies]
    /\ author \in [Targets -> {"session", "external"}]
    /\ stage \in [Targets -> Bodies \cup {Torn}]
    /\ journal \in Journals
    /\ jstage \in BOOLEAN
    /\ manifest \in Manifests
    /\ recorded \in Bodies
    /\ lease \in Procs \cup {NoProc}
    /\ pc \in [Procs -> Labels]
    /\ txn \in [Procs -> Txns]
    /\ mem \in [Procs -> Mems]
    /\ used \in [commits : Nat, edits : Nat, faults : Nat]

\* No mutation appears in part as a committed generation: once no journal is
\* pending, every artifact a session changed last is as the manifest names it,
\* whatever died or failed on the way (execute_write_session, _recover_locked).
NoPartialGeneration ==
    ~Pending =>
        \A a \in Artifacts : author[a] = "session" => files[a] = manifest.roster[a]

\* The ledger is not in the manifest, and still moves with it: once no journal
\* is pending it holds the answers of exactly the operations in force.
LedgerIsExact == ~Pending => files[Ledger] = recorded

\* A command that bound to the manifest in force looks for replays in the ledger
\* that belongs to it, although it read the two at different moments beside a
\* running session.  While a journal is pending this needs that no one restored
\* an artifact the session had already replaced.
ReplaysFromItsLedger ==
    \A p \in Procs :
        (/\ mem[p].base = manifest
         /\ ~mem[p].admitted
         /\ ~Pending \/ used.edits = 0)
            => mem[p].ledger = recorded

\* The operation under way expects the ledger in force: a proposal built from an
\* older ledger is refused before its journal could pend for ever.
LedgerExpectedInForce ==
    Pending /\ manifest = journal.base /\ Ledger \in DOMAIN journal.writes =>
        journal.expect[Ledger] = recorded

\* Faults leave nothing ambiguous: the manifest is the journal's base or its
\* proposal, and the proposal once a phase says so, so a recovery never meets
\* MANIFEST_STATE_AMBIGUOUS or JOURNAL_PHASE_MANIFEST_MISMATCH.
RecoveryUnambiguous == Pending => Unambiguous

\* No staged file outlives its operation: one left in the authority would make
\* every later read of it refuse the layout.
NoResidue == ~Pending => \A t \in Targets : stage[t] = Absent

\* An operation reported as committed is in force: the manifest is its own, its
\* answer is in the ledger, and nothing is left to recover.
ReportedIsInForce ==
    \A p \in Procs : pc[p] = "done" /\ txn[p].op = "execute" =>
        /\ ~Pending
        /\ manifest = txn[p].want
        /\ Ledger \in DOMAIN txn[p].writes => files[Ledger] = txn[p].writes[Ledger]

\* A target is replaced only while it holds what the operation expects: bytes
\* of an external writer are not overwritten (TARGET_CAS_MISMATCH).
ForeignPreserved ==
    [][\A p \in Procs : \A t \in txn[p].target :
           (pc[p] = "replace" /\ files'[t] # files[t])
               => files[t] = journal.expect[t]]_vars

\* A residue of the journal's own operation is rewritten by its recovery.
OwnedResidueRewritten ==
    \A p \in Procs : \A t \in txn[p].todo :
        (pc[p] = "stage" /\ journal.writes[t] \notin {files[t], Absent})
            => ~StageConflicts(t)

\* The write session keeps the promise of one operation at a time, whole and
\* once.
Promise == INSTANCE AtomicAuthority WITH
               generation <- manifest.generation,
               content <- [t \in Targets |-> IF t = Ledger THEN recorded
                                             ELSE manifest.roster[t]],
               operation <- journal.writes,
               effective <- Pending /\ manifest = journal.want
ImplementsAtomicAuthority == Promise!Spec

-----------------------------------------------------------------------------
(* The inductive invariant: why the safety properties hold. *)

Leased == {"open", "journal", "rename", "verify", "stage", "fill", "apply",
           "replace", "reverify", "actual", "manifest", "remove", "done"}

\* From its opening to its release a session is alone.
LeaseHeld == \A p \in Procs : pc[p] \in Leased <=> lease = p

ByArtifact(writes) == DOMAIN writes \ {Ledger}
BySession(a) == author[a] = "session"

\* A journal takes the whole authority from its base to its proposal, and the
\* manifest is one of the two.
JournalSound ==
    /\ manifest.roster \in Rosters
    /\ IF Pending
       THEN /\ Unambiguous
            /\ journal.want.roster \in Rosters
            /\ journal.want.generation = journal.base.generation + 1
            /\ DOMAIN journal.expect = DOMAIN journal.writes
            /\ ByArtifact(journal.writes) # {}
            /\ {a \in Artifacts : journal.base.roster[a] # journal.want.roster[a]}
                  = ByArtifact(journal.writes)
            /\ \A a \in ByArtifact(journal.writes) :
                  /\ journal.base.roster[a] = journal.expect[a]
                  /\ journal.want.roster[a] = journal.writes[a]
       ELSE journal = NoJournal

InWrites == Ledger \in DOMAIN journal.writes

\* The ledger is replaced after the artifacts.
LedgerLast ==
    (InWrites /\ files[Ledger] # recorded /\ used.edits = 0) =>
        \A a \in ByArtifact(journal.writes) : files[a] = journal.writes[a]

\* Before the proposal is in force, and once it is or none is pending.
FilesBefore ==
    /\ InWrites => /\ journal.expect[Ledger] = recorded
                   /\ files[Ledger] \in {recorded, journal.writes[Ledger]}
                   /\ stage[Ledger] # Absent => files[Ledger] # journal.writes[Ledger]
    /\ ~InWrites => files[Ledger] = recorded /\ stage[Ledger] = Absent
    /\ \A a \in Artifacts : BySession(a) =>
          files[a] \in {journal.base.roster[a], journal.want.roster[a]}
    /\ LedgerLast
FilesAfter ==
    /\ files[Ledger] = recorded /\ stage[Ledger] = Absent
    /\ Pending /\ InWrites => recorded = journal.writes[Ledger]
    /\ ~Pending => Readable
    /\ \A a \in Artifacts : BySession(a) => files[a] = manifest.roster[a]
FilesSound ==
    IF Pending /\ manifest # journal.want THEN FilesBefore ELSE FilesAfter

\* What a reader may have found in the ledger of the manifest in force: its own
\* answers, or those of the operation that is about to replace it.
LedgerOf(l) ==
    \/ l = recorded
    \/ /\ Pending /\ manifest # journal.want /\ InWrites
       /\ l = journal.writes[Ledger] /\ files[Ledger] = l
Binding(generation, l) ==
    /\ generation <= manifest.generation
    /\ generation = manifest.generation => LedgerOf(l)

\* What a process read, and what it proposes of it.
BindingsSound(p) ==
    /\ pc[p] = "ledger" => txn[p].base.generation <= manifest.generation
    /\ pc[p] = "physical" => Binding(txn[p].base.generation, txn[p].ledger)
    /\ mem[p].base # NoManifest =>
          /\ mem[p].base.roster \in Rosters
          /\ mem[p].base.generation <= manifest.generation
          /\ ~mem[p].admitted => Binding(mem[p].base.generation, mem[p].ledger)
    /\ (mem[p].base = manifest /\ ~mem[p].admitted /\ used.edits = 0)
          => mem[p].ledger = recorded

Drafts(p) ==
    /\ txn[p].op = "execute"
    /\ \/ pc[p] \in {"fresh", "lock", "open"}
       \/ pc[p] \in {"journal", "rename"} /\ txn[p].goal = "prepared"
DraftSound(p) ==
    LET draft == txn[p] IN
    /\ draft.todo = {}
    /\ draft.want.roster \in Rosters
    /\ DOMAIN draft.expect = DOMAIN draft.writes
    /\ ByArtifact(draft.writes) # {}
    /\ draft.want.generation <= manifest.generation + 1
    /\ (Ledger \in DOMAIN draft.writes
        /\ draft.want.generation = manifest.generation + 1)
          => LedgerOf(draft.expect[Ledger])

\* Where a session is, in its journal and in the files.
Before(p) ==
    /\ Pending /\ manifest # journal.want
    /\ txn[p].op = "execute" =>
          journal.want = txn[p].want /\ journal.writes = txn[p].writes
After(p) ==
    /\ Pending /\ manifest = journal.want /\ Readable
    /\ txn[p].op = "execute" =>
          journal.want = txn[p].want /\ journal.writes = txn[p].writes
LedgerApplied == InWrites => files[Ledger] = journal.writes[Ledger]
Applied(rest) ==
    \A t \in DOMAIN journal.writes \ rest :
        (t = Ledger \/ used.edits = 0) => files[t] = journal.writes[t]

SessionSound(p) ==
    LET goal == txn[p].goal
        todo == txn[p].todo
        target == txn[p].target IN
    /\ pc[p] \in {"journal", "rename"} =>
          \/ goal = "prepared" /\ txn[p].op = "execute" /\ ~Pending /\ TransitionValid(p)
          \/ goal = "applying" /\ Before(p) /\ todo \subseteq DOMAIN journal.writes
          \/ goal \in {"manifest-published", "generation-published"} /\ After(p)
    /\ pc[p] = "verify" => Before(p)
    /\ pc[p] \in {"stage", "fill", "apply", "replace", "reverify"} =>
          Before(p) /\ todo \subseteq DOMAIN journal.writes
    /\ pc[p] = "fill" =>
          /\ target \subseteq DOMAIN journal.writes
          /\ Ledger \in target => files[Ledger] # journal.writes[Ledger]
    /\ pc[p] \in {"apply", "reverify"} => Applied(todo)
    /\ pc[p] = "replace" =>
          /\ target \subseteq DOMAIN journal.writes
          /\ Applied(todo \cup target)
          /\ Ledger \in target => todo = {}
          /\ ~RawRace => \A t \in target : files[t] = journal.expect[t]
    /\ pc[p] = "actual" => \/ Before(p) /\ LedgerApplied
                           \/ /\ Pending /\ manifest = journal.want
                              /\ txn[p].op # "execute"
    /\ pc[p] = "manifest" =>
          /\ Before(p) /\ LedgerApplied /\ Readable
          /\ \A a \in Artifacts : BySession(a) => files[a] = journal.want.roster[a]
    /\ pc[p] = "remove" => After(p)
    /\ pc[p] = "done" =>
          /\ ~Pending
          /\ txn[p].op = "execute" =>
                /\ manifest = txn[p].want
                /\ Ledger \in DOMAIN txn[p].writes =>
                      recorded = txn[p].writes[Ledger]

ProcessSound(p) ==
    /\ pc[p] = "idle" => txn[p] = NoTxn
    /\ pc[p] \in {"admit", "state", "ledger", "physical"} => txn[p].op # "execute"
    /\ BindingsSound(p)
    /\ Drafts(p) => DraftSound(p)
    /\ SessionSound(p)

\* What every step keeps.
WriteSessionInv ==
    /\ TypeOK
    /\ LeaseHeld /\ JournalSound /\ FilesSound
    /\ \A p \in Procs : ProcessSound(p)

-----------------------------------------------------------------------------
(* Liveness *)

\* A call that began keeps running, and a program that holds a command repository
\* issues commands again and again, whatever else it admits in between.
Fairness == \A p \in Procs : WF_vars(Step(p)) /\ SF_vars(LoadBaseline(p))
FairSpec == Spec /\ Fairness

\* A pending journal is completed, unless an external change or a torn stage
\* stands in its way when no one is at work.
RecoveryBlocked ==
    /\ lease = NoProc
    /\ \/ \E t \in Targets : stage[t] = Torn
       \/ IF manifest = journal.want THEN ~ActualIs(manifest) ELSE ~StateVerified
RecoveryCompletes == Pending ~> (~Pending \/ RecoveryBlocked)
=============================================================================
