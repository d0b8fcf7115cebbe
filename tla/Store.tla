------------------------------- MODULE Store -------------------------------
(***************************************************************************)
(* The collection Store: a directory of JSON documents written by one      *)
(* lease holder at a time, through a replayable recovery journal, against  *)
(* a manifest that names the bytes Work Stack accepts.                     *)
(*                                                                         *)
(* Processes are the programs that open one data directory (the HTTP       *)
(* server, which keeps the lease, and command line writers, which take it  *)
(* for one transaction).  A process runs its transactions one at a time:   *)
(* the threads of a server share one RLock for the whole transaction.      *)
(* External writers (editors, sync tools) honour no lease and may act      *)
(* between any two steps.  One step of a process is one read of the        *)
(* documents, or one atomic replacement or unlink of a file, so a crash, a *)
(* failing write or an external edit can fall between any two of them.     *)
(*                                                                         *)
(* A document body stands for its SHA-256 digest: two bodies are equal iff *)
(* their digests are.  Body 0 is the default a fresh store starts from,    *)
(* body n the value the n-th commit writes to each of its targets.         *)
(***************************************************************************)
EXTENDS Naturals

CONSTANTS
    Procs,          \* programs that open the data directory
    NoProc,         \* nobody holds the lease
    Docs,           \* DEFAULTS: the documents of the roster
    ExternalBodies, \* bodies an external writer produces
    Malformed,      \* of those, the ones validate_document_values refuses
    Inadmissible,   \* of those, valid ones that break a candidate rule
    Absent,         \* the document file does not exist
    RawRace,        \* TRUE: an external writer may act between a target's
                    \* comparison and its os.replace
    ScanRace,       \* TRUE: an external writer may act between the validation
                    \* of the documents and the hashing of them beside it
    MaxCommits,     \* bound: commits attempted
    MaxEdits,       \* bound: external edits
    MaxFaults       \* bound: crashes and failing writes together

ASSUME ProcsAssumption == NoProc \notin Procs
ASSUME DocsAssumption == Docs # {}
ASSUME BodiesAssumption ==
    /\ ExternalBodies \cap Nat = {}
    /\ Absent \notin Nat \cup ExternalBodies
    /\ Malformed \subseteq ExternalBodies
    /\ Inadmissible \subseteq ExternalBodies
ASSUME BoundsAssumption ==
    /\ RawRace \in BOOLEAN /\ ScanRace \in BOOLEAN
    /\ MaxCommits \in Nat
    /\ MaxEdits \in Nat
    /\ MaxFaults \in Nat

VARIABLES
    docs,      \* the authoritative documents on disk
    author,    \* who wrote each of them last (history variable)
    journal,   \* .workstack-journal.json: target |-> body, <<>> when no file
    manifest,  \* .workstack-store-manifest.json
    adopted,   \* the request whose acceptance made the manifest in force
               \* (history variable)
    receipt,   \* the sync adoption receipt
    lease,     \* holder of .workstack.lock
    pc,        \* where each process is in its transaction
    txn,       \* what the running transaction of each process holds
    mem,       \* what the Store object of each process remembers
    review,    \* the candidate an operator reviewed last
    used       \* how much of each bound is spent

disk == <<docs, author, journal, manifest, adopted, receipt>>
vars == <<docs, author, journal, manifest, adopted, receipt, lease, pc, txn, mem,
          review, used>>

-----------------------------------------------------------------------------
(* Bodies, writes and baselines *)

Bodies == (0 .. MaxCommits) \cup ExternalBodies
Default == 0
Writes == UNION {[S -> Bodies] : S \in SUBSET Docs}
NoWrites == [d \in {} |-> Default]
Files == [Docs -> Bodies \cup {Absent}]
NoFiles == [d \in {} |-> Default]

NoManifest == [generation |-> 0, files |-> NoFiles]
HasManifest == DOMAIN manifest.files # {}
Pending == DOMAIN journal # {}

\* The files of a baseline once the given writes are laid over it.
Overlay(files, writes) ==
    [d \in Docs |-> IF d \in DOMAIN writes THEN writes[d] ELSE files[d]]

Present(files) == \A d \in Docs : files[d] # Absent
Valid(files) == \A d \in Docs : files[d] \notin Malformed \cup {Absent}
Carries(files, writes) == \A d \in DOMAIN writes : files[d] = writes[d]

Candidate(generation, files) == [generation |-> generation, files |-> files]
NoCandidate == NoManifest

-----------------------------------------------------------------------------
(* Processes *)

NoMark == [state |-> "in-sync", changed |-> {}, files |-> NoFiles]
FreshMem == [server |-> FALSE, ready |-> FALSE, generation |-> 0,
             mark |-> NoMark, recovered |-> FALSE]
NoTxn == [op |-> "none", mode |-> "none", base |-> FALSE,
          work |-> NoWrites, expect |-> NoFiles, expected |-> NoFiles,
          todo |-> {}, target |-> {}, snap |-> NoFiles,
          want |-> NoCandidate, emitted |-> 0]

Goto(p, label) == pc' = [pc EXCEPT ![p] = label]
Running(p) == pc[p] # "idle"

\* Leaving the outermost transaction: a temporary lease is released, a
\* server's lease is kept.
Return(p) ==
    /\ Goto(p, "idle")
    /\ txn' = [txn EXCEPT ![p] = NoTxn]
    /\ lease' = IF mem[p].server THEN lease ELSE NoProc

\* An exception leaves the transaction.  Raised while the store is being
\* opened it ends the program, which releases a server's lease too.
Raise(p) ==
    /\ Goto(p, "idle")
    /\ txn' = [txn EXCEPT ![p] = NoTxn]
    /\ IF txn[p].op \in {"start", "initialize"}
       THEN /\ mem' = [mem EXCEPT ![p] = FreshMem]
            /\ lease' = NoProc
       ELSE /\ mem' = mem
            /\ lease' = IF mem[p].server THEN lease ELSE NoProc

-----------------------------------------------------------------------------
(* Inspection: what the documents are, seen from the baseline *)

Larger(a, b) == IF a >= b THEN a ELSE b

\* The manifest an inspection that starts at a label compares with: the one on
\* disk, or the first one, when this inspection has just made it.
Finds(p, label) == pc[p] = "made" \/ (pc[p] = label /\ HasManifest)

Changed(base) == {d \in Docs : docs[d] # base.files[d]}

AdmissibleCandidate(base) ==
    /\ Valid(docs)
    /\ \A d \in Changed(base) : docs[d] \notin Inadmissible

SyncState(base) ==
    IF Changed(base) = {} THEN "in-sync"
    ELSE IF AdmissibleCandidate(base) THEN "external-change-detected"
    ELSE "external-change-invalid"

\* The fingerprint that keeps one observation from being announced twice.
Mark(base) ==
    LET state == SyncState(base) IN
    IF state = "in-sync" THEN NoMark
    ELSE [state |-> state, changed |-> Changed(base),
          files |-> IF state = "external-change-invalid" THEN NoFiles ELSE docs]

\* Events an inspection emits, and the memory it leaves behind.
Announced(p) ==
    LET mark == Mark(manifest) IN
    IF mark # NoMark /\ mark # mem[p].mark THEN 1 ELSE 0
Observed(p) ==
    [mem[p] EXCEPT !.generation = Larger(@, manifest.generation),
                   !.mark = Mark(manifest)]

\* An inspection that leaves the transaction where it is, and one after which
\* the outermost transaction returns.
InspectAndGoto(p, label) ==
    /\ mem' = [mem EXCEPT ![p] = Observed(p)]
    /\ txn' = [txn EXCEPT ![p].emitted = @ + Announced(p)]
    /\ Goto(p, label)
    /\ UNCHANGED <<disk, lease, review, used>>
InspectAndReturn(p) ==
    /\ mem' = [mem EXCEPT ![p] = Observed(p)]
    /\ Return(p)
    /\ UNCHANGED <<disk, review, used>>

\* Mutant: a refusal cleans its journal up.
RefuseDropsJournal(p) ==
    /\ Raise(p)
    /\ journal' = NoWrites
    /\ UNCHANGED <<docs, author, manifest, adopted, receipt, review, used>>
\* A refusal: nothing on disk changes, a pending journal stays.
Refuse(p) ==
    /\ Raise(p)
    /\ UNCHANGED <<disk, review, used>>
\* A refusal that carries the state an inspection found.
InspectAndRefuse(p) ==
    /\ Goto(p, "idle")
    /\ txn' = [txn EXCEPT ![p] = NoTxn]
    /\ IF txn[p].op \in {"start", "initialize"}
       THEN /\ mem' = [mem EXCEPT ![p] = FreshMem]
            /\ lease' = NoProc
       ELSE /\ mem' = [mem EXCEPT ![p] = Observed(p)]
            /\ lease' = IF mem[p].server THEN lease ELSE NoProc
    /\ UNCHANGED <<disk, review, used>>

\* _ensure_sync_manifest_locked, for an inspection that finds no manifest: the
\* documents are validated ...
ValidateFirst(p) ==
    /\ ~HasManifest
    /\ \/ pc[p] = "dispatch" /\ txn[p].op \in {"commit", "adopt"}
       \/ pc[p] = "inspect"
       \/ pc[p] = "finish" /\ ~mem[p].recovered
    /\ IF Valid(docs)
       THEN /\ Goto(p, "first")
            /\ txn' = [txn EXCEPT ![p].mode =
                           IF pc[p] = "finish" THEN "finish" ELSE @]
            /\ UNCHANGED <<disk, lease, mem, review, used>>
       ELSE Refuse(p)

\* ... and read again for the first baseline, which takes them as they are then;
\* only a missing document, or one whose tasks cannot be read, is refused.
EstablishBaseline(p) ==
    /\ pc[p] = "first"
    /\ \/ /\ Present(docs)
          /\ manifest' = Candidate(mem[p].generation, docs)
          /\ mem' = [mem EXCEPT ![p].ready = TRUE]
          /\ Goto(p, "made")
          /\ UNCHANGED <<docs, author, journal, adopted, receipt, lease, txn,
                         review, used>>
       \/ /\ ~Valid(docs)
          /\ Refuse(p)

-----------------------------------------------------------------------------
(* Entering a transaction, and the recovery every outermost one begins with *)

\* transaction() at depth 0, and server_lease(): the lease is non-blocking, so
\* a process that finds it held by another simply fails and stays idle.
Enter(p, op, fields) ==
    /\ pc[p] = "idle"
    /\ lease \in {NoProc, p}
    /\ lease' = p
    /\ txn' = [txn EXCEPT ![p] = [fields EXCEPT !.op = op]]
    /\ Goto(p, "recover")
    /\ UNCHANGED <<disk, review>>

StartServer(p) ==
    /\ ~mem[p].server
    /\ lease = NoProc
    /\ Enter(p, "start", NoTxn)
    /\ mem' = [mem EXCEPT ![p].server = TRUE]
    /\ UNCHANGED used

Initialize(p) ==
    /\ ~mem[p].ready
    /\ Enter(p, "initialize", NoTxn)
    /\ UNCHANGED <<mem, used>>

\* A service operation saves new values for some documents in one save_many.
SaveMany(p, targets) ==
    /\ mem[p].ready
    /\ used.commits < MaxCommits
    /\ targets # {}
    /\ Enter(p, "commit",
             [NoTxn EXCEPT !.work = [d \in targets |-> used.commits + 1]])
    /\ used' = [used EXCEPT !.commits = @ + 1]
    /\ UNCHANGED mem

Load(p) ==
    /\ mem[p].ready
    /\ Enter(p, "load", NoTxn)
    /\ UNCHANGED <<mem, used>>

\* An operator accepts the candidate reviewed last, or retries an acceptance.
AdoptExternalChange(p) ==
    /\ mem[p].ready
    /\ review # NoCandidate
    /\ Enter(p, "adopt", [NoTxn EXCEPT !.want = review])
    /\ UNCHANGED <<mem, used>>

\* try_acquire_writer_lease() keeps the lease without a recovery, and
\* release_writer_lease() gives it back; the Store remembers what it knew.
RetainLease(p) ==
    /\ pc[p] = "idle"
    /\ ~mem[p].server
    /\ lease = NoProc
    /\ lease' = p
    /\ mem' = [mem EXCEPT ![p].server = TRUE]
    /\ UNCHANGED <<disk, pc, txn, review, used>>
ReleaseLease(p) ==
    /\ pc[p] = "idle"
    /\ mem[p].server
    /\ lease' = NoProc
    /\ mem' = [mem EXCEPT ![p].server = FALSE]
    /\ UNCHANGED <<disk, pc, txn, review, used>>

\* The program ends between transactions: a server gives its lease back.
Exit(p) ==
    /\ pc[p] = "idle"
    /\ mem[p] # FreshMem
    /\ mem' = [mem EXCEPT ![p] = FreshMem]
    /\ lease' = IF lease = p THEN NoProc ELSE lease
    /\ UNCHANGED <<disk, pc, txn, review, used>>

RecoveryTargetsSafe ==
    HasManifest =>
        \A d \in DOMAIN journal : docs[d] \in {manifest.files[d], journal[d]}

\* Mutant: a store that was opened before does not look for a journal again.
RecoverLockedOnce(p) ==
    /\ pc[p] = "recover"
    /\ \/ /\ ~Pending \/ mem[p].ready
          /\ Goto(p, "dispatch")
          /\ UNCHANGED <<disk, lease, txn, mem, review, used>>
       \/ /\ Pending /\ ~mem[p].ready
          /\ ~RecoveryTargetsSafe
          /\ Refuse(p)
       \/ /\ Pending /\ ~mem[p].ready
          /\ RecoveryTargetsSafe
          /\ Goto(p, "capture")
          /\ UNCHANGED <<disk, lease, txn, mem, review, used>>
\* _recover_locked up to the safety check of the targets.
RecoverLocked(p) ==
    /\ pc[p] = "recover"
    /\ \/ /\ ~Pending
          /\ Goto(p, "dispatch")
          /\ UNCHANGED <<disk, lease, txn, mem, review, used>>
       \/ /\ Pending
          /\ ~RecoveryTargetsSafe
          /\ Refuse(p)
       \/ /\ Pending
          /\ RecoveryTargetsSafe
          /\ Goto(p, "capture")
          /\ UNCHANGED <<disk, lease, txn, mem, review, used>>

\* The expectations are read from the documents again, after the check.  From
\* here to its unlink the journal is the list of writes in flight, of a replay
\* and of a commit alike: its holder is the only one that could change it.
CaptureExpectations(p) ==
    /\ pc[p] = "capture"
    /\ txn' = [txn EXCEPT ![p] =
                   [@ EXCEPT !.mode = "recover",
                             !.base = HasManifest,
                             !.expect = [d \in DOMAIN journal |-> docs[d]],
                             !.expected = IF HasManifest
                                          THEN Overlay(manifest.files, journal)
                                          ELSE NoFiles,
                             !.todo = DOMAIN journal]]
    /\ Goto(p, "apply")
    /\ UNCHANGED <<disk, lease, mem, review, used>>

-----------------------------------------------------------------------------
(* Applying the journalled writes *)

\* _atomic_write_locked: the temporary file is written, then the target is
\* compared with the bytes this write expects to replace ...
CompareTarget(p, d) ==
    /\ pc[p] = "apply"
    /\ d \in txn[p].todo
    /\ \/ /\ docs[d] # txn[p].expect[d]
          /\ Refuse(p)
       \/ /\ docs[d] = txn[p].expect[d]
          /\ txn' = [txn EXCEPT ![p] = [@ EXCEPT !.target = {d},
                                                    !.todo = txn[p].todo \ {d}]]
          /\ Goto(p, "replace")
          /\ UNCHANGED <<disk, lease, mem, review, used>>

\* ... and replaced.
ReplaceTarget(p) ==
    /\ pc[p] = "replace"
    /\ docs' = [d \in Docs |-> IF d \in txn[p].target THEN journal[d] ELSE docs[d]]
    /\ author' = [d \in Docs |-> IF d \in txn[p].target THEN "store" ELSE author[d]]
    /\ txn' = [txn EXCEPT ![p].target = {}]
    /\ Goto(p, "apply")
    /\ UNCHANGED <<journal, manifest, adopted, receipt, lease, mem, review, used>>

\* Every target is replaced: a replay extends the baseline it found, or leaves
\* the first manifest to the end of the initialization.
ReplayApplied(p) ==
    /\ pc[p] = "apply"
    /\ txn[p].todo = {}
    /\ txn[p].mode = "recover"
    /\ Goto(p, IF txn[p].base THEN "tasks" ELSE "forget")
    /\ UNCHANGED <<disk, lease, txn, mem, review, used>>

\* _commit_race_groups: a target that changed again stops the commit, an
\* unrelated change leaves it to the local baseline.
CommitApplied(p) ==
    /\ pc[p] = "apply"
    /\ txn[p].todo = {}
    /\ txn[p].mode = "commit"
    /\ IF Present(docs) /\ Carries(docs, journal)
       THEN /\ Goto(p, IF txn[p].base /\ docs # txn[p].expected
                       THEN "tasks" ELSE "hash")
            /\ UNCHANGED <<disk, lease, txn, mem, review, used>>
       ELSE Refuse(p)

\* Mutant: the local baseline waits for a changed target to come back.
LocalBaselineTasksWaits(p) ==
    /\ pc[p] = "tasks"
    /\ Present(docs) /\ Carries(docs, journal)
    /\ Goto(p, "local")
    /\ UNCHANGED <<disk, lease, txn, mem, review, used>>
\* _local_baseline_tasks_locked: the targets still hold the declared bytes.
LocalBaselineTasks(p) ==
    /\ pc[p] = "tasks"
    /\ IF Present(docs) /\ Carries(docs, journal)
       THEN /\ Goto(p, "local")
            /\ UNCHANGED <<disk, lease, txn, mem, review, used>>
       ELSE Refuse(p)

\* Mutant: a program counts the generations it has seen itself.
NextGenerationVolatile(p) == mem[p].generation + 1
NextGeneration(p) == Larger(mem[p].generation, manifest.generation) + 1

\* Mutant: the local baseline takes the documents as they are.
WriteLocalBaselineOfDisk(p) ==
    /\ pc[p] = "local"
    /\ manifest' = Candidate(NextGeneration(p), docs)
    /\ adopted' = NoCandidate
    /\ mem' = [mem EXCEPT ![p] = [@ EXCEPT !.generation = NextGeneration(p),
                                           !.mark = NoMark]]
    /\ txn' = [txn EXCEPT ![p].emitted = @ + 1]
    /\ Goto(p, "unlink")
    /\ UNCHANGED <<docs, author, journal, receipt, lease, review, used>>
\* Mutant: the local baseline announces the external state itself as well.
WriteLocalBaselineAnnounces(p) ==
    /\ pc[p] = "local"
    /\ manifest' = Candidate(NextGeneration(p), txn[p].expected)
    /\ adopted' = NoCandidate
    /\ mem' = [mem EXCEPT ![p] = [@ EXCEPT !.generation = NextGeneration(p),
                                           !.mark = NoMark]]
    /\ txn' = [txn EXCEPT ![p].emitted = @ + 2]
    /\ Goto(p, "unlink")
    /\ UNCHANGED <<docs, author, journal, receipt, lease, review, used>>
\* _write_local_baseline_locked: only the declared bytes enter the baseline.
WriteLocalBaseline(p) ==
    /\ pc[p] = "local"
    /\ manifest' = Candidate(NextGeneration(p), txn[p].expected)
    /\ adopted' = NoCandidate
    /\ mem' = [mem EXCEPT ![p] = [@ EXCEPT !.generation = NextGeneration(p),
                                           !.mark = NoMark]]
    /\ txn' = [txn EXCEPT ![p].emitted = @ + 1]
    /\ Goto(p, "unlink")
    /\ UNCHANGED <<docs, author, journal, receipt, lease, review, used>>

\* What is left of the transaction when the replay before it is over.
Replayed(p) == [NoTxn EXCEPT !.op = txn[p].op, !.work = txn[p].work,
                             !.want = txn[p].want]

\* The journal goes once the baseline names its writes ...
UnlinkJournal(p) ==
    /\ pc[p] \in {"unlink", "close"}
    /\ journal' = NoWrites
    /\ Goto(p, IF pc[p] = "unlink" THEN "settle" ELSE "saved")
    /\ UNCHANGED <<docs, author, manifest, adopted, receipt, lease, txn, mem, review, used>>

\* ... or, with no baseline to extend, once the documents hold them.
ForgetJournal(p) ==
    /\ pc[p] = "forget"
    /\ journal' = NoWrites
    /\ mem' = [mem EXCEPT ![p] = [@ EXCEPT !.generation = mem[p].generation + 1,
                                           !.recovered = TRUE]]
    /\ txn' = [txn EXCEPT ![p] = Replayed(p)]
    /\ Goto(p, "dispatch")
    /\ UNCHANGED <<docs, author, manifest, adopted, receipt, lease, review, used>>

\* The inspection that ends a commit or a replay next to an external change,
\* an initialization and an acceptance.
Settle(p) ==
    /\ pc[p] = "settle"
    /\ \/ /\ txn[p].mode = "commit"
          /\ InspectAndGoto(p, "saved")
       \/ /\ txn[p].mode = "recover"
          /\ mem' = [mem EXCEPT ![p] = [Observed(p) EXCEPT !.recovered = FALSE]]
          /\ txn' = [txn EXCEPT ![p] = Replayed(p)]
          /\ Goto(p, "dispatch")
          /\ UNCHANGED <<disk, lease, review, used>>
       \/ /\ txn[p].mode \in {"finish", "adopt"}
          /\ InspectAndReturn(p)

-----------------------------------------------------------------------------
(* save_many: the commit of one set of writes *)

\* _assert_writable_locked; a store that is not ready is being initialized.
AssertWritable(p) ==
    /\ Finds(p, "dispatch")
    /\ txn[p].op = "commit"
    /\ txn[p].mode = "none"
    /\ IF SyncState(manifest) = "in-sync"
       THEN InspectAndGoto(p, "commit")
       ELSE InspectAndRefuse(p)

\* Mutant: the expectations are read from the documents, as a replay does.
WriteJournalOfDisk(p) ==
    /\ pc[p] = "commit"
    /\ ~Pending
    /\ LET original == IF HasManifest THEN manifest.files ELSE docs
           work == txn[p].work
       IN /\ journal' = work
          /\ txn' = [txn EXCEPT ![p] =
                         [@ EXCEPT !.mode = "commit",
                                   !.base = HasManifest,
                                   !.expect = [d \in DOMAIN work |-> docs[d]],
                                   !.expected = Overlay(original, work),
                                   !.todo = DOMAIN work,
                                   !.emitted = 0]]
    /\ Goto(p, "apply")
    /\ UNCHANGED <<docs, author, manifest, adopted, receipt, lease, mem, review, used>>
\* The baseline is read, the journal written and the targets' expectations
\* taken from the baseline.
WriteJournal(p) ==
    /\ pc[p] = "commit"
    /\ ~Pending
    /\ LET original == IF HasManifest THEN manifest.files ELSE docs
           work == txn[p].work
       IN /\ journal' = work
          /\ txn' = [txn EXCEPT ![p] =
                         [@ EXCEPT !.mode = "commit",
                                   !.base = HasManifest,
                                   !.expect = [d \in DOMAIN work |-> original[d]],
                                   !.expected = Overlay(original, work),
                                   !.todo = DOMAIN work,
                                   !.emitted = 0]]
    /\ Goto(p, "apply")
    /\ UNCHANGED <<docs, author, manifest, adopted, receipt, lease, mem, review, used>>

\* Mutant: a commit accepts whatever the documents hold.
HashDocumentsUnchecked(p) ==
    /\ pc[p] = "hash"
    /\ IF ~Present(docs) THEN Refuse(p)
       ELSE /\ txn' = [txn EXCEPT ![p].snap = docs]
            /\ Goto(p, "validate")
            /\ UNCHANGED <<disk, lease, mem, review, used>>
\* _write_committed_manifest_locked reads the documents ...
HashDocuments(p) ==
    /\ pc[p] = "hash"
    /\ IF ~Present(docs) THEN Refuse(p)
       ELSE IF txn[p].mode = "commit" /\ docs # txn[p].expected
       THEN /\ Goto(p, "inspect")
            /\ UNCHANGED <<disk, lease, txn, mem, review, used>>
       ELSE /\ txn' = [txn EXCEPT ![p].snap = docs]
            /\ Goto(p, "validate")
            /\ UNCHANGED <<disk, lease, mem, review, used>>

\* A commit that finds them changed inspects them before it resolves the change.
NoticeLateChange(p) ==
    /\ Finds(p, "inspect")
    /\ txn[p].mode = "commit"
    /\ InspectAndGoto(p, "late")

\* ... validates them ...
ValidateDocuments(p) ==
    /\ pc[p] = "validate"
    /\ IF Valid(docs)
       THEN /\ Goto(p, "rehash")
            /\ UNCHANGED <<disk, lease, txn, mem, review, used>>
       ELSE Refuse(p)

\* ... reads them again, to compare the bytes alone, and the tasks in them ...
RehashDocuments(p) ==
    /\ pc[p] = "rehash"
    /\ \/ /\ docs = txn[p].snap
          /\ Goto(p, "publish")
          /\ UNCHANGED <<disk, lease, txn, mem, review, used>>
       \/ /\ docs # txn[p].snap \/ ~Valid(docs)
          /\ Refuse(p)

\* ... and replaces the manifest.
PublishManifest(p) ==
    /\ pc[p] = "publish"
    /\ manifest' = Candidate(NextGeneration(p), txn[p].snap)
    /\ adopted' = IF txn[p].mode = "adopt" THEN txn[p].want ELSE NoCandidate
    /\ mem' = [mem EXCEPT ![p] =
                   [@ EXCEPT !.generation = NextGeneration(p),
                             !.mark = NoMark,
                             !.ready = TRUE,
                             !.recovered =
                                 IF txn[p].mode = "finish" THEN FALSE
                                 ELSE mem[p].recovered]]
    /\ txn' = [txn EXCEPT ![p] = [@ EXCEPT !.snap = NoFiles,
                                           !.emitted = txn[p].emitted + 1]]
    /\ Goto(p, CASE txn[p].mode = "commit" -> "close"
                 [] txn[p].mode = "finish" -> "settle"
                 [] OTHER                  -> "receipt")
    /\ UNCHANGED <<docs, author, journal, receipt, lease, review, used>>

\* _resolve_late_external_change_locked.
ResolveLateExternalChange(p) ==
    /\ pc[p] = "late"
    /\ IF Present(docs) /\ txn[p].base /\ Carries(docs, journal)
       THEN /\ Goto(p, "tasks")
            /\ UNCHANGED <<disk, lease, txn, mem, review, used>>
       ELSE IF Present(docs) THEN InspectAndRefuse(p) ELSE Refuse(p)

\* save_many returns; the fresh initialization goes on to validate what it
\* wrote.
CommitReturns(p) ==
    /\ pc[p] = "saved"
    /\ \/ /\ txn[p].op = "commit"
          /\ Return(p)
          /\ UNCHANGED <<disk, mem, review, used>>
       \/ /\ txn[p].op = "initialize"
          /\ Valid(docs)
          /\ mem' = [mem EXCEPT ![p].ready = TRUE]
          /\ txn' = [txn EXCEPT ![p] = Replayed(p)]
          /\ Goto(p, "finish")
          /\ UNCHANGED <<disk, lease, review, used>>
       \/ /\ txn[p].op = "initialize"
          /\ ~Valid(docs)
          /\ Refuse(p)

-----------------------------------------------------------------------------
(* The other operations *)

\* server_lease() recovers and nothing more; the lease is kept.
ServerStarted(p) ==
    /\ pc[p] = "dispatch"
    /\ txn[p].op = "start"
    /\ Return(p)
    /\ UNCHANGED <<disk, mem, review, used>>

\* initialize() of an empty directory commits the defaults of every document.
InitializeFresh(p) ==
    /\ pc[p] = "dispatch"
    /\ txn[p].op = "initialize"
    /\ \A d \in Docs : docs[d] = Absent
    /\ txn' = [txn EXCEPT ![p].work = [d \in Docs |-> Default]]
    /\ Goto(p, "commit")
    /\ UNCHANGED <<disk, lease, mem, review, used>>

\* initialize() of a directory that holds documents admits a whole valid
\* roster and refuses anything else.
AdmitExisting(p) ==
    /\ pc[p] = "dispatch"
    /\ txn[p].op = "initialize"
    /\ \E d \in Docs : docs[d] # Absent
    /\ IF Valid(docs)
       THEN /\ mem' = [mem EXCEPT ![p].ready = TRUE]
            /\ Goto(p, "finish")
            /\ UNCHANGED <<disk, lease, txn, review, used>>
       ELSE Refuse(p)

\* _finish_initialization_locked: a replay without a baseline publishes the
\* first manifest now.
FinishInitialization(p) ==
    \/ /\ pc[p] = "finish"
       /\ mem[p].recovered
       /\ txn' = [txn EXCEPT ![p].mode = "finish"]
       /\ Goto(p, "hash")
       /\ UNCHANGED <<disk, lease, mem, review, used>>
    \/ /\ Finds(p, "finish")
       /\ IF pc[p] = "made" THEN txn[p].mode = "finish" ELSE ~mem[p].recovered
       /\ InspectAndReturn(p)

\* load() reads the document before it inspects the collection: one that is
\* missing or unreadable is refused at once, and an empty directory answers
\* with the default.
LoadDocument(p, d) ==
    /\ pc[p] = "dispatch"
    /\ txn[p].op = "load"
    /\ \/ /\ docs[d] \in Malformed \cup {Absent}
          /\ \E e \in Docs : docs[e] # Absent
          /\ Refuse(p)
       \/ /\ \A e \in Docs : docs[e] = Absent
          /\ Return(p)
          /\ UNCHANGED <<disk, mem, review, used>>
       \/ /\ docs[d] # Absent
          /\ Goto(p, "inspect")
          /\ UNCHANGED <<disk, lease, txn, mem, review, used>>

\* The inspection of a load, which validates the documents once more.
LoadInspected(p) ==
    /\ Finds(p, "inspect")
    /\ txn[p].op = "load"
    /\ IF SyncState(manifest) # "external-change-invalid" /\ Valid(docs)
       THEN InspectAndReturn(p)
       ELSE InspectAndRefuse(p)

\* Mutant: a read takes no lease.
ConsistentReadUnleased(p) ==
    /\ pc[p] = "idle"
    /\ ~Pending
    /\ Valid(docs)
    /\ mem' = [mem EXCEPT ![p].ready = TRUE]
    /\ Goto(p, "reading")
    /\ UNCHANGED <<disk, lease, txn, review, used>>
\* consistent_read() validates the documents under the lease without a
\* recovery, refusing a pending journal, and holds the lease while its caller
\* reads them one by one.
ConsistentRead(p) ==
    /\ pc[p] = "idle"
    /\ lease \in {NoProc, p}
    /\ ~Pending
    /\ Valid(docs)
    /\ lease' = p
    /\ mem' = [mem EXCEPT ![p].ready = TRUE]
    /\ Goto(p, "reading")
    /\ UNCHANGED <<disk, txn, review, used>>
FinishRead(p) ==
    /\ pc[p] = "reading"
    /\ Return(p)
    /\ UNCHANGED <<disk, mem, review, used>>

\* What sync_status() shows; an operator who is shown a candidate may accept it
\* later.
Shown(p) ==
    /\ mem' = [mem EXCEPT ![p] = Observed(p)]
    /\ review' = IF SyncState(manifest) = "external-change-detected"
                 THEN Candidate(manifest.generation, docs) ELSE review

\* sync_status(), asked of a server: no transaction, hence no recovery, but the
\* first baseline is made when there is none, even next to a pending journal.
SyncStatus(p) ==
    /\ pc[p] = "idle"
    /\ mem[p].server
    /\ mem[p].ready
    /\ \/ /\ HasManifest
          /\ Shown(p)
          /\ UNCHANGED <<disk, lease, pc, txn, used>>
       \/ /\ ~HasManifest
          /\ Valid(docs)
          /\ txn' = [txn EXCEPT ![p] = [NoTxn EXCEPT !.op = "status"]]
          /\ Goto(p, "first")
          /\ UNCHANGED <<disk, lease, mem, review, used>>
StatusShown(p) ==
    /\ pc[p] = "made"
    /\ txn[p].op = "status"
    /\ Shown(p)
    /\ Return(p)
    /\ UNCHANGED <<disk, used>>

-----------------------------------------------------------------------------
(* adopt_external_change *)

\* _adoption_replay_locked: the acceptance already happened, by the receipt or,
\* when the receipt was lost, by the baseline it must have produced.
AdoptionReplay(p) ==
    LET want == txn[p].want IN
    /\ SyncState(manifest) = "in-sync"
    /\ \/ receipt = [want |-> want, result |-> manifest]
       \/ manifest = Candidate(want.generation + 1, want.files)

AdoptionCurrent(p) ==
    /\ SyncState(manifest) = "external-change-detected"
    /\ Candidate(manifest.generation, docs) = txn[p].want

ReviewAdoption(p) ==
    /\ Finds(p, "dispatch")
    /\ txn[p].op = "adopt"
    /\ txn[p].mode = "none"
    /\ IF AdoptionReplay(p) THEN InspectAndReturn(p)
       ELSE IF AdoptionCurrent(p) THEN InspectAndGoto(p, "confirm")
       ELSE InspectAndRefuse(p)

\* The second inspection: the candidate must still be the one accepted.
ConfirmAdoption(p) ==
    /\ pc[p] = "confirm"
    /\ IF AdoptionCurrent(p)
       THEN /\ mem' = [mem EXCEPT ![p] = Observed(p)]
            /\ txn' = [txn EXCEPT ![p].mode = "adopt"]
            /\ Goto(p, "hash")
            /\ UNCHANGED <<disk, lease, review, used>>
       ELSE InspectAndRefuse(p)

WriteReceipt(p) ==
    /\ pc[p] = "receipt"
    /\ receipt' = [want |-> txn[p].want, result |-> manifest]
    /\ Goto(p, "settle")
    /\ UNCHANGED <<docs, author, journal, manifest, adopted, lease, txn, mem,
                   review, used>>

-----------------------------------------------------------------------------
(* Faults and the outside world *)

\* The process dies: its memory and its lease go, what it wrote stays.
Crash(p) ==
    /\ Running(p)
    /\ used.faults < MaxFaults
    /\ used' = [used EXCEPT !.faults = @ + 1]
    /\ Goto(p, "idle")
    /\ txn' = [txn EXCEPT ![p] = NoTxn]
    /\ mem' = [mem EXCEPT ![p] = FreshMem]
    /\ lease' = NoProc
    /\ UNCHANGED <<disk, review>>

\* A file cannot be read, written or removed: the step raises an OSError and
\* the transaction ends where it is.  The generation is counted before the
\* manifest is written.
FileFails(p) ==
    /\ Running(p)
    /\ ~(pc[p] = "saved" /\ txn[p].op = "commit")
    /\ used.faults < MaxFaults
    /\ used' = [used EXCEPT !.faults = @ + 1]
    /\ Goto(p, "idle")
    /\ txn' = [txn EXCEPT ![p] = NoTxn]
    /\ IF txn[p].op \in {"start", "initialize"}
       THEN mem' = [mem EXCEPT ![p] = FreshMem] /\ lease' = NoProc
       ELSE /\ mem' = IF pc[p] \in {"local", "publish"}
                      THEN [mem EXCEPT ![p].generation = NextGeneration(p)]
                      ELSE mem
            /\ lease' = IF mem[p].server THEN lease ELSE NoProc
    /\ UNCHANGED <<disk, review>>

\* An external writer edits, deletes or restores one document.
Restorable(d) == IF HasManifest THEN {manifest.files[d]} ELSE {}
ExternalEdit(d, body) ==
    /\ used.edits < MaxEdits
    /\ body # docs[d]
    /\ RawRace \/ \A p \in Procs : d \notin txn[p].target
    /\ ScanRace \/ \A p \in Procs : pc[p] \notin {"first", "validate", "rehash"}
    /\ docs' = [docs EXCEPT ![d] = body]
    /\ author' = [author EXCEPT ![d] = "external"]
    /\ used' = [used EXCEPT !.edits = @ + 1]
    /\ UNCHANGED <<journal, manifest, adopted, receipt, lease, pc, txn, mem, review>>

-----------------------------------------------------------------------------
Init ==
    /\ docs = [d \in Docs |-> Absent]
    /\ author = [d \in Docs |-> "external"]
    /\ journal = NoWrites
    /\ manifest = NoManifest
    /\ adopted = NoCandidate
    /\ receipt = [want |-> NoCandidate, result |-> NoManifest]
    /\ lease = NoProc
    /\ pc = [p \in Procs |-> "idle"]
    /\ txn = [p \in Procs |-> NoTxn]
    /\ mem = [p \in Procs |-> FreshMem]
    /\ review = NoCandidate
    /\ used = [commits |-> 0, edits |-> 0, faults |-> 0]

\* The calls a program chooses to make ...
Call(p) ==
    \/ StartServer(p) \/ Initialize(p) \/ Load(p) \/ AdoptExternalChange(p)
    \/ SyncStatus(p) \/ Exit(p)
    \/ RetainLease(p) \/ ReleaseLease(p) \/ ConsistentRead(p)
    \/ \E targets \in SUBSET Docs : SaveMany(p, targets)

\* ... and the steps each call then takes.
Step(p) ==
    \/ RecoverLocked(p) \/ CaptureExpectations(p)
    \/ ValidateFirst(p) \/ EstablishBaseline(p)
    \/ \E d \in Docs : CompareTarget(p, d)
    \/ ReplaceTarget(p) \/ ReplayApplied(p) \/ CommitApplied(p)
    \/ LocalBaselineTasks(p) \/ WriteLocalBaseline(p)
    \/ UnlinkJournal(p) \/ ForgetJournal(p) \/ Settle(p)
    \/ AssertWritable(p) \/ WriteJournal(p)
    \/ HashDocuments(p) \/ NoticeLateChange(p)
    \/ ValidateDocuments(p) \/ RehashDocuments(p) \/ PublishManifest(p)
    \/ ResolveLateExternalChange(p) \/ CommitReturns(p)
    \/ ServerStarted(p) \/ InitializeFresh(p) \/ AdmitExisting(p)
    \/ FinishInitialization(p) \/ \E d \in Docs : LoadDocument(p, d)
    \/ LoadInspected(p) \/ StatusShown(p) \/ FinishRead(p)
    \/ ReviewAdoption(p) \/ ConfirmAdoption(p) \/ WriteReceipt(p)

External ==
    \E d \in Docs : \E body \in ExternalBodies \cup {Absent} \cup Restorable(d) :
        ExternalEdit(d, body)

Next ==
    \/ \E p \in Procs : Call(p) \/ Step(p) \/ Crash(p) \/ FileFails(p)
    \/ External

Spec == Init /\ [][Next]_vars

-----------------------------------------------------------------------------
(* Properties *)

Labels == {"idle", "recover", "capture", "apply", "replace", "tasks", "local",
           "unlink", "close", "forget", "settle", "dispatch", "commit", "inspect",
           "first", "made", "hash", "validate", "rehash", "publish", "late", "saved",
           "finish", "confirm", "receipt", "reading"}
Baselines == [generation : Nat, files : Files \cup {NoFiles}]
Marks == [state : {"in-sync", "external-change-detected",
                   "external-change-invalid"},
          changed : SUBSET Docs, files : Files \cup {NoFiles}]
Mems == [server : BOOLEAN, ready : BOOLEAN, generation : Nat, mark : Marks,
         recovered : BOOLEAN]
\* Expectations of the targets of a set of writes; Absent where no file is.
Expectations == UNION {[S -> Bodies \cup {Absent}] : S \in SUBSET Docs}
Modes == {"none", "recover", "commit", "finish", "adopt"}
Txns == [op : {"none", "start", "initialize", "commit", "load", "adopt",
               "status"},
         mode : Modes,
         base : BOOLEAN, work : Writes, expect : Expectations,
         expected : Files \cup {NoFiles}, todo : SUBSET Docs,
         target : SUBSET Docs, snap : Files \cup {NoFiles},
         want : Baselines, emitted : Nat]

\* Every variable has its type.
TypeOK ==
    /\ docs \in Files
    /\ author \in [Docs -> {"store", "external"}]
    /\ journal \in Writes
    /\ manifest \in Baselines
    /\ adopted \in Baselines
    /\ receipt \in [want : Baselines, result : Baselines]
    /\ lease \in Procs \cup {NoProc}
    /\ pc \in [Procs -> Labels]
    /\ txn \in [Procs -> Txns]
    /\ mem \in [Procs -> Mems]
    /\ review \in Baselines
    /\ used \in [commits : Nat, edits : Nat, faults : Nat]

\* Once no journal is pending, a document Work Stack wrote last holds exactly
\* what the manifest names: no crash, failing write, refusal or replay leaves
\* the documents between two commits (save_many, _recover_locked).
NoHalfCommit ==
    ~Pending /\ HasManifest =>
        \A d \in Docs : author[d] = "store" => docs[d] = manifest.files[d]

\* A save_many that reports success left nothing to recover, and the baseline
\* names every body it wrote, on each branch an external edit can force it
\* through (_commit_prepared_locked).
SavedIsAccepted ==
    \A p \in Procs : pc[p] = "saved" =>
        /\ ~Pending
        /\ HasManifest
        /\ Carries(manifest.files, txn[p].work)

\* One successful commit emits at most MAX_COMMIT_EVENTS events, whichever of
\* its branches an external writer drives it through; the id projected for the
\* notice published after it is therefore a ceiling.
MaxCommitEvents == 3
CommitEventCeiling ==
    \A p \in Procs : pc[p] = "saved" => txn[p].emitted <= MaxCommitEvents

\* A generation names one baseline: a manifest that replaces another always
\* has a greater generation, whoever writes it and after whatever fault.
GenerationAdvances ==
    [][manifest' # manifest /\ HasManifest =>
           manifest'.generation > manifest.generation]_vars

\* A commit replaces only the bytes the accepted baseline names: a target an
\* external writer changed is preserved (supported writer contract).
CommitPreservesForeign ==
    [][\A p \in Procs : \A d \in txn[p].target :
           (txn[p].mode = "commit" /\ HasManifest /\ docs'[d] # docs[d])
               => docs[d] = manifest.files[d]]_vars

\* A replay replaces only bytes of the accepted baseline or of its journal.
RecoveryPreservesForeign ==
    [][\A p \in Procs : \A d \in txn[p].target :
           (txn[p].mode = "recover" /\ HasManifest /\ docs'[d] # docs[d])
               => docs[d] \in {manifest.files[d], journal[d]}]_vars

\* An acceptance publishes the candidate the operator reviewed, never one an
\* external writer changed after the review (adopt_external_change).
AdoptsWhatWasReviewed ==
    [][\A p \in Procs :
           (pc[p] = "publish" /\ txn[p].mode = "adopt" /\ manifest' # manifest)
               => manifest'.files = txn[p].want.files]_vars

\* Retrying an acceptance that already made the manifest in force is answered
\* as a replay, whatever was lost after it: the response, the receipt, or the
\* process (_adoption_replay_locked).
AcceptanceReplays ==
    \A p \in Procs :
        (/\ pc[p] = "dispatch" /\ txn[p].op = "adopt"
         /\ txn[p].want = adopted /\ manifest.files = adopted.files
         /\ docs = manifest.files)
            => AdoptionReplay(p)

\* A consistent_read sees one version: while it reads the documents one by
\* one, no other program's transaction or replay replaces any of them, however
\* the lease was taken, kept or lost before.
ReadSeesOneVersion ==
    [][\A p \in Procs : pc[p] = "reading" =>
           \A d \in Docs : docs'[d] # docs[d] => author'[d] = "external"]_vars

\* Only a missing file is ever initialized: no step writes the default of a
\* fresh store over a document the accepted baseline names.
OnlyMissingInitialized ==
    [][\A p \in Procs : \A d \in txn[p].target :
           (HasManifest /\ docs'[d] # docs[d] /\ docs'[d] = Default)
               => docs[d] # manifest.files[d]]_vars

\* The bodies a baseline may come to name: also malformed ones, when an external
\* writer may act between their validation and their hashing.
Accepted == IF ScanRace THEN Bodies ELSE Bodies \ Malformed
Accepts(files) == Present(files) /\ (ScanRace \/ Valid(files))

\* The Store implements its promise about the accepted baseline.
Atomic == INSTANCE AtomicStore WITH
              Bodies <- Accepted,
              baseline <- manifest.files,
              declared <- journal
ImplementsAtomicStore == Atomic!Spec

-----------------------------------------------------------------------------
(* The inductive invariant behind the safety properties *)

LocalWrites(writes) == \A d \in DOMAIN writes : writes[d] \in 0 .. MaxCommits

\* The lease serializes transactions: only its holder runs one, and only a
\* server keeps it between two.
LeaseHeld(p) ==
    /\ (Running(p) \/ mem[p].server) => lease = p
    /\ ~Running(p) => txn[p] = NoTxn

\* The labels between a journal's appearance and its unlink, for the process
\* that is working on it, and the labels that are reached without one.
Publishing(p) == pc[p] \in {"hash", "validate", "rehash", "publish"}
Inspecting(p) == pc[p] \in {"inspect", "first", "made"}
InCommit(p) == Publishing(p) /\ txn[p].mode = "commit"
Noticing(p) == Inspecting(p) /\ txn[p].mode = "commit"
Replacing(p) == pc[p] \in {"apply", "replace"}
Working(p) ==
    \/ pc[p] \in {"capture", "apply", "replace", "tasks", "local", "unlink",
                  "close", "forget", "late"}
    \/ InCommit(p) \/ Noticing(p)
Clear(p) ==
    \/ pc[p] \in {"dispatch", "commit", "saved", "finish", "confirm",
                  "receipt", "settle", "reading"}
    \/ Publishing(p) /\ ~InCommit(p)
    \/ Inspecting(p) /\ ~Noticing(p) /\ txn[p].op # "status"

JournalFollowed(p) ==
    /\ Working(p) => Pending
    /\ Clear(p) => ~Pending
    /\ LocalWrites(txn[p].work)
    /\ (txn[p].op = "commit" \/ pc[p] = "commit") => DOMAIN txn[p].work # {}
    /\ (Working(p) /\ txn[p].mode = "commit") => journal = txn[p].work
    /\ txn[p].todo \cup txn[p].target \subseteq DOMAIN journal
    /\ ~Replacing(p) => txn[p].todo = {}
    /\ pc[p] # "replace" => txn[p].target = {}

\* Which kind of work each label belongs to.
ModeFollowed(p) ==
    /\ (Replacing(p) \/ pc[p] \in {"tasks", "local", "unlink"}) =>
           txn[p].mode \in {"recover", "commit"}
    /\ pc[p] \in {"close", "late"} => txn[p].mode = "commit"
    /\ pc[p] = "forget" => txn[p].mode = "recover"
    /\ pc[p] = "receipt" => txn[p].mode = "adopt"
    /\ Publishing(p) => txn[p].mode \in {"commit", "finish", "adopt"}
    /\ Inspecting(p) => txn[p].mode \in {"none", "commit", "finish"}
    /\ pc[p] \in {"recover", "capture", "dispatch"} => txn[p].mode = "none"

\* What the writer holds about the baseline agrees with the manifest.
BaselineFollowed(p) ==
    /\ (/\ Replacing(p) \/ pc[p] \in {"tasks", "local", "late"}
           \/ InCommit(p) \/ Noticing(p)
        /\ txn[p].base) =>
           HasManifest /\ txn[p].expected = Overlay(manifest.files, journal)
    /\ ((Replacing(p) \/ InCommit(p)) /\ ~txn[p].base) => ~HasManifest
    /\ ((Replacing(p) /\ txn[p].mode = "commit") \/ InCommit(p)) =>
           txn[p].expected \in Files /\ Carries(txn[p].expected, journal)
    /\ pc[p] \in {"tasks", "local"} => txn[p].base
    /\ pc[p] \in {"forget", "first"} => ~HasManifest
    /\ pc[p] \in {"unlink", "close"} =>
           HasManifest /\ Carries(manifest.files, journal)
    /\ (pc[p] = "saved" \/ (pc[p] = "settle" /\ txn[p].mode = "commit")) =>
           HasManifest /\ Carries(manifest.files, txn[p].work)
    /\ pc[p] \in {"settle", "receipt", "confirm", "late", "made"} => HasManifest

\* A document Work Stack wrote last still holds what it is about to publish,
\* and the documents what was validated, unless an external writer may come in.
SnapshotFollowed(p) ==
    /\ pc[p] \in {"validate", "rehash", "publish"} =>
           /\ txn[p].snap \in Files /\ Present(txn[p].snap)
           /\ (txn[p].mode = "commit" => txn[p].snap = txn[p].expected)
           /\ \A d \in Docs : author[d] = "store" => docs[d] = txn[p].snap[d]
    /\ ~ScanRace =>
           /\ (pc[p] = "first" => Valid(docs))
           /\ (pc[p] \in {"validate", "rehash"} => docs = txn[p].snap)
           /\ (pc[p] \in {"rehash", "publish"} => Valid(txn[p].snap))
    /\ pc[p] = "local" =>
           \A d \in DOMAIN journal : author[d] = "store" => docs[d] = journal[d]

\* Every body Work Stack left on disk is one the baseline or the journal names,
\* and the baseline names no missing document and, while no external writer acts
\* between a validation and a hashing, no malformed one.
DocumentsOwned ==
    /\ LocalWrites(journal)
    /\ HasManifest =>
           /\ Accepts(manifest.files)
           /\ \A d \in Docs : author[d] = "store" =>
                  \/ docs[d] = manifest.files[d]
                  \/ d \in DOMAIN journal /\ docs[d] = journal[d]

ProcessInv(p) ==
    /\ LeaseHeld(p)
    /\ JournalFollowed(p)
    /\ ModeFollowed(p)
    /\ BaselineFollowed(p)
    /\ SnapshotFollowed(p)

\* Every transaction is where its journal, its baseline and its lease say it
\* is, and nothing on disk is unaccounted for: what makes the safety
\* properties inductive.
StoreInv ==
    /\ TypeOK
    /\ DocumentsOwned
    /\ \A p \in Procs : ProcessInv(p)

\* What a commit has announced when it is at a label: an external change found
\* late, the baseline, and the change that stays beside it, one event each.
EventsFollowed(p) ==
    /\ txn[p].mode = "commit" =>
           /\ (Replacing(p) \/ InCommit(p) \/ Noticing(p)) => txn[p].emitted = 0
           /\ pc[p] \in {"tasks", "local", "late"} => txn[p].emitted <= 1
           /\ pc[p] \in {"unlink", "close", "settle"} => txn[p].emitted <= 2
    /\ pc[p] = "saved" => txn[p].emitted <= MaxCommitEvents

\* What a target must hold to be replaced: a commit expects what the baseline
\* names, and what was compared is what is replaced unless an external writer
\* may come in between.
TargetsFollowed(p) ==
    /\ (Replacing(p) /\ txn[p].mode = "commit" /\ HasManifest) =>
           \A d \in DOMAIN journal : txn[p].expect[d] = manifest.files[d]
    /\ ~RawRace => \A d \in txn[p].target : docs[d] = txn[p].expect[d]

\* The invariant with what a commit announces and replaces: no branch of
\* _commit_prepared_locked announces more than its part, and what
\* _atomic_write_locked compared is what it replaces.
CommitInv ==
    /\ StoreInv
    /\ \A p \in Procs : EventsFollowed(p) /\ TargetsFollowed(p)

-----------------------------------------------------------------------------
(* The way of a transaction *)

\* A replay comes first, then the inspection of the call it makes room for, then
\* its commit, then what an initialization or an acceptance publishes.
Phase(label, mode) ==
    CASE label = "idle" -> 0
      [] label \in {"recover", "capture", "forget"} -> 4
      [] label \in {"dispatch", "commit"} -> 3
      [] label \in {"close", "late", "saved"} -> 2
      [] label \in {"finish", "confirm", "receipt", "reading"} -> 1
      [] OTHER -> CASE mode = "recover" -> 4 [] mode = "none" -> 3
                    [] mode = "commit" -> 2 [] OTHER -> 1

\* The order of the labels of one phase.
Position(label) ==
    CASE label = "recover"               -> 1  [] label = "capture"          -> 2
      [] label = "dispatch"              -> 3  [] label = "tasks"            -> 12
      [] label \in {"finish", "confirm"} -> 5  [] label \in {"apply", "replace"} -> 6
      [] label = "hash"                  -> 7  [] label \in {"inspect", "validate"} -> 8
      [] label \in {"first", "rehash"}   -> 9  [] label \in {"made", "publish"} -> 10
      [] label \in {"commit", "late"}    -> 11 [] label = "local"            -> 13
      [] label \in {"close", "receipt", "unlink", "forget"} -> 14
      [] label = "settle"                -> 15 [] label = "saved"            -> 16
      [] OTHER                           -> 17

FartherOn(p) ==
    LET before == Phase(pc[p], txn[p].mode)  after == Phase(pc'[p], txn'[p].mode) IN
    \/ after < before
    \/ after = before /\ Position(pc[p]) < Position(pc'[p])
    \/ /\ after = before /\ Position(pc[p]) = Position(pc'[p])
       /\ \/ txn'[p].todo \subseteq txn[p].todo /\ txn'[p].todo # txn[p].todo
          \/ txn'[p].todo = txn[p].todo /\ pc[p] = "replace" /\ pc'[p] = "apply"

\* A transaction that has begun never goes back: whatever any program, fault or
\* external writer does, its own steps lead on to a later label, or leave fewer
\* targets to replace.  No branch of _recover_locked, _commit_prepared_locked or
\* _resolve_late_external_change_locked tries again, so it takes at most four
\* phases, with a pass over its targets in the replay and in the commit.
TransactionsAdvance ==
    [][\A p \in Procs :
           Running(p) => FartherOn(p) \/ UNCHANGED <<pc[p], txn[p]>>]_vars

-----------------------------------------------------------------------------
(* Liveness *)

\* A started transaction keeps running; programs come back after they end and
\* keep opening transactions, as a server does for every request.
Fairness == \A p \in Procs :
    /\ WF_vars(Step(p))
    /\ WF_vars(Initialize(p) \/ Load(p))
FairSpec == Spec /\ Fairness

\* No transaction hangs: each ends and, outside a server, frees the lease.
TransactionsEnd ==
    \A p \in Procs : Running(p) ~> ~Running(p)

\* The journal waits for an external change to be undone only when one of its
\* targets holds foreign bytes, or some document is gone.
ReplayBlocked == ~RecoveryTargetsSafe \/ ~Present(docs)

\* A pending journal does not stay: it is replayed or finished, or an external
\* change blocks it.
RecoveryCompletes == Pending ~> (~Pending \/ ReplayBlocked)
=============================================================================
