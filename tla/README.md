# Work Stack: a verification project

TLA+ models of Work Stack, the runs that check them with TLC on small
instances, and theorems that TLAPS proves for every instance. Paths such as
`workstack/store.py:342` are paths of the repository.

Modelled are the two write paths, the two longest protocols of the desktop, and the
retried intents of the page on top of the first write path. The
collection Store (`workstack/store.py`, `store_recovery.py`, `store_sync.py`) has
an abstract promise, and a proof that it keeps it. The v4 write session
(`workstack/storage/write_session.py` and what it uses) and the managed update of
a remote server (`desktop/python-webview-shell/remote_update_*.py` with the
connection registry's activation receipts) have one each, and a proof each. So have
the keyed intents on the status of a Task, followed from the page (`frontend/src/app/useTaskStatusIntent.ts`,
`frontend/src/features/review/MutationNoticePanelUndo.ts`) through the server's
receipts (`workstack/service_idempotency.py`) to the store and back, and these are
proved to keep what they promise. The owner receipt of a remote data directory
(`desktop/python-webview-shell/remote_owner*.py`, `remote_process_handle.py`,
`remote_entry.py`), which says who may serve it and who may stop the server, has its
promise and its proof as well. The rest of the system is inventoried and planned below.

## 1. The system

Work Stack keeps a person's planning state (tasks, objectives, replies, reports)
as a directory of JSON documents: the single source of truth. A local HTTP
server, a desktop shell around it, command line writers and agents read and
write it; people and file-sync tools may edit the files behind its back.

| component | sources | state | operations |
|---|---|---|---|
| Store | `workstack/store.py`, `store_recovery.py`, `file_lease.py` | documents, recovery journal, writer lease, RLock and depth | `transaction`, `save_many`, `_recover_locked`, `initialize`, `load`, `consistent_read`, `server_lease`, `try_acquire_writer_lease` |
| External change | `store_sync.py` | manifest (generation, hashes), adoption receipt, observation mark, event deque | `_inspect_sync_locked`, `sync_status`, `adopt_external_change`, `wait_for_sync_event` |
| Rebind, schema upgrade | `store_rebind.py`, `store_schema_upgrade.py`, `store_*_migration.py` | rebind receipt, backups, schema version | rebind a copied workspace, one-way v3..v6 conversion |
| Service | `service*.py`, `mutation_*.py`, `checkpoint_*.py` | everything inside the documents | one load / validate / `save_many` per command; notices, checkpoints, idempotent replay |
| v4 storage | `storage/*.py` | phase journal, staged files, manifest, lease, SQLite projection | multi-target write session, recovery, migration, backup, task deletion |
| Knowledge | `knowledge_*.py` | attempt guards, request ledger | issue, claim, verify, execute once |
| Capture | `capture*.py` | observations, unlink receipts | observe, compare-and-swap unlink |
| HTTP server, agents, CLI | `server*.py`, `agent_*.py`, `cli_*.py`, `owner_authority.py` | admission, owner session | route a request, take the lease or forward to its owner |
| Desktop: remote update | `remote_update_flow*.py`, `remote_update_host_*.py`, `remote_update_*_adapter.py`, `remote_update_session_record.py` | flow on screen, journal of identities, session record, evidence gate | run a stage, reconcile, restore, roll back, resume after a restart, retire |
| Desktop: connection registry | `connection_registry*.py`, `connection_activation*.py` | selected connection, activation receipts, issue bindings | build a candidate, write a receipt, replace the registry, confirm, restore |
| Remote owner | `remote_owner*.py`, `remote_process_handle.py`, `remote_receipt_*.py`, `remote_entry.py` (on the remote host) | owner receipt, receipt guard, the processes of the host | probe, serve, stop: read, judge, reclaim or publish a receipt; pin, signal and watch a process |
| Desktop: the rest | `desktop/python-webview-shell/*` | startup state, attempts, worker queues | start and shut down an attempt; run one request at a time |
| Frontend: keyed intents | `useTaskStatusIntent.ts`, `MutationNoticePanelUndo.ts`, `api/transport.ts` | the frozen intent of the status hook, its Undo offer and lifetime; the Undo of the panel; the CSRF nonce held | mark as started, undo, retry under the same key, hear an answer, change owner |
| Frontend: the rest, integrations | `frontend/`, `integrations/` | browser state; fixed packets | views and adapters |

How they interact: everything that changes planning state ends in one
`Store.transaction`. Inside a process the threads of the server share one RLock
for a whole transaction; between processes `.workstack.lock` is a non-blocking
lease. Every outermost transaction starts with `_recover_locked`. External
writers honour neither lock; they are noticed by comparing the documents with
the manifest's hashes, and they stop writes until an operator accepts them. The
v4 storage is a second, independent write path with its own lease and journal.
The desktop shell supervises the server, locally or over ssh, under an owner
generation.

### What is hard

* A commit replaces several files; a crash, a failing write, an external edit
  or a refusal can fall between any two of them.
* The documents are read several times in one transaction, at different steps:
  what was compared is not necessarily what is hashed, replaced or accepted.
* Recovery runs inside the next transaction of whichever program comes next.
* A commit next to an unrelated external change must take in its own writes
  and only those (the local baseline), from any of three points where it can
  notice.
* Generations and event counts are kept in memory and on disk at once.
* A retry of an acceptance must be told from a stale one after the answer, the
  receipt or the process was lost.
* An update spans two programs, two hosts and a restart between its last stages.
  A request may take effect after its answer was given up on, and a reconnect
  composes a second flow beside a call that the first still has out.
* A stop judges a process it does not hold: it may end, be reaped, and have its
  pid given to another between any two looks at `/proc`, and its successor may be
  started meanwhile, on this host or on another that shares the directory.
* A keyed command is refused, replayed or run depending on checks made in one
  order: nonce, journal, documents, receipt, revision, save. The page has to
  conclude from the answer, or from none, what is in force.

### What makes each component correct

* Store: no document is left between two commits; a reported save is accepted
  and has nothing left to recover; foreign bytes are not overwritten; a
  transaction ends; a journal does not stay for ever.
* External change: what is accepted is what was reviewed; a generation names one
  baseline; an acceptance is recognised when retried.
* Rebind and upgrade: never while a journal is pending; a lost step is resumed
  or undone.
* Service: one key runs once; revisions guard every update; a notice is published
  exactly when its commit is.
* Page: an intent is retried under its own key until it is answered; an Undo
  reverses the change it was offered for, or nothing; an answer that comes late
  is nobody's.
* v4 storage: all targets or none, in every phase a write can die in; the
  projection never answers for a manifest it was not built from.
* Knowledge and capture: an attempt is consumed once; an unlink removes only
  what was observed.
* Remote owner: a server runs only under a receipt of its own, and nobody takes that
  receipt away while it runs; a stop signals its own process and no other, and
  reports it gone only when it is; what an ended owner leaves is cleared.
* Desktop: a managed update never selects a
  server without a backup and a way back; what it asked for and never heard of is
  on record, can be addressed by the next process, and is asked about, not
  repeated.

## 2. The modules

| module | what it is |
|---|---|
| `AtomicStore` | what the Store promises about its accepted baseline: writes are declared, take effect at once for all their documents, and are over only when nothing of them is missing |
| `Store` | the detailed model: files, journal, manifest, receipt, lease, processes, faults and external writers; its properties and its inductive invariant |
| `MCStore` | the instance TLC checks, with its symmetry |
| `StoreTypes` | the lemmas that every operation keeps the types |
| `StoreProofs` | the inductive invariant, the safety theorems and the refinement |
| `StoreCommitProofs` | on top of it, what a commit announces and what it may replace, and that a transaction never goes back |
| `AtomicAuthority` | what the v4 write session promises: an operation that was prepared takes effect once, whole, with its answer in the ledger, and is never abandoned |
| `V4WriteSession` | the detailed model of the session, its recovery and the two ways a program binds to a baseline; its properties and its inductive invariant |
| `V4WriteSessionProofs` | the lemmas that every operation keeps the types and the invariant, the safety theorems and the refinement |
| `MCV4WriteSession` | the instance TLC checks, with its symmetry |
| `ManagedUpdate` | what a managed update promises about the selected server: the selection moves only over a backup and a staged candidate, a candidate is final only when a process runs from it, and is never undone afterwards |
| `RemoteUpdateFlow` | the detailed model: flows, journal, session record, gate, registry, receipts, remote host, and the start that composes them; its properties and its inductive invariant |
| `RemoteUpdateFlowProofs` | the lemmas that every step keeps the types and each part of the invariant, the safety theorems and the refinement |
| `MCRemoteUpdateFlow` | the instance TLC checks |
| `OneOwner` | what the owner receipt promises: a claim is taken when there is none, outlives its owner, and is given up by that owner or once it no longer serves |
| `RemoteOwner` | the detailed model: hosts, boots, processes and their pids, the receipt, its guard, and the runs of the entry that probe, serve and stop; its properties and its inductive invariant |
| `RemoteOwnerProofs` | the lemmas that every step keeps the invariant, the safety theorems and the refinement |
| `MCRemoteOwner` | the instance TLC checks |
| `IntentLedger` | what keyed intents promise: accepted once at most, at the revision they were expressed against; what is reported accepted was, what is reported stale never is |
| `TaskIntents` | the detailed model: the page's two intents, the calls, the nonce, the server's commands with their receipts, journal and restarts, the other writers |
| `TaskIntentsProofs` | its inductive invariant, the safety theorems and the refinement |
| `MCTaskIntents` | the instance TLC checks |

### Store: state

| variable | code |
|---|---|
| `docs` | the roster's JSON files; a body stands for its SHA-256, `Absent` for no file |
| `journal` | `.workstack-journal.json`, target to body, empty when there is no file |
| `manifest` | `.workstack-store-manifest.json`: generation and accepted bodies |
| `receipt` | `.workstack-sync-receipt.json` |
| `lease` | the holder of `.workstack.lock` |
| `pc`, `txn` | where the running transaction of each process is, and its local variables: the writes, the expectations of `_atomic_write_locked`, the expected baseline, the hashed snapshot, the events emitted |
| `mem` | the fields of the `Store` object: server lease kept, `_ready`, `_generation`, the last candidate fingerprint, `_recovered_without_baseline` |
| `review` | the candidate an operator was last shown |
| `author`, `adopted` | history: who wrote each document last; which request made the manifest in force |
| `used` | how much of each bound is spent |

### Store: actions

One step is one read of the documents, or one replacement or unlink of a file.

| action | code |
|---|---|
| `StartServer`, `ServerStarted` | `server_lease` and the recovery it runs |
| `RetainLease`, `ReleaseLease` | `try_acquire_writer_lease`, `release_writer_lease`: the lease without a recovery |
| `Initialize`, `InitializeFresh`, `AdmitExisting`, `FinishInitialization` | `initialize`: an empty directory commits the defaults, another one is admitted whole |
| `RecoverLocked`, `CaptureExpectations`, `ReplayApplied`, `ForgetJournal` | `_recover_locked`: safety check, expectations read again, replay, end with or without a baseline |
| `CompareTarget`, `ReplaceTarget` | the two halves of `_atomic_write_locked` |
| `SaveMany`, `AssertWritable`, `WriteJournal`, `CommitApplied`, `CommitReturns` | `save_many` and `_commit_prepared_locked` |
| `LocalBaselineTasks`, `WriteLocalBaseline` | the local baseline next to an unrelated external change |
| `HashDocuments`, `NoticeLateChange`, `ValidateDocuments`, `RehashDocuments`, `PublishManifest` | `_write_committed_manifest_locked`: read, inspect what is not as expected, validate, read again, replace |
| `ValidateFirst`, `EstablishBaseline` | `_ensure_sync_manifest_locked` where there is no manifest: validate, then read again and write the first baseline |
| `ResolveLateExternalChange`, `UnlinkJournal`, `Settle` | the late branch, the end of the journal, the closing inspection |
| `Load`, `LoadDocument`, `LoadInspected`, `ConsistentRead`, `FinishRead`, `SyncStatus`, `StatusShown` | `load`, `consistent_read`, `sync_status` |
| `AdoptExternalChange`, `ReviewAdoption`, `ConfirmAdoption`, `WriteReceipt` | `adopt_external_change` with its replay |
| `Crash`, `FileFails`, `Exit` | the process dies; a file operation raises; the program ends |
| `ExternalEdit` | an external writer edits, removes or restores one document, between any two steps |

An exception leaves the transaction through `Refuse` or `InspectAndRefuse`: the
journal stays, a temporary lease is released, a server's is kept, and a program
that was still opening its store ends.

### V4WriteSession: state

| variable | code |
|---|---|
| `files` | the authority's records and stream segments, and `idempotency-ledger.v1.json`; a body stands for its digest |
| `stage` | `.<name>.workstack-stage-<suffix>` beside each target |
| `journal`, `jstage` | `write-journal.v2.json` with its phase, base and proposed manifests and targets; whether its `.stage` exists |
| `manifest` | `authority-manifest.v2.json`: generation and roster |
| `lease` | the holder of `writer.lock` |
| `pc`, `txn` | where each call is, and its local variables: baseline, proposal, targets to do, stages made |
| `mem` | the baseline a program is bound to between calls: a `VerifiedCommandBaseline` or a `V4WritableRepositorySession` |
| `author`, `recorded` | history: who changed each file last; the ledger of the generation in force |
| `used` | how much of each bound is spent |

### V4WriteSession: actions

| action | code |
|---|---|
| `LoadBaseline`, `ReadRuntimeState`, `ReadLedger`, `ReadPhysical` | `_load` of the task and capture repositories: recover, then read manifest, ledger and artifacts one after the other |
| `Admit`, `AdmitReadRepository` | `admit_experimental_v4_mutation_repository`: read the authority, recover, then verify it as above |
| `Propose`, `CheckAdmissionFresh` | `commit_command_proposal`; `V4WritableRepositorySession.commit` |
| `AcquireLease`, `OpenExecution`, `OpenRecovery` | `execute_write_session` and `_recover_locked` up to their first write |
| `StageJournal`, `PublishJournal` | the two halves of `_publish_journal`, for each phase |
| `VerifyRecoveryState`, `VerifyReplacement`, `VerifyAuthority` | `_verify_recovery_state` before staging and after each replacement; `_actual_manifest` at the end |
| `StageUnneeded`, `OpenStage`, `FillStage`, `TargetsStaged` | `_stage_targets`, `_write_stage` |
| `TargetApplied`, `CompareTarget`, `ReplaceTarget`, `TargetsApplied` | `_apply_stages`, `_cleanup_stages` |
| `PublishManifest`, `RemoveJournal`, `Return` | `_complete_generation` and the end of the call |
| `Crash`, `FileFails`, `ExternalEdit` | the process dies; a file operation raises; an external writer changes an artifact |

There is no rollback: a recovery completes the operation or refuses and keeps the
journal. `Refuse` and `RefuseAndCleanUp` are the two ways an exception leaves,
before and after `_stage_targets` has returned the list that `_cleanup_stages`
goes through.

### RemoteUpdateFlow: state

| variable | code |
|---|---|
| `flow` | one `RemoteUpdateFlow` per composition: stage, code, place in the run order, `_pending`, `_anchor`, activation identity, what it learned (`staged`, `backup`, `restored`, `plan`), and the evidence its gate is owed |
| `published` | the flow on screen; a reconnect retires it |
| `host`, `runtime` | how far the desktop has started; the selection this process was started from |
| `journal` | `remote_update_journal.py`: the pending operation and the anchor on disk, and which instances observed that record (`fresh`) |
| `session` | `remote_update_session_record.py`: open, retired, and the evidence kept in it |
| `registry` | the selected connection, the activation receipts and the issue bindings, each by the identity it was made for |
| `remote` | the owner on the remote host (alive, exited with its receipt left, or released by a confirmed stop that removed it), the stop that removed the receipt while its answer is awaited (`stopper`), requests on their way, the staging, the archives and the restores that exist there |
| `nextId`, `used` | the next identity; how much of each bound is spent |
| `history` | identities that may have had an effect and whose outcome no flow has learned; whether a reconnect overtook a call; whether the update was verified |

### RemoteUpdateFlow: actions

| action | code |
|---|---|
| `StartServer`, `ConfirmSelected` | the start brings up the selected server and confirms its receipt (`workstack_desktop.py:979`) |
| `Compose`, `CompositionFails`, `Reconnect`, `RestartDesktop`, `Crash` | the host surface composes, retires and drops flows; the process ends |
| `RunPreview`, `RunMutation`, `RunProbe`, `RunVerify`, `Cancel` | `advance` and `retry`, stage by stage; `cancel` |
| `Resume` | `resume_after_restart` |
| `RestoreBackup`, `RollbackActivation` | the two recoveries |
| `Reconcile`, `ObservationFails` | `reconcile`, answered or not |
| `SendRequest`, `Arrives`, `Answer`, `CallRefused` | a call to the remote host: sent, effective there, answered or its answer lost, refused before any effect |
| `Bind`, `MarkIssued`, `WriteReceipt`, `ReplaceRegistry`, `FinishReceipt`, `LocalFails` | an activation, one file operation at a time |
| `ConfirmReceipt`, `RestoreRegistry`, `RestoreReceipt` | a confirmation; a rollback, one file operation at a time |
| `RetireSession` | the completion hook |

`Issue` and `Settle` are `_issue_locked` and `_settle_locked`. Each ends in
`Record`, which lands, raises, or raises after it replaced the file; an instance
that did not observe the record on disk is refused by it.

### RemoteOwner: state

| variable | code |
|---|---|
| `boot` | the boot each host is in: `local_boot_identity` |
| `proc` | every process ever started, by its start identity: its pid (with its host), its boot, whether it runs, has ended and not been reaped, or is gone, and whether it is a serve of the desktop that has published (`owner`) or not yet (`serve`) |
| `next` | the next start identity: the kernel's start time, which is not given out twice |
| `receipt` | the owner receipt file: none, one of before fencing, or that of a process, which stands for its host, boot, pid, start and token |
| `guard` | the holder of `.workstack-remote-owner.lock` |
| `run` | each run of `remote_entry.py`: its command, host, own process, the session whose token it carries, the receipt it judged (`seen`), the process its handle pins, and where it is |
| `faults` | how much of its bound is spent |

### RemoteOwner: actions

One step is one look at the receipt or at `/proc`, or one change of either. A run may
stand between any two of them while processes end and start.

| action | code |
|---|---|
| `OtherStarts`, `ProcessEnds`, `Reap`, `Reboot` | the kernel: a process takes a free pid, ends, is reaped; a host goes down with its processes, runs and locks |
| `BeginProbe`, `BeginServe`, `BeginStop` | `run_probe`, `run_serve`, `stop_owned_result` up to the guard |
| `TakeGuard`, `GuardRefused` | `owner_receipt_guard` |
| `ReadNothing`, `ReadRefused`, `ReadOwner` | the receipt read and compared: digest, token, fencing (`classify_owner_fencing`); one of an earlier boot is judged without a look at its pid |
| `ObserveLive`, `ObserveExited`, `ObserveReplaced` | `LinuxProcController.observe`, and what probe, serve and stop make of it |
| `OpenPins`, `OpenVacant`, `OpenUnsupported`, `Identify` | `open_owned_process`: the pidfd first, the start identity under it |
| `Poll`, `Signal`, `WaitExited` | `_stop_through_owned_handle`, `_await_handle_exit` |
| `WatchExited`, `Unconfirmed` | `_await_exit_without_signal`; either budget spent |
| `Compare`, `Remove`, `RemoveFails` | `_unlink_receipt_if_unchanged_locked`; also the withdrawal of a serve whose exec failed |
| `Publish`, `PublishRefused` | `write_owner_receipt_exclusive`: the hard link, then the guard |
| `Exec`, `ExecFails` | `os.execv` and `remove_published_owner_receipt_if_still_ours` |
| `Unreadable`, `Killed` | a file or process that cannot be read, pinned, polled or signalled; the run dies |
| `OperatorClears` | the step that the refusal of an unfenced receipt asks for |

What is abstracted: start identities never collide, where the code calls the kernel's
ticks a practical discriminator (`remote_process_handle.py:150`), and boots neither,
though two may share a `btime`; the guard is one lock for all hosts, as the shared
file system must make it; every desktop has the workspace the directory is of; the
wait for an exit is one step, a poll that finds it or a budget that is spent; and the
temporary file of a publication, which no reader looks at, is left out. What a server
does with the SIGTERM is its own: it may end at any time, or never.

### Abstractions of the Store

* A body is its digest; documents are valid, `Malformed` (refused by
  `validate_document_values`) or `Inadmissible` (valid but breaking a candidate
  rule). One inspection of a candidate validates and hashes the same bytes: the
  code hashes again after the validation and calls what differs invalid
  (`store_sync.py:294`), so the transient refusal "the candidate changed while it
  was validated" is left out, and so is a document edited there and back. The
  digests of the tasks in a document are read with it.
* Where the code does not look again, validation and hashing are two steps: of the
  first baseline (`:237`, `:244`) and of a committed one (`:160`, `:161`). An
  external edit between them is possible only when `ScanRace` is TRUE, so that the
  theorems can say what holds without it too.
* The threads of one process are one process: the RLock is held for the whole
  outermost transaction.
* An external edit between the comparison of a target and its `os.replace` is
  possible only when `RawRace` is TRUE. The repository documents it as an
  unsupported boundary (`docs/REVISION-AWARE-SSOT-SYNC-MILESTONE-2026-08-31.md:13`);
  one run takes it in, to show what still holds.
* The idempotency-key conflict of `adopt_external_change`, `seed_demo`, and the
  runtime secret and server-info files (single atomic writes outside the
  roster) are left out.
* The event deque is reduced to the number of events one commit emits.

### Abstractions of V4WriteSession

* One read of the whole authority is one step, and so are the two reads behind
  one proposal of an admitted session; both sides of the transition are compared
  with the manifest under the lease again.
* External writers change artifacts, not the runtime directory. Bodies are valid;
  one that is not makes `read_v4` refuse, as a changed digest does later.
* A staged file in the authority makes `read_v4` refuse. That is the code's rule
  for records and streams (`layout.py:166-173`); the two files of the root,
  `store.json` and `workspace.json`, are not told apart.
* Targets are applied in the order of their scope, artifacts before the ledger;
  among artifacts in any order, of which the code's sorted one is an instance.
* Operation identifiers are not modelled: a stage is its target's. That two
  operations never meet each other's stage is what `NoResidue` shows.
* The workspace identity, the byte limits and the checks for links are left out;
  so are the ledger's expiry and the first publication of a manifest.

### TaskIntents: state

One Task. A transaction of the server is one step: that it may be seen so is what
`store_safety` and the theorems about `Store` say. What is left of a commit that
raised or died is its journal.

| variable | code |
|---|---|
| `doc` | of `tasks.json` and `activity.json`: the revision and status of the Task, its status changes (planning fact and mutation notice in one), and the receipts of `idempotency` |
| `journal`, `foreign` | the values of a commit that did not end; whether a target holds bytes of an external writer |
| `sync` | what `_inspect_sync_locked` finds of the other documents |
| `epoch`, `token` | the server process and its `csrf_token`; the nonce the page holds (`csrfTokenPromise`) |
| `calls` | requests under way, with their answer once there is one; `heard` is FALSE when the connection broke and the server works on |
| `hook` | the refs of `useTaskStatusIntent` (slot, frozen intent, attempt, offer, latest revision, lifetime) and the Task the page shows |
| `panel` | the refs and state of `useMutationNoticeUndo` |
| `asked`, `told` | history: intents expressed, and what the page concluded of them |

### TaskIntents: actions

| action | code |
|---|---|
| `MarkInProgress`, `UndoLast`, `RetryIntent` | `markInProgress`, `undoLast`, `retry` with `dispatch` |
| `UndoNotice`, `RetryNotice`, `Dismiss` | `startUndo`, `onDismiss` |
| `Forbid` | `_require_browser_mutation`: the nonce, before any transaction |
| `RefuseRecovery`, `Recover` | the start of a transaction over a journal: refused, or replayed |
| `RefuseRead`, `Replay`, `Refuse`, `RefuseSave` | `load` while a document is invalid; `_idempotency_replay`; the refusals of `set_task_status_v1` and `_undo_mutation_notice_locked`; `save_many` while an external change waits |
| `Commit`, `CommitStops`, `CommitRaces` | one save of Task, fact, notice and receipt: whole; stopped by a failed write before or after its journal; stopped by a target that changed |
| `OtherCommand` | the unkeyed commands: `patch_task`, `set_task_status` |
| `Restart` | the process ends and another starts, with a nonce of its own |
| `EditDocuments`, `SettleDocuments`, `UndoForeign` | external writers and the operator |
| `Deliver`, `Lose` | the answer arrives (`settle` of the hook, of the panel); the connection breaks, before the server, at it or behind it |
| `Refresh`, `RefreshToken`, `ChangeOwner` | the workspace read again; a 403 of an ordinary mutation; `commitOptions` and the owner generation |

Where the model is coarser: the hook's liveness check (`isCurrent`) is not derived
from the caches, any completion may find the page unable to act; its Undo may be
called while the offer it holds does not show (`undoRef` after a historical receipt),
which a page only does from a handler it kept; the panel offers
the Undo of every recorded change, the code only of those on the page that was
read; two statuses stand for the four of a Task; a server that cannot start again
while foreign bytes are under a journal is not seen going down.

## 3. The runs

| run | instance | shows |
|---|---|---|
| `store_safety` | 2 programs, 2 documents, 2 commits, 1 edit, 1 fault; valid and malformed external bodies; scan race on | no half commit; a reported save is accepted; the ceiling of three events; generations advance; a consistent read sees one version; a commit preserves foreign bytes; the inductive invariant, with what a commit announces and replaces; every step implements `AtomicStore` |
| `store_liveness` | 1 program, 1 commit, 2 edits, 1 fault, with fairness; raw race and scan race on; a body that breaks a candidate rule | every transaction ends; a pending journal is replayed or finished unless an external change blocks it, even when a foreign edit is overwritten in the unsupported window |
| `store_adopt` | 1 program, 2 edits | finding 1 |
| `store_recover` | 1 program, 1 commit, 1 edit, 1 fault | finding 2 |
| `store_reinitialize` | 1 program, 1 commit, 4 edits | finding 3 |
| `v4_write_safety` | 2 programs, 2 artifacts and the ledger, 2 operations, 1 fault | the inductive invariant; the ledger moves with the generation; a command looks for replays in the ledger of its own generation; no journal is built on an older ledger; none is ambiguous; no staged file is left; what is reported is in force; every step implements `AtomicAuthority` |
| `v4_write_external` | 1 program, 2 artifacts and the ledger, 1 operation, 2 edits, 2 faults, with fairness | no operation is left in part under external edits; foreign bytes are not overwritten; a pending journal is completed unless a foreign change or a torn stage blocks it |
| `v4_write_torn_stage` | 1 program, 1 operation, 1 fault | finding 4 |
| `remote_update` | 2 compositions, 5 identities, 1 fault, 1 reconnect; a plan that migrates nothing; with fairness | the inductive invariant; what is in flight, or in effect without an outcome, is on record and addressable; the registry always selects what can be taken back; a selected candidate has its anchor and its backup on record; a stop or a backup is heard of in the end, unless a lost answer was the only proof of the stop; every step implements `ManagedUpdate` |
| `remote_update_settles` | 2 compositions, 4 identities, 1 fault, no reconnect, with fairness | finding 5 |
| `task_intents` | 2 intents, 2 calls at a time, 2 revisions, 2 faults, 1 external edit or change of owner, with fairness | the inductive invariant; an Undo reverses exactly its change; the hook offers an Undo of its own changes of this lifetime only, one that no longer shows included; every step implements `IntentLedger`; every intent ends with an answer |
| `remote_owner` | 2 hosts, one of them with pidfd, 2 pids on the first and 1 on the second, 2 runs, 2 processes, 1 fault, with fairness | the inductive invariant, and so that the receipt of a running server stays; a stop signals its own process only and reports it gone only when it is; every step implements `OneOwner`; the receipt of an ended owner is cleared in the end |

### Bounds

`MaxCommits`, `MaxEdits` and `MaxFaults` bound how many commits are attempted,
how many external edits happen, and how many crashes and failing files together.
The initialization is a commit of its own, outside `MaxCommits`.

* Two documents: the smallest roster in which a commit can be torn, and in
  which one document can change while another is written.
* Two programs: the second finds the journal of the first, or its lease.
* Two commits: the second recovers, or is refused because of, the first.
* One edit and one fault in the safety run, two edits in the others: one edit
  reaches each of the branches (target, unrelated, late); two let an edit be
  undone.
* Generations need no bound of their own: they grow with commits, faults and
  acceptances, and an acceptance needs an edit.

For the v4 session: two artifacts are the fewest of which one can be replaced and
the other not; two operations let one start over what the first left, or from a
baseline the first made stale; two faults let a recovery die as well. An edit
and a second operation together are beyond the time a run has; for the safety
properties the theorems below cover them, and any number of either.

For the update: five identities are one more than an update without a fault mints
(prepare, stop, backup, activation), so a stage can be issued again after it was
refused, or a restore can follow. Two compositions are a flow and the one that a
reconnect puts beside its call; after that flow has ended, or after a restart, a
composition is free again. One fault is a crash, a failed file operation or an
unresolved record at any step; lost answers and refusals cost nothing and happen
at any time. What a preview says of migration is read in one place, as a condition
for a rollback (`NotMigrated`), so the plan that migrates nothing has the steps of
every other; after a restart it is unknown again, and the condition fails too. Checked
once, outside the listed runs, for their size: two faults (1.4 million states), both
plans (1.2 million), and a restore that cannot prove the data back (`RestoreProves`
FALSE). A desktop that stops answering and an
update that is complete may rest: the run does not check for deadlock.

For the intents: two keys are a change and its Undo, or one intent of the hook
and one of the panel; two calls are an attempt whose answer was given up on and
its retry, both at the server; two revisions leave room for one change by someone
else; two faults let an answer be lost and the server die, or the commit of the
retry be interrupted too. Safety and refinement were also checked with three keys
and one fault (0.9 million states), where the hook and the panel undo the same
change. The counters bound what is expressed and what fails, so the system stops
when they are spent: the run does not check for deadlock.

For the owner receipt: two processes are an owner and its successor, or an owner and
whatever takes its pid; two runs are a stop beside a start, or two starts; the second
pid of the first host lets two servers be up there at once, and the same number on the
second host is the pid that must not be looked up on the wrong one. One fault is a
kill, a failed operation or a reboot anywhere; processes end and are reaped as often as
they like, and a run that dies right after its publication costs nothing, so a receipt
is abandoned also without a fault. The invariant was also checked with two faults, a
reboot and a kill (1.6 million states). A probe can always begin, and no run waits for
another for ever: the run checks for deadlock. Hosts differ in their pidfd, and runs
are named in the fairness: no symmetry is used.

Programs and documents or artifacts are symmetric: no action treats one of them
apart. The runs with fairness use no symmetry; neither do the flows, the free one
of which is chosen.

### Fairness

`Fairness` asks two things of each program. `WF(Step(p))`: a started
transaction keeps running; nothing in it waits for another program, because the
lease is non-blocking and a refusal ends the transaction. `WF(Initialize \/
Load)`: programs come back after they end and keep opening transactions, as a
server does for every request and a command line writer when it is run again.
No fairness is assumed of faults, external writers or operators. `Pending ~>`
is conditional: a journal whose target holds foreign bytes stays, by design,
until they are undone (`ReplayBlocked`).

In `V4WriteSession` a call that began keeps running (`WF(Step(p))`; a held lease
refuses, nothing waits). `SF(LoadBaseline(p))` says that a program which holds a
command repository keeps issuing commands, whatever it admits in between: each
command begins by recovering. A program that only ever admits is not helped by
it, and cannot be: the admission below.

In `RemoteUpdateFlow` the desktop starts and ends its own calls, and a request on
its way reaches the host or is lost (`WF`). `SF(AskAgain)` is the operator: with an
identity unsettled the screen offers to reconcile and nothing else, and the
operator keeps asking until an answer is definite, over the faults between. An
observation that never gets through is excluded by it, as the code gives up on
none. `UnknownSettles` claims this for stops and backups only: a staging is
observable only by the process that issued it, and an activation may stay unknown
for ever (finding 5). It leaves out the stop whose answer is lost after it removed
the receipt (`StopUnprovable`, section 5), which is unknown until a restart or a
reconnect brings up a new owner; nothing makes the operator do either.

In `TaskIntents` a call at the server ends and its answer arrives, one weak
fairness per call; a server always runs its next transaction (`WF(Recover)`). The
rest is the environment, and `IntentsSettle` says no more than it gives: the user
retries an outcome that is unknown, as nothing else is offered for it; bytes under
a retained journal are put back in the end; and an ordinary mutation of the page
meets its 403 and fetches the nonce, because a single attempt never does
(`transport.ts:205`). Without that last one the hook would retry under the nonce of
a dead server for ever. No fairness is assumed of answers that are lost: their
number is bounded.

In `RemoteOwner` a run goes on until it ends (`WF(Step(w))`) and gets the guard in the
end (`SF(TakeGuard(w))`): holds are shorter than the ten seconds a run waits for it,
and one that gives up is a fault. An ended process is reaped by its parent (`WF`). The
desktop of each host probes the directory again and again (`SF` of `BeginProbe`), as
it does before every start; without it nothing looks at a receipt that was left.
`AbandonedIsCleared` needs the probe of the very host the owner ran on, as no other
may judge it.

## 4. What is proved

For every set of programs and documents, every number of commits, edits and
faults, and both values of `RawRace` and of `ScanRace`, from the assumptions `Store` names
(`ProcsAssumption`, `DocsAssumption`, `BodiesAssumption`, `BoundsAssumption`); and
for any statuses that include open and started, any number of revisions, intents,
calls under way, faults and events, from those of `TaskIntents`
(`StatusesAssumption`, `BoundsAssumption`); and for any programs, artifacts, external
bodies, operations, edits and faults, from those of `V4WriteSession`
(`ProcessesAssumption`, `ArtifactsAssumption`, `ContentAssumption`,
`LimitsAssumption`), for both values of its `RawRace` but where the table says so; and
for any hosts, with or without pidfd, any pids, runs, processes and faults, from those
of `RemoteOwner` (`HostsAssumption`, `PidsAssumption`, `SentinelsAssumption`,
`LimitsAssumption`); and for any number of compositions, identities, faults and
reconnects, any plans and either answer of a restore, from those of `RemoteUpdateFlow`
(`FlowsAssumption`, `PlansAssumption`, `LimitsAssumption`):

| theorem | says |
|---|---|
| `StoreInvariant` | `Spec => []StoreInv` |
| `TypeCorrect` | `Spec => []TypeOK` |
| `NoHalfCommitHolds` | once no journal is pending, what Work Stack wrote last is what the manifest names |
| `SavedIsAcceptedHolds` | a reported save left nothing to recover and is named by the manifest |
| `GenerationAdvancesHolds` | a manifest that replaces another has a greater generation |
| `ReadSeesOneVersionHolds` | only an external writer can change a document under a consistent read |
| `ImplementsAtomicStoreHolds` | the Store implements `AtomicStore`, with malformed bodies among those it accepts only if `ScanRace` |
| `CommitInvariant` | `Spec => []CommitInv` |
| `CommitEventCeilingHolds` | a commit emits three events at most, on any of its branches |
| `CommitPreservesForeignHolds` | a commit replaces only the bytes the manifest names, unless `RawRace` |
| `TransactionsAdvanceHolds` | each step of a transaction leads to a later label or leaves fewer targets |
| `IntentsInvariant` | `Spec => []IntentsInv`, of `TaskIntents` as all below |
| `IntentsTypeCorrect` | `Spec => []TypeOK` |
| `UndoIsExactHolds` | an Undo reverses the change right before it, and no other |
| `OfferIsItsOwnHolds` | what the hook offers to undo is a change of its own, of this lifetime |
| `ImplementsIntentLedgerHolds` | the page and the server implement `IntentLedger` |
| `WriteSessionInvariant` | `Spec => []WriteSessionInv`, of `V4WriteSession` as all below |
| `SessionTypeCorrect` | `Spec => []TypeOK` |
| `NoPartialGenerationHolds` | once no journal is pending, what a session changed last is what the manifest names |
| `LedgerIsExactHolds` | the ledger moves with the generation, of which the manifest does not name it |
| `ReplaysFromItsLedgerHolds` | a command looks for its replay in the ledger of the generation it is bound to |
| `LedgerExpectedInForceHolds` | no journal expects an older ledger than the one in force |
| `RecoveryUnambiguousHolds` | a recovery always finds the base or the proposal of its journal |
| `NoResidueHolds` | no staged file outlives its operation |
| `ReportedIsInForceHolds` | what is reported committed is in force, with its answer |
| `ForeignPreservedHolds` | no replacement overwrites foreign bytes, unless `RawRace` |
| `ImplementsAtomicAuthorityHolds` | the session implements `AtomicAuthority` |
| `OwnerInvariant` | `Spec => []OwnerInv`, of `RemoteOwner` as all below |
| `ServingIsRecordedHolds` | the published receipt is that of every server that runs: no two run under one of their own |
| `ConfirmedIsGoneHolds` | a stop reports its owner gone only when it is |
| `SignalsItsOwnHolds` | a stop signals the process of its own session |
| `ImplementsOneOwnerHolds` | the receipt implements `OneOwner` |
| `UpdateInvariant` | `Spec => []UpdateInv`, of `RemoteUpdateFlow` as all below |
| `UpdateTypeCorrect` | `Spec => []TypeOK` |
| `UpdateInFlightIsRecorded` | the identity of a call that is out for the flow on screen is the one on record |
| `UpdateOpenIsRecorded` | an identity that may have had an effect, and whose outcome no flow has learned, is on record |
| `UpdateSelectionIsReversible` | the registry selects nothing without a receipt in force, and one activation waits at most |
| `UpdateAnchorWhileSelected` | a selected candidate of an incomplete update has its activation, or the call that settles it, on record, unless a reconnect overtook a call |
| `UpdateUnsettledIsAddressable` | what is on record can be addressed by the next process, unless a reconnect overtook a call |
| `UpdateSourceKeptBeforeActivation` | until the update is verified, a candidate is selected only over durable evidence of what to restore |
| `UpdateImplementsManagedUpdate` | the flow, its journal and the registry implement `ManagedUpdate` |

Every invariant and every action property of the passing runs has a theorem; what has
none is liveness.

### The argument for the Store

None of the safety properties is inductive. `NoHalfCommit` speaks of states
without a journal, so it needs to know what holds while there is one.
`StoreInv` says it, in parts:

* `DocumentsOwned`: every document Work Stack wrote last holds what the manifest
  or the pending journal names. This is what survives a crash at any step, and what
  makes a replay sufficient. The manifest names no missing document, and no
  malformed one unless `ScanRace`: `Accepts`.
* `LeaseHeld`: a program inside a transaction, or a server, holds the lease; an
  idle one has nothing in hand. With one lease there is one program inside a
  transaction, so a step of a process leaves the others' part alone
  (`StepKeeps`), and each action is examined for its own process only.
* `JournalFollowed`, `ModeFollowed`: which labels have a journal, and that the
  journal is the list of writes of the transaction in flight.
* `BaselineFollowed`: what the transaction believes of the baseline agrees with
  the manifest: the expected files are the manifest overlaid by the journal, and
  the journal is removed only when the manifest carries it, or when there is no
  baseline.
* `SnapshotFollowed`: the hashed snapshot about to be published covers what Work
  Stack wrote, and is the expected baseline in a commit; unless `ScanRace`, it is
  still what the documents hold and what was validated.

`Kept(p)` is what each action is shown to establish: the disk stays accounted
for, the process is where its label says, the others are untouched. The
refinement follows from three lemmas that say which actions can change the
manifest, the journal or a document (`ManifestWritten`, `JournalWritten`,
`DocumentsWritten`); each of those few actions is then mapped to a step of
`AtomicStore`.

Two properties need more. `CommitEventCeiling` counts through three branches that
announce at different labels, and `CommitPreservesForeign` speaks of a replacement
whose comparison was a step before it. `CommitInv` adds, for each program:

* `EventsFollowed`: how much a commit has announced when it is at a label: nothing
  while its targets are replaced and the documents hashed, one event at most where it
  has found an external change, two at most once the baseline is written.
* `TargetsFollowed`: a commit expects of each target what the baseline names, and a
  target that was compared still holds what was expected, unless `RawRace`.

The second half is where the hypothesis of `CommitPreservesForeignHolds` comes from:
the documented window between a comparison and its `os.replace` is the only one in
which a commit overwrites a foreign document. A replay is another matter (finding 2).

`TransactionsAdvance` is the half of `TransactionsEnd` that needs no fairness, stated
for every instance: a program, a fault or an external writer may end a transaction,
but none can make it begin again, as a branch that tried a commit or a replay a second
time would. `FartherOn` orders the steps by `Phase` (a replay, the inspection of the
call it makes room for, its commit, what is published without one), then by `Position` among the labels of the phase, then
by the targets left. The labels that a replay and a commit share have one place in that
order because the mode tells whose they are, so each action is shown to keep the mode
or to change it where the phase ends (`AheadWithin`, `AheadByMode`), and the loop over
the targets to leave one fewer (`TargetsAdvance`). What remains of `TransactionsEnd` is
that a transaction whose step is enabled takes it, which TLC checks. TLC finds
`TransactionsAdvance` satisfied with the constants of each run of the store; no run
lists it.

### The argument for the intents

`UndoIsExact` is lost if a command can commit against another state than the one it
was expressed against, and what makes that impossible is spread over the page, the
calls, the receipts and the journal. `IntentsInv` collects it:

* `DocumentsSound`: the recorded changes lead to the present state, each Undo among
  them is exact, and a receipt of a mark as started that moved the Task has its
  change. A pending journal is sound in the same way, and `Follows` the documents:
  it is what one command makes of them. So a replay, whenever it comes, is the step
  the command would have been.
* `AskedSound`: an intent was expressed against a revision the Task had, and one
  expressed against the present revision saw the present status. This carries the
  compare-and-set from the page to the commit, over any number of retries.
* `CallsSound`: the current attempt of a place carries the intent that place holds,
  an answer "ok" on its way is that of a receipt in force, and a conflict of
  revisions on its way is of an intent that is `Dead`: the Task has moved on and no
  receipt is its. Dead intents stay dead, since a receipt is only written at the
  present revision, which is why a report "stale" is final.
* `PageSound`: an unresolved place holds an intent that was asked, the hook one of
  its present lifetime, and an offer is the hook's own change.

A step is of one of three kinds (`StepIsOfAKind`): it sends a call for an intent
(`Sends`), moves the documents by what one command makes of them and answers
truly (`ServerStep`), or is of the page alone (`PageStep`). Each kind keeps the
invariant and maps to a step of the ledger or a stutter; each action is shown to be
of its kind.

### The argument for the write session

A reader of the v4 storage takes no lease: it reads manifest, ledger and artifacts
one after the other beside a session that replaces them, and the manifest does not
name the ledger. What keeps it from answering with another generation's ledger is
spread over the order of the targets, the verification of the artifacts and the
comparison under the lease. `WriteSessionInv` collects it:

* `LeaseHeld`: from its opening to its release a session is alone, so the disk is
  moved by one process at a time; the others only read and propose.
* `JournalSound`: a pending journal takes a whole roster from its base to its
  proposal, changes at least one artifact, and the manifest is one of the two.
* `FilesSound`: while the base is in force each target holds what it held or what
  it is to hold, and the ledger is replaced last (`LedgerLast`); once the proposal
  is in force, or no journal is left, the files are those of the manifest
  (`FilesBefore`, `FilesAfter`). This survives a death at any step.
* `BindingsSound`, with `LedgerOf`: what a reader found in the ledger of the
  manifest in force is its own, or that of the operation about to replace it. The
  second is found only when every artifact already holds the proposal, and then
  the verification against the manifest that was read refuses it (`BoundLedger`).
* `DraftSound`: a proposal for the next generation expects a ledger of that kind,
  and the comparison under the lease leaves only the one in force.
* `SessionSound`: which phases and targets are behind a session at each label.

A step that only reads or proposes keeps everything but its own part
(`StillStep`); a step of a session owes the disk, its own part, and that what
others have read stays bound (`Onward`, `SessionStep`, with `StagesStep` for the
staged files alone). In the refinement, publishing the journal of the first phase
is `Prepare`, replacing the manifest is `TakeEffect`, removing the journal is
`Finish`, and every other step stutters.

### The argument for the owner receipt

The guard excludes runs, not processes: a run removes a receipt long after it looked
at `/proc`, and nothing stops that process meanwhile, or starts another under its pid.
`OwnerInv` says why the removal is right all the same:

* `ServingIsRecorded`: the receipt is that of every server that runs.
* `ProcessesInv`: start identities are given out in order, a pid is held by one process
  at a time, and none outlives its boot. This is what a look at `/proc` proves: a pid
  that is vacant, or has another start, or is of an earlier boot, says that the process
  of the receipt is over.
* `GuardInv`: whoever is between its reading and its removal holds the guard.
* `ServesInv`: a serve is a process of its own, and an owner from its publication on.
* `JudgedInv`: what the holder of the guard read is still the receipt, and what it
  found is still so. This is stable because it is about ends only: an ended process
  stays ended (`Ages`), and a vacant pid may be taken, but by another start. A handle
  is the exception: until the start is read under it (`Identify`) it may be of anybody,
  and the invariant says only that it is the owner's if the pid carries its start now.

Steps fall into those that only move the holder on (`AdvancesKeeps`, from what it may
have found, `MayBeAt`), those that end a run (`EndedKeeps`), those outside the guard
(`OutsideKeeps`), starts of processes, and the few that touch the receipt. In the
refinement a publication is `Take`, a withdrawal after a failed exec is `GivesUp`, any
other removal is `Clear`, and whatever ends the server is `Ends`.

### The argument for the update

What an update asked for is kept in four places that are written one after the other:
the flow in memory, the journal, the session record and the registry with its
receipts; and the remote host may be ahead of all of them. Most properties compare two
of these at any moment of the others, and are not inductive. `UpdateInv` says how they
stand to each other between any two writes:

* `IdentitiesInv`: an identity on record or in a flow was minted, a receipt belongs to
  one, and a confirmation has the anchor it confirms. A fresh identity is in nobody's
  way.
* `FlowsInv`: a flow off screen is one that a reconnect left inside a call, and what a
  flow is at says what it holds.
* `RecordedInv`: what is open is on record; the flow on screen is the one instance that
  may write the journal while it calls; a call that is not on record is of an identity
  that was settled for good (`moot`). This keeps a retired flow and its successor from
  recording over each other.
* `EvidenceInv` (`Established`, `SourceKept`): how far a flow or a record says the update
  is, and that the staging, the archive and the durable source it relies on are there. It
  speaks of the journal too, because a restart rebuilds its flow from what is on disk.
* `IssuerInv`, `ReceiptsInv`: an activation is written by the one flow that issued it, and
  its receipt and the selection are where that flow is; a rollback restores the registry
  before the receipt.
* `StartedInv`: what a start brought up is what is selected, and confirmed, until its
  first flow looks.
* `KnownInv`, `SessionInv`: a selected candidate is known to the journal and to every
  flow; a session record is retired when nothing is left to record. Both are claimed only
  until a reconnect composes a flow beside a call that is out (`history.overtaken`).

An action changes few of the places, so each part has a lemma for each kind of step: a
step of one flow leaves the others alone, a record moves the journal, a local step the
registry. In the refinement a replacement of the registry is `Select` or `Undo`, a
start is `Start` and its confirmation `Confirm`, what the last of staging and archive
brings is `Cover`, and every other step stutters.

### Only model-checked

* `TransactionsEnd`, `RecoveryCompletes` (of both stores), `UnknownSettles`,
  `IntentsSettle` and `AbandonedIsCleared`: liveness under fairness is out of the
  prover's reach.
* The five refuted claims of section 5, each a behaviour that TLC found.

## 5. Findings

Each is a run that TLC refutes; the first four were reproduced on the program.

1. `store_adopt`: `adopt_external_change` re-inspects the candidate
   (`store_sync.py:577`) and then publishes what the documents hold when they are
   hashed (`:580`, `:157`). An edit between the two is adopted without review; the
   comment at `:574-576` says a changed candidate is never silently adopted.
2. `store_recover`: `_recover_locked` checks the targets (`store_recovery.py:131`)
   and then reads the expectations of the replay again (`:133-140`). Bytes
   written in between become the expectation and are overwritten, against
   `store_recovery.py:78` and line 19 of the synchronization milestone.
3. `store_reinitialize`: `initialize()` takes a directory without documents for a
   fresh one even when its manifest is there (`store.py:636`). It journals the
   defaults, fails, and leaves the journal. When the documents come back, the
   next recovery finds them equal to the baseline and replaces them by defaults;
   `contracts/api-v1.md:370-371` says only a missing file may be initialized.
4. `v4_write_torn_stage`: a process that dies while it writes a staged file leaves
   a torn one under the operation's own name. `_write_stage` accepts only a
   residue with the proposed bytes (`storage/write_session.py:407-410`), so every
   recovery refuses with `STAGE_FILE_CONFLICT` and every operation after it with
   `PENDING_JOURNAL_EXISTS`, although each target is as it was: the journal that
   `recover_write_session` is to finish when it is unambiguous (`:765`) stays.
5. `remote_update_settles`: a process dies after an activation replaced the
   registry and before the flow recorded its outcome. The next start selects the
   candidate and confirms its receipt (`workstack_desktop.py:979`). The identity is
   still on record as issued, and `classify_activation_issue` accepts a pending
   receipt only (`remote_update_flow_outcomes.py:170`): every later observation ends
   unknown, and only reconciling is offered. `remote_update_flow.py:655-657` says
   that a crash between the two leaves a restart something to reconcile.

Six more are seen in the models and have no run of their own:

* The first baseline is validated (`store_sync.py:237`), read again (`:244`) and
  written without another look. A malformed document that an external writer saves
  between the two is accepted with it (`ValidateFirst`, `EstablishBaseline`), though
  `docs/REMOTE-SSH-SSOT-CONNECTION-PLAN-2026-08-31.md:158-161` sends an invalid state
  to `external-change-invalid`, in which writes are disabled, and `:178-179` permits
  acceptance of a fully validated candidate only. The state is then `in-sync`: a load
  refuses the documents, a save that does not mend them is journaled, put in place,
  and refused when its manifest is validated (`:160`), and its journal blocks every
  transaction until the document is mended by hand. What a finish or an acceptance
  publishes can name a malformed document too, one that is whole while `:160` reads it
  and not while `:156` and `:161` do.

* `AcceptanceReplays` of `Store` does not hold (one program, one document, one edit,
  two faults; reproduced on the program): the generation is counted before the manifest
  is written (`store_sync.py:169`) and not taken back when the write fails. The next
  acceptance skips a number, and without its receipt a retry of it is refused, as
  `_adoption_replay_locked` asks for exactly the next generation (`:521`), though line
  23 of the milestone promises its replay.
* A stop that cannot unlink the receipt of the owner whose exit it confirmed raises
  inside the guarded section (`remote_owner.py:358`), and `_stop_owned` reports a guard
  that could not be entered (`:643-647`: "nothing was read, signalled or removed") where
  the owner was signalled and is gone (`RemoveFails`).
* `admit_experimental_v4_mutation_repository` reads the authority
  (`storage/mutation_repository.py:179`) before it recovers (`:189`). A staged
  file left beside a record by a killed process makes that read refuse, and the
  pending journal, which `recover_write_session` alone completes, is never
  recovered by it, against `tests/test_storage_v4_mutation_admission.py:125`
  (`AdmitReadRepository` before `OpenRecovery`; reproduced on the program).
* `frontend/src/api/mutationNotices.ts:270` calls `refused` determinate: "the owner
  answered, and it undid nothing." A retry is refused before its receipt is looked
  up, by a restarted server whose nonce the single attempt does not fetch, by a
  document that is invalid meanwhile (409), or by a retained journal (400), and the
  panel then says that nothing was changed over an Undo in force (`Forbid`,
  `RefuseRead` and `RefuseRecovery` come before `Replay`). `IntentLedger` therefore
  promises nothing about an intent that is reported refused.
* `remote_update_owner_port.py:441-443` says of a stop that timed out that the flow is
  "to reconcile the same identity through" `observe`. A confirmed stop removes the
  owner receipt (`remote_owner.py:618`), and without one the observation reports
  `receipt_absent` and no token, which `classify_owner_stop` keeps unknown
  (`remote_update_flow_outcomes.py:62-63`), on every observation until a new owner
  publishes a receipt (`StopObserved`, where the owner is `released`).

## 6. Plan

In the order of what the rest relies on:

1. `SyncEvents`: the deque of 128 events, its cursor, the long poll and the
   event stream; which events a reader can miss, and whether it is told.
2. `StoreRebind`, `StoreUpgrade`: composed with `Store`'s journal and lease.
3. `V4WriteSession`: the baselines of the intent and objective repositories, which
   read in another order and recover nothing first.
4. `V4Migration`, `TaskDeletion`: publication by one rename; backup, plan digest,
   apply.
5. `Checkpoints`: guarded transitions and the paging of notices, beside
   `TaskIntents`; receipts that refer to a reply.
6. `Tasks`: the task graph operators (cycles, parents, revisions) as functions,
   against reference definitions.
7. `KnowledgeAttempts`, `CaptureUnlink`: one-shot guards and receipts.
8. `OwnerForwarding`, `RemoteStartup`: generations, deadlines, ssh answers lost or
   late, over `RemoteOwner`; `OneOwner` under the stop of `RemoteUpdateFlow`; then the
   registry's other operations beside the update.
9. Theorems: what the abstract specifications imply, to be carried over by the
   refinements; then the modules above as they come.

Recursive operators stay out of the modules that carry proofs: recursion is
written as functions or folds.

## 7. Not modelled, and why

Of the remote update: the default run order, which stops and backs up before it
prepares and is used by no host; the deferral of a cancel during a call; the offer
of the remote skill; a second update attempt, which the retired session record of
the first keeps apart; the continuation of a receipt that was written without its
registry (`_continue_activation`), which answers unknown here; and the projection
of the snapshot to the page. Requests are not lost twice: one that was lost is gone,
one that is late arrives once.

Four of its hazards have no property, because the code settles none of them:
evidence of a preparation that was only learned by reconciling is not kept; a flow
that a reconnect retired may mark an activation as issued after its successor was
told that nothing was, and likewise make a stop or a backup that its successor was told
had no effect (a call that begins after that is `moot` and not counted as open, so
`OpenIsRecorded` is silent on it); a staging cannot be observed after a restart; and an
instance whose last record is unresolved refuses to record anything more until the
process ends.

The HTTP parsing and routing, report formatting, snapshot formats, SQLite
queries, browser views and the adapters' packet conversions are pure functions or
I/O around a Store transaction or a consistent read; their concurrency is the
Store's. Each is listed, with its reason, among the project's components.
