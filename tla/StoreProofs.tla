---------------------------- MODULE StoreProofs ----------------------------
(***************************************************************************)
(* The inductive invariant of the Store, and what follows from it.         *)
(*                                                                         *)
(* One process at a time is inside a transaction, so a step of a process   *)
(* leaves every other one idle with nothing in hand: each step is shown to *)
(* keep what is true of its own process and of the disk.                   *)
(***************************************************************************)
EXTENDS StoreTypes

OthersUntouched(p) ==
    \A q \in Procs \ {p} :
        pc'[q] = pc[q] /\ txn'[q] = txn[q] /\ mem'[q] = mem[q]
Kept(p) == DocumentsOwned' /\ ProcessInv(p)' /\ OthersUntouched(p)

-----------------------------------------------------------------------------
(* Idle processes *)

LEMMA EmptyWrites == DOMAIN NoWrites = {} /\ DOMAIN NoFiles = {}
  BY SMT DEF NoWrites, NoFiles

LEMMA IdleProcess ==
    ASSUME NEW p \in Procs, pc'[p] = "idle", txn'[p] = NoTxn,
           mem'[p].server => lease' = p
    PROVE  ProcessInv(p)'
  <1>1. /\ txn'[p].mode = "none" /\ txn'[p].op = "none"
        /\ txn'[p].work = NoWrites
        /\ txn'[p].todo = {} /\ txn'[p].target = {}
    BY SMT DEF NoTxn
  <1>2. LeaseHeld(p)'
    BY SMT DEF LeaseHeld, Running
  <1>3. JournalFollowed(p)'
    BY <1>1, EmptyWrites, SMT
       DEF JournalFollowed, LocalWrites, Working, Clear, InCommit, Publishing,
           Noticing, Inspecting, Replacing
  <1>4. ModeFollowed(p)'
    BY <1>1, SMT DEF ModeFollowed, Publishing, Inspecting, Replacing
  <1>5. BaselineFollowed(p)'
    BY <1>1, SMT
       DEF BaselineFollowed, Replacing, InCommit, Publishing, Noticing, Inspecting
  <1>6. SnapshotFollowed(p)'
    BY <1>1, SMT DEF SnapshotFollowed
  <1> QED
    BY <1>2, <1>3, <1>4, <1>5, <1>6 DEF ProcessInv

LEMMA StepKeeps ==
    ASSUME StoreInv, TypeOK', NEW p \in Procs, lease \in {NoProc, p}, Kept(p)
    PROVE  StoreInv'
  <1>1. ASSUME NEW q \in Procs, q # p
        PROVE  ProcessInv(q)'
    <2>1. lease # q
      BY <1>1, ProcsAssumption
    <2>2. LeaseHeld(q)
      BY DEF StoreInv, ProcessInv
    <2>3. pc[q] = "idle" /\ txn[q] = NoTxn /\ ~mem[q].server
      BY <2>1, <2>2 DEF LeaseHeld, Running
    <2>4. pc'[q] = pc[q] /\ txn'[q] = txn[q] /\ mem'[q] = mem[q]
      BY <1>1 DEF Kept, OthersUntouched
    <2> QED
      BY <2>3, <2>4, IdleProcess
  <1> QED
    BY <1>1 DEF StoreInv, Kept

\* A running process holds the lease.
LEMMA RunningHolds ==
    ASSUME StoreInv, NEW p \in Procs, Running(p)
    PROVE  lease = p /\ ProcessInv(p)
  BY DEF StoreInv, ProcessInv, LeaseHeld

-----------------------------------------------------------------------------
(* What is on disk stays accounted for *)

LEMMA DiskKept ==
    ASSUME DocumentsOwned, UNCHANGED <<docs, author, journal, manifest>>
    PROVE  DocumentsOwned'
  BY SMT DEF DocumentsOwned, LocalWrites, HasManifest, Valid, Accepts, Present

\* The first baseline takes the documents as they are.
LEMMA BaselineOwned ==
    ASSUME StoreInv, manifest'.files = docs, Present(docs), ScanRace \/ Valid(docs),
           UNCHANGED <<docs, author, journal>>
    PROVE  DocumentsOwned' /\ HasManifest'
  <1>1. DOMAIN docs = Docs
    BY DEF StoreInv, TypeOK, Files
  <1>2. HasManifest'
    BY <1>1, DocsAssumption, SMT DEF HasManifest
  <1>3. DocumentsOwned'
    BY SMT DEF StoreInv, DocumentsOwned, LocalWrites, Accepts, Present, Valid
  <1> QED
    BY <1>2, <1>3

-----------------------------------------------------------------------------
(* The ways a transaction ends *)

LEMMA GotoShape ==
    ASSUME TypeOK, NEW p \in Procs, NEW label, Goto(p, label)
    PROVE  pc'[p] = label /\ \A q \in Procs \ {p} : pc'[q] = pc[q]
  BY SMT DEF TypeOK, Goto

LEMMA TxnShape ==
    ASSUME TypeOK, NEW p \in Procs, NEW t, txn' = [txn EXCEPT ![p] = t]
    PROVE  txn'[p] = t /\ \A q \in Procs \ {p} : txn'[q] = txn[q]
  BY SMT DEF TypeOK

LEMMA MemShape ==
    ASSUME TypeOK, NEW p \in Procs, NEW m, mem' = [mem EXCEPT ![p] = m]
    PROVE  mem'[p] = m /\ \A q \in Procs \ {p} : mem'[q] = mem[q]
  BY SMT DEF TypeOK

LEMMA EndKeeps ==
    ASSUME StoreInv, NEW p \in Procs, Running(p), DocumentsOwned',
           Goto(p, "idle"), txn' = [txn EXCEPT ![p] = NoTxn],
           \/ mem' = [mem EXCEPT ![p] = FreshMem]
           \/ /\ mem'[p].server = mem[p].server
              /\ \A q \in Procs \ {p} : mem'[q] = mem[q]
              /\ lease' = IF mem[p].server THEN lease ELSE NoProc
    PROVE  Kept(p)
  <1>1. pc'[p] = "idle" /\ txn'[p] = NoTxn
    BY GotoShape, TxnShape DEF StoreInv
  <1>2. mem'[p].server => lease' = p
    <2>1. ~FreshMem.server
      BY DEF FreshMem
    <2>2. lease = p
      BY RunningHolds
    <2>3. CASE mem' = [mem EXCEPT ![p] = FreshMem]
      BY <2>1, <2>3, MemShape DEF StoreInv
    <2>4. CASE /\ mem'[p].server = mem[p].server
               /\ lease' = IF mem[p].server THEN lease ELSE NoProc
      BY <2>2, <2>4
    <2> QED
      BY <2>3, <2>4
  <1>3. OthersUntouched(p)
    BY GotoShape, TxnShape, MemShape DEF StoreInv, OthersUntouched
  <1> QED
    BY <1>1, <1>2, <1>3, IdleProcess DEF Kept

LEMMA ReturnKeeps ==
    ASSUME StoreInv, NEW p \in Procs, Running(p), DocumentsOwned', Return(p),
           mem' = mem
    PROVE  Kept(p)
  BY EndKeeps DEF Return

LEMMA RefuseKeeps ==
    ASSUME StoreInv, NEW p \in Procs, Running(p), Refuse(p)
    PROVE  Kept(p)
  <1>1. DocumentsOwned'
    BY DiskKept DEF StoreInv, Refuse, disk
  <1> QED
    BY <1>1, EndKeeps DEF Refuse, Raise

LEMMA InspectionKept ==
    ASSUME StoreInv, NEW p \in Procs, mem' = [mem EXCEPT ![p] = Observed(p)]
    PROVE  /\ mem'[p].server = mem[p].server
           /\ \A q \in Procs \ {p} : mem'[q] = mem[q]
  <1>1. Observed(p).server = mem[p].server
    BY SMT DEF StoreInv, TypeOK, Mems, Observed
  <1> QED
    BY <1>1, MemShape DEF StoreInv

LEMMA InspectAndReturnKeeps ==
    ASSUME StoreInv, NEW p \in Procs, Running(p), InspectAndReturn(p)
    PROVE  Kept(p)
  <1>1. DocumentsOwned'
    BY DiskKept DEF InspectAndReturn, StoreInv, disk
  <1>2. mem'[p].server = mem[p].server /\ \A q \in Procs \ {p} : mem'[q] = mem[q]
    BY InspectionKept DEF InspectAndReturn
  <1> QED
    BY <1>1, <1>2, EndKeeps DEF InspectAndReturn, Return

LEMMA InspectAndRefuseKeeps ==
    ASSUME StoreInv, NEW p \in Procs, Running(p), InspectAndRefuse(p)
    PROVE  Kept(p)
  <1>1. DocumentsOwned'
    BY DiskKept DEF InspectAndRefuse, StoreInv, disk
  <1>2. \/ mem' = [mem EXCEPT ![p] = FreshMem]
        \/ /\ mem'[p].server = mem[p].server
           /\ \A q \in Procs \ {p} : mem'[q] = mem[q]
           /\ lease' = IF mem[p].server THEN lease ELSE NoProc
    BY InspectionKept DEF InspectAndRefuse
  <1> QED
    BY <1>1, <1>2, EndKeeps DEF InspectAndRefuse

\* The steps that leave the transaction under way: what they leave behind is
\* enough at the next label.
LEMMA InspectAndGotoKeeps ==
    ASSUME StoreInv, NEW p \in Procs, Running(p), NEW label \in Labels,
           InspectAndGoto(p, label), ProcessInv(p)'
    PROVE  Kept(p)
  <1>1. DocumentsOwned'
    BY DiskKept DEF InspectAndGoto, StoreInv, disk
  <1>2. \A q \in Procs \ {p} : mem'[q] = mem[q] /\ pc'[q] = pc[q]
    BY InspectionKept, GotoShape DEF InspectAndGoto, StoreInv
  <1>3. \A q \in Procs \ {p} : txn'[q] = txn[q]
    BY SMT DEF InspectAndGoto, StoreInv, TypeOK
  <1> QED
    BY <1>1, <1>2, <1>3 DEF Kept, OthersUntouched

\* One process moves on, and the disk stays as it is.
LEMMA MoveKeeps ==
    ASSUME StoreInv, NEW p \in Procs, NEW label, Goto(p, label),
           UNCHANGED <<disk, lease, txn, mem>>, ProcessInv(p)'
    PROVE  Kept(p)
  BY GotoShape, DiskKept DEF StoreInv, Kept, OthersUntouched, disk

-----------------------------------------------------------------------------
(* Recovery *)

LEMMA RecoverLockedKeeps ==
    ASSUME StoreInv, NEW p \in Procs, RecoverLocked(p)
    PROVE  Kept(p)
  <1>0. Running(p) /\ lease = p /\ ProcessInv(p)
    BY RunningHolds DEF RecoverLocked, Running
  <1>1. ASSUME NEW label \in {"dispatch", "capture"}, Goto(p, label),
               label = "dispatch" => ~Pending, label = "capture" => Pending,
               UNCHANGED <<disk, lease, txn, mem, review, used>>
        PROVE  Kept(p)
    <2>1. pc'[p] = label /\ txn' = txn
      BY <1>1, GotoShape DEF StoreInv
    <2>2. UNCHANGED <<journal, manifest>> /\ lease' = p
      BY <1>0, <1>1 DEF disk
    <2>3. pc[p] = "recover" /\ txn[p].mode = "none"
      BY <1>0, SMT DEF RecoverLocked, ProcessInv, ModeFollowed, Publishing, Inspecting
    <2>4. LeaseHeld(p)'
      BY <2>1, <2>2, SMT DEF LeaseHeld, Running
    <2>5. JournalFollowed(p)'
      BY <1>0, <1>1, <2>1, <2>2, <2>3, SMT
         DEF ProcessInv, JournalFollowed, LocalWrites, Working, Clear, InCommit,
             Publishing, Noticing, Inspecting, Replacing, Pending
    <2>6. ModeFollowed(p)'
      BY <1>1, <2>1, <2>3, SMT DEF ModeFollowed, Publishing, Inspecting, Replacing
    <2>7. BaselineFollowed(p)'
      BY <1>1, <2>1, <2>3, SMT
         DEF BaselineFollowed, Replacing, InCommit, Publishing, Noticing, Inspecting
    <2>8. SnapshotFollowed(p)'
      BY <1>1, <2>1, <2>3, SMT DEF SnapshotFollowed
    <2> QED
      BY <1>1, <2>4, <2>5, <2>6, <2>7, <2>8, MoveKeeps DEF ProcessInv
  <1>2. CASE Refuse(p)
    BY <1>0, <1>2, RefuseKeeps
  <1> QED
    BY <1>1, <1>2 DEF RecoverLocked

LEMMA CaptureExpectationsKeeps ==
    ASSUME StoreInv, TypeOK', NEW p \in Procs, CaptureExpectations(p)
    PROVE  Kept(p)
  <1>0. Running(p) /\ lease = p /\ ProcessInv(p)
    BY RunningHolds DEF CaptureExpectations, Running
  <1>1. /\ pc'[p] = "apply" /\ UNCHANGED <<disk, lease, mem>>
        /\ \A q \in Procs \ {p} : pc'[q] = pc[q] /\ txn'[q] = txn[q]
    BY GotoShape, TxnShape DEF StoreInv, CaptureExpectations
  <1>2. /\ txn'[p].mode = "recover" /\ txn'[p].base = HasManifest
        /\ txn'[p].expected = IF HasManifest THEN Overlay(manifest.files, journal)
                              ELSE NoFiles
        /\ txn'[p].todo = DOMAIN journal /\ txn'[p].target = txn[p].target
        /\ txn'[p].work = txn[p].work /\ txn'[p].op = txn[p].op
    <2> DEFINE base == HasManifest
               expect == [d \in DOMAIN journal |-> docs[d]]
               expected == IF HasManifest THEN Overlay(manifest.files, journal)
                           ELSE NoFiles
    <2>1. txn'[p] = [txn[p] EXCEPT !.mode = "recover", !.base = base,
                                   !.expect = expect, !.expected = expected,
                                   !.todo = DOMAIN journal]
      BY TxnShape DEF StoreInv, CaptureExpectations
    <2>2. txn[p] \in Txns
      BY DEF StoreInv, TypeOK
    <2>3. txn'[p].base = base
      BY <2>1, <2>2, Zenon DEF Txns
    <2> HIDE DEF base, expect, expected
    <2>4. /\ txn'[p].mode = "recover"
          /\ txn'[p].expected = expected
          /\ txn'[p].todo = DOMAIN journal /\ txn'[p].target = txn[p].target
          /\ txn'[p].work = txn[p].work /\ txn'[p].op = txn[p].op
      BY <2>1, <2>2, SMT DEF Txns
    <2> QED
      BY <2>3, <2>4 DEF base, expected
  <1>3. UNCHANGED <<docs, author, journal, manifest>>
    BY <1>1 DEF disk
  <1>4. DocumentsOwned'
    BY <1>3, DiskKept DEF StoreInv
  <1>5. LeaseHeld(p)'
    BY <1>0, <1>1, SMT DEF LeaseHeld, Running
  <1>6. JournalFollowed(p)'
    BY <1>0, <1>1, <1>2, <1>3, SMT
       DEF CaptureExpectations, ProcessInv, JournalFollowed, LocalWrites, Working,
           Clear, InCommit, Publishing, Noticing, Inspecting, Replacing, Pending
  <1>7. ModeFollowed(p)'
    BY <1>1, <1>2, SMT DEF ModeFollowed, Publishing, Inspecting, Replacing
  <1>8. BaselineFollowed(p)'
    <2>1. (HasManifest <=> HasManifest') /\ (txn'[p].base <=> HasManifest)
      BY <1>2, <1>3 DEF HasManifest
    <2>3. HasManifest => txn'[p].expected = Overlay(manifest.files, journal)'
      BY <1>2, <1>3 DEF Overlay
    <2> HIDE DEF HasManifest
    <2> QED
      BY <1>1, <1>2, <2>1, <2>3
         DEF BaselineFollowed, Replacing, InCommit, Publishing, Noticing, Inspecting
  <1>9. SnapshotFollowed(p)'
    BY <1>1, SMT DEF SnapshotFollowed
  <1> QED
    BY <1>1, <1>4, <1>5, <1>6, <1>7, <1>8, <1>9
       DEF Kept, ProcessInv, OthersUntouched

-----------------------------------------------------------------------------
(* Applying the journalled writes *)

\* What a step leaves of the transaction it belongs to.
SameTxn(p) ==
    /\ txn'[p].op = txn[p].op /\ txn'[p].mode = txn[p].mode
    /\ txn'[p].base = txn[p].base /\ txn'[p].work = txn[p].work
    /\ txn'[p].expected = txn[p].expected

\* The prover loses sight of a record with a Boolean field unless the set of
\* its values is opaque.
LEMMA BaseField ==
    ASSUME NEW t \in Txns, NEW g, NEW o
    PROVE  /\ [t EXCEPT !.target = g, !.todo = o].base = t.base
           /\ [t EXCEPT !.target = g].base = t.base
           /\ [t EXCEPT !.emitted = g].base = t.base
           /\ [t EXCEPT !.mode = g].base = t.base
           /\ [t EXCEPT !.snap = g].base = t.base
           /\ [t EXCEPT !.snap = g, !.emitted = o].base = t.base
  <1> DEFINE B == BOOLEAN
  <1>1. t \in [op : {"none", "start", "initialize", "commit", "load", "adopt",
                     "status"},
               mode : Modes,
               base : B, work : Writes, expect : Expectations,
               expected : Files \cup {NoFiles}, todo : SUBSET Docs,
               target : SUBSET Docs, snap : Files \cup {NoFiles},
               want : Baselines, emitted : Nat]
    BY DEF Txns
  <1> HIDE DEF B
  <1> QED
    BY <1>1, SMT

LEMMA TargetFields ==
    ASSUME TypeOK, NEW p \in Procs, NEW g, NEW o,
           txn' = [txn EXCEPT ![p] = [txn[p] EXCEPT !.target = g, !.todo = o]]
    PROVE  SameTxn(p) /\ txn'[p].target = g /\ txn'[p].todo = o
  <1>1. txn'[p] = [txn[p] EXCEPT !.target = g, !.todo = o]
    BY TxnShape
  <1>2. txn[p] \in Txns
    BY DEF TypeOK
  <1>3. txn'[p].base = txn[p].base
    BY <1>1, <1>2, BaseField
  <1>4. /\ txn'[p].op = txn[p].op /\ txn'[p].mode = txn[p].mode
        /\ txn'[p].work = txn[p].work /\ txn'[p].expected = txn[p].expected
        /\ txn'[p].target = g /\ txn'[p].todo = o
    <2> DEFINE r == [txn[p] EXCEPT !.target = g, !.todo = o]
    <2>1. /\ r.op = txn[p].op /\ r.mode = txn[p].mode
          /\ r.work = txn[p].work /\ r.expected = txn[p].expected
          /\ r.target = g /\ r.todo = o
      BY <1>2, SMT DEF Txns
    <2> QED
      BY <1>1, <2>1, Zenon
  <1> QED
    BY <1>3, <1>4 DEF SameTxn

LEMMA ClearTargetFields ==
    ASSUME TypeOK, NEW p \in Procs, NEW g,
           txn' = [txn EXCEPT ![p].target = g]
    PROVE  /\ SameTxn(p) /\ txn'[p].target = g /\ txn'[p].todo = txn[p].todo
           /\ \A q \in Procs \ {p} : txn'[q] = txn[q]
  <1>1. txn' = [txn EXCEPT ![p] = [txn[p] EXCEPT !.target = g]]
    OBVIOUS
  <1>2. txn'[p] = [txn[p] EXCEPT !.target = g]
        /\ \A q \in Procs \ {p} : txn'[q] = txn[q]
    BY <1>1, TxnShape
  <1>3. txn[p] \in Txns
    BY DEF TypeOK
  <1>4. txn'[p].base = txn[p].base
    BY <1>2, <1>3, BaseField
  <1> QED
    BY <1>2, <1>3, <1>4, SMT DEF Txns, SameTxn

LEMMA EmittedFields ==
    ASSUME TypeOK, NEW p \in Procs, NEW n,
           txn' = [txn EXCEPT ![p].emitted = n]
    PROVE  /\ SameTxn(p)
           /\ txn'[p].target = txn[p].target /\ txn'[p].todo = txn[p].todo
           /\ txn'[p].snap = txn[p].snap
           /\ \A q \in Procs \ {p} : txn'[q] = txn[q]
  <1>1. txn' = [txn EXCEPT ![p] = [txn[p] EXCEPT !.emitted = n]]
    OBVIOUS
  <1>2. txn'[p] = [txn[p] EXCEPT !.emitted = n]
        /\ \A q \in Procs \ {p} : txn'[q] = txn[q]
    BY <1>1, TxnShape
  <1>3. txn[p] \in Txns
    BY DEF TypeOK
  <1>4. txn'[p].base = txn[p].base
    BY <1>2, <1>3, BaseField
  <1> QED
    BY <1>2, <1>3, <1>4, SMT DEF Txns, SameTxn

LEMMA CompareTargetKeeps ==
    ASSUME StoreInv, NEW p \in Procs, NEW d \in Docs, CompareTarget(p, d)
    PROVE  Kept(p)
  <1>0. Running(p) /\ lease = p /\ ProcessInv(p)
    BY RunningHolds DEF CompareTarget, Running
  <1>1. CASE Refuse(p)
    BY <1>0, <1>1, RefuseKeeps
  <1>2. ASSUME txn' = [txn EXCEPT ![p] = [txn[p] EXCEPT !.target = {d},
                                              !.todo = txn[p].todo \ {d}]],
               Goto(p, "replace"), UNCHANGED <<disk, lease, mem>>
        PROVE  Kept(p)
    <2>0. pc'[p] = "replace"
      BY <1>2, GotoShape DEF StoreInv
    <2>1. SameTxn(p) /\ txn'[p].target = {d} /\ txn'[p].todo = txn[p].todo \ {d}
      BY <1>2, TargetFields DEF StoreInv
    <2>2. OthersUntouched(p)
      BY <1>2, GotoShape, TxnShape DEF StoreInv, OthersUntouched
    <2>3. UNCHANGED <<docs, author, journal, manifest>> /\ lease' = p
      BY <1>0, <1>2 DEF disk
    <2>4. DocumentsOwned'
      BY <2>3, DiskKept DEF StoreInv
    <2>5. LeaseHeld(p)'
      BY <2>0, <2>1, <2>3, SMT DEF LeaseHeld, Running
    <2>6. JournalFollowed(p)'
      BY <1>0, <2>0, <2>1, <2>3, SMT
         DEF CompareTarget, ProcessInv, JournalFollowed, LocalWrites, Working, Clear,
             InCommit, Publishing, Noticing, Inspecting, Replacing, Pending, SameTxn
    <2>7. ModeFollowed(p)'
      BY <1>0, <2>0, <2>1, SMT
         DEF CompareTarget, ProcessInv, ModeFollowed, Publishing, Inspecting,
             Replacing, SameTxn
    <2>8. BaselineFollowed(p)'
      BY <1>0, <2>0, <2>1, <2>3
         DEF CompareTarget, ProcessInv, BaselineFollowed, Replacing, InCommit,
             Publishing, Noticing, Inspecting, SameTxn, HasManifest, Overlay, Carries
    <2>9. SnapshotFollowed(p)'
      BY <2>0, SMT DEF SnapshotFollowed
    <2> QED
      BY <2>2, <2>4, <2>5, <2>6, <2>7, <2>8, <2>9 DEF Kept, ProcessInv
  <1> QED
    BY <1>1, <1>2 DEF CompareTarget

LEMMA ReplaceTargetKeeps ==
    ASSUME StoreInv, NEW p \in Procs, ReplaceTarget(p)
    PROVE  Kept(p)
  <1>0. Running(p) /\ lease = p /\ ProcessInv(p)
    BY RunningHolds DEF ReplaceTarget, Running
  <1>1. /\ SameTxn(p) /\ txn'[p].target = {} /\ txn'[p].todo = txn[p].todo
        /\ pc'[p] = "apply"
    BY GotoShape, ClearTargetFields DEF StoreInv, ReplaceTarget
  <1>2. OthersUntouched(p)
    BY GotoShape, ClearTargetFields DEF StoreInv, ReplaceTarget, OthersUntouched
  <1>3. UNCHANGED <<journal, manifest>> /\ lease' = p
    BY <1>0 DEF ReplaceTarget
  <1>4. DocumentsOwned'
    <2>1. txn[p].target \subseteq DOMAIN journal
      BY <1>0 DEF ProcessInv, JournalFollowed
    <2> QED
      BY <1>3, <2>1, SMT
         DEF ReplaceTarget, StoreInv, DocumentsOwned, LocalWrites, HasManifest, Valid,
             Accepts, Present
  <1>5. LeaseHeld(p)'
    BY <1>1, <1>3, SMT DEF LeaseHeld, Running
  <1>6. JournalFollowed(p)'
    BY <1>0, <1>1, <1>3, SMT
       DEF ReplaceTarget, ProcessInv, JournalFollowed, LocalWrites, Working, Clear,
           InCommit, Publishing, Noticing, Inspecting, Replacing, Pending, SameTxn
  <1>7. ModeFollowed(p)'
    BY <1>0, <1>1, SMT
       DEF ReplaceTarget, ProcessInv, ModeFollowed, Publishing, Inspecting, Replacing,
           SameTxn
  <1>8. BaselineFollowed(p)'
    BY <1>0, <1>1, <1>3
       DEF ReplaceTarget, ProcessInv, BaselineFollowed, Replacing, InCommit,
           Publishing, Noticing, Inspecting, SameTxn, HasManifest, Overlay, Carries
  <1>9. SnapshotFollowed(p)'
    BY <1>1, SMT DEF SnapshotFollowed
  <1> QED
    BY <1>2, <1>4, <1>5, <1>6, <1>7, <1>8, <1>9 DEF Kept, ProcessInv

LEMMA ReplayAppliedKeeps ==
    ASSUME StoreInv, NEW p \in Procs, ReplayApplied(p)
    PROVE  Kept(p)
  <1>0. Running(p) /\ lease = p /\ ProcessInv(p)
    BY RunningHolds DEF ReplayApplied, Running
  <1>1. ASSUME NEW label, label = IF txn[p].base THEN "tasks" ELSE "forget",
               Goto(p, label)
        PROVE  Kept(p)
    <2>1. pc'[p] = label /\ (txn[p].base => label = "tasks")
          /\ (~txn[p].base => label = "forget")
      BY <1>1, GotoShape DEF StoreInv
    <2>2. UNCHANGED <<docs, author, journal, manifest, txn>> /\ lease' = p
      BY <1>0 DEF ReplayApplied, disk
    <2>3. LeaseHeld(p)'
      BY <2>1, <2>2 DEF LeaseHeld, Running
    <2>4. JournalFollowed(p)'
      BY <1>0, <2>1, <2>2
         DEF ReplayApplied, ProcessInv, JournalFollowed, LocalWrites, Working, Clear,
             InCommit, Publishing, Noticing, Inspecting, Replacing, Pending
    <2>5. ModeFollowed(p)'
      BY <1>0, <2>1, <2>2
         DEF ReplayApplied, ProcessInv, ModeFollowed, Publishing, Inspecting,
             Replacing
    <2>6. BaselineFollowed(p)'
      BY <1>0, <2>1, <2>2
         DEF ReplayApplied, ProcessInv, BaselineFollowed, Replacing, InCommit,
             Publishing, Noticing, Inspecting, HasManifest, Overlay
    <2>7. SnapshotFollowed(p)'
      BY <2>1 DEF SnapshotFollowed
    <2> QED
      BY <1>1, <2>3, <2>4, <2>5, <2>6, <2>7, MoveKeeps DEF ReplayApplied, ProcessInv
  <1> QED
    BY <1>1 DEF ReplayApplied

LEMMA CommitAppliedKeeps ==
    ASSUME StoreInv, NEW p \in Procs, CommitApplied(p)
    PROVE  Kept(p)
  <1>0. Running(p) /\ lease = p /\ ProcessInv(p)
    BY RunningHolds DEF CommitApplied, Running
  <1>1. ASSUME NEW label \in {"tasks", "hash"}, label = "tasks" => txn[p].base,
               Goto(p, label), UNCHANGED <<disk, lease, txn, mem>>
        PROVE  Kept(p)
    <2>1. pc'[p] = label
      BY <1>1, GotoShape DEF StoreInv
    <2>2. UNCHANGED <<docs, author, journal, manifest, txn>> /\ lease' = p
      BY <1>0, <1>1 DEF disk
    <2>3. LeaseHeld(p)'
      BY <2>1, <2>2 DEF LeaseHeld, Running
    <2>4. JournalFollowed(p)'
      BY <1>0, <1>1, <2>1, <2>2, SMT
         DEF CommitApplied, ProcessInv, JournalFollowed, LocalWrites, Working, Clear,
             InCommit, Publishing, Noticing, Inspecting, Replacing, Pending
    <2>5. ModeFollowed(p)'
      BY <1>0, <1>1, <2>1, <2>2, SMT
         DEF CommitApplied, ProcessInv, ModeFollowed, Publishing, Inspecting,
             Replacing
    <2>6. BaselineFollowed(p)'
      BY <1>0, <1>1, <2>1, <2>2
         DEF CommitApplied, ProcessInv, BaselineFollowed, Replacing, InCommit,
             Publishing, Noticing, Inspecting, HasManifest, Overlay, Carries
    <2>7. SnapshotFollowed(p)'
      BY <1>1, <2>1 DEF SnapshotFollowed
    <2> QED
      BY <1>1, <2>3, <2>4, <2>5, <2>6, <2>7, MoveKeeps DEF ProcessInv
  <1>2. CASE Refuse(p)
    BY <1>0, <1>2, RefuseKeeps
  <1>3. CASE ~Refuse(p)
    <2> DEFINE local == txn[p].base /\ docs # txn[p].expected
    <2>1. Goto(p, IF local THEN "tasks" ELSE "hash") /\ UNCHANGED <<disk, lease, txn, mem>>
      BY <1>3 DEF CommitApplied
    <2>2. local => txn[p].base
      OBVIOUS
    <2> HIDE DEF local
    <2>3. CASE local
      BY <1>1, <2>1, <2>2, <2>3
    <2>4. CASE ~local
      BY <1>1, <2>1, <2>4
    <2> QED
      BY <2>3, <2>4
  <1> QED
    BY <1>2, <1>3

-----------------------------------------------------------------------------
(* The local baseline *)

LEMMA LocalBaselineTasksKeeps ==
    ASSUME StoreInv, NEW p \in Procs, LocalBaselineTasks(p)
    PROVE  Kept(p)
  <1>0. Running(p) /\ lease = p /\ ProcessInv(p)
    BY RunningHolds DEF LocalBaselineTasks, Running
  <1>1. CASE Refuse(p)
    BY <1>0, <1>1, RefuseKeeps
  <1>2. ASSUME Carries(docs, journal), Goto(p, "local"), UNCHANGED <<disk, lease, txn, mem>>
        PROVE  Kept(p)
    <2>1. pc'[p] = "local"
      BY <1>2, GotoShape DEF StoreInv
    <2>2. UNCHANGED <<docs, author, journal, manifest, txn>> /\ lease' = p
      BY <1>0, <1>2 DEF disk
    <2>3. LeaseHeld(p)'
      BY <2>1, <2>2 DEF LeaseHeld, Running
    <2>4. JournalFollowed(p)'
      BY <1>0, <2>1, <2>2, SMT
         DEF LocalBaselineTasks, ProcessInv, JournalFollowed, LocalWrites, Working,
             Clear, InCommit, Publishing, Noticing, Inspecting, Replacing, Pending
    <2>5. ModeFollowed(p)'
      BY <1>0, <2>1, <2>2, SMT
         DEF LocalBaselineTasks, ProcessInv, ModeFollowed, Publishing, Inspecting,
             Replacing
    <2>6. BaselineFollowed(p)'
      BY <1>0, <2>1, <2>2
         DEF LocalBaselineTasks, ProcessInv, BaselineFollowed, Replacing, InCommit,
             Publishing, Noticing, Inspecting, HasManifest, Overlay
    <2>7. SnapshotFollowed(p)'
      BY <1>2, <2>1, <2>2, SMT DEF SnapshotFollowed, Carries
    <2> QED
      BY <1>2, <2>3, <2>4, <2>5, <2>6, <2>7, MoveKeeps DEF ProcessInv
  <1> QED
    BY <1>1, <1>2 DEF LocalBaselineTasks

\* What Work Stack writes is a valid document.
LEMMA LocalBodiesValid ==
    ASSUME NEW b \in 0 .. MaxCommits
    PROVE  b \notin Malformed \cup {Absent}
  BY BodiesAssumption, BoundsAssumption, SMT

LEMMA WriteLocalBaselineKeeps ==
    ASSUME StoreInv, NEW p \in Procs, WriteLocalBaseline(p)
    PROVE  Kept(p)
  <1>0. Running(p) /\ lease = p /\ ProcessInv(p) /\ pc[p] = "local"
    BY RunningHolds DEF WriteLocalBaseline, Running
  <1>1. pc'[p] = "unlink" /\ SameTxn(p)
        /\ txn'[p].target = txn[p].target /\ txn'[p].todo = txn[p].todo
    BY GotoShape, EmittedFields DEF StoreInv, WriteLocalBaseline
  <1>2. OthersUntouched(p) /\ mem'[p].server = mem[p].server
    <2>1. \A q \in Procs \ {p} : pc'[q] = pc[q] /\ txn'[q] = txn[q]
      BY GotoShape, EmittedFields DEF StoreInv, WriteLocalBaseline
    <2>2. \A q \in Procs \ {p} : mem'[q] = mem[q]
      BY MemShape DEF StoreInv, WriteLocalBaseline
    <2>3. mem'[p].server = mem[p].server
      <3>1. mem[p] \in Mems
        BY DEF StoreInv, TypeOK
      <3>2. mem'[p] = [mem[p] EXCEPT !.generation = NextGeneration(p), !.mark = NoMark]
        BY MemShape DEF StoreInv, WriteLocalBaseline
      <3> QED
        BY <3>1, <3>2, SMT DEF Mems
    <2> QED
      BY <2>1, <2>2, <2>3 DEF OthersUntouched
  <1>3. UNCHANGED <<docs, author, journal>> /\ lease' = p
    BY <1>0 DEF WriteLocalBaseline
  <1>4. /\ HasManifest /\ txn[p].expected = Overlay(manifest.files, journal)
        /\ manifest'.files = Overlay(manifest.files, journal)
    BY <1>0, SMT DEF WriteLocalBaseline, ProcessInv, BaselineFollowed, Candidate
  <1>5. HasManifest' /\ Carries(manifest.files, journal)'
    BY <1>3, <1>4, DocsAssumption, SMT
       DEF Overlay, HasManifest, Carries, StoreInv, TypeOK, Writes
  <1>6. DocumentsOwned'
    <2>1. \A d \in DOMAIN journal : journal[d] \notin Malformed \cup {Absent}
      BY LocalBodiesValid DEF StoreInv, DocumentsOwned, LocalWrites
    <2>2. \A d \in DOMAIN journal : author[d] = "store" => docs[d] = journal[d]
      BY <1>0, SMT DEF ProcessInv, SnapshotFollowed
    <2> QED
      BY <1>3, <1>4, <2>1, <2>2, SMT
         DEF StoreInv, DocumentsOwned, LocalWrites, Valid, Accepts, Present, Overlay,
             HasManifest
  <1>7. LeaseHeld(p)'
    BY <1>1, <1>3 DEF LeaseHeld, Running
  <1>8. JournalFollowed(p)'
    BY <1>0, <1>1, <1>3, SMT
       DEF ProcessInv, JournalFollowed, LocalWrites, Working, Clear, InCommit,
           Publishing, Noticing, Inspecting, Replacing, Pending, SameTxn
  <1>9. ModeFollowed(p)'
    BY <1>0, <1>1, SMT
       DEF ProcessInv, ModeFollowed, Publishing, Inspecting, Replacing, SameTxn
  <1>10. BaselineFollowed(p)'
    BY <1>1, <1>5
       DEF BaselineFollowed, Replacing, InCommit, Publishing, Noticing, Inspecting
  <1>11. SnapshotFollowed(p)'
    BY <1>1 DEF SnapshotFollowed
  <1> QED
    BY <1>2, <1>6, <1>7, <1>8, <1>9, <1>10, <1>11 DEF Kept, ProcessInv

-----------------------------------------------------------------------------
(* The end of a journal *)

LEMMA UnlinkJournalKeeps ==
    ASSUME StoreInv, NEW p \in Procs, UnlinkJournal(p)
    PROVE  Kept(p)
  <1>0. Running(p) /\ lease = p /\ ProcessInv(p) /\ pc[p] \in {"unlink", "close"}
    BY RunningHolds DEF UnlinkJournal, Running
  <1>1. pc'[p] = IF pc[p] = "unlink" THEN "settle" ELSE "saved"
    BY GotoShape DEF StoreInv, UnlinkJournal
  <1>2. OthersUntouched(p)
    BY GotoShape DEF StoreInv, UnlinkJournal, OthersUntouched
  <1>3. UNCHANGED <<docs, author, manifest, txn>> /\ lease' = p
    BY <1>0 DEF UnlinkJournal
  <1>4. DOMAIN journal' = {} /\ ~Pending'
    BY EmptyWrites DEF UnlinkJournal, Pending
  <1>5. HasManifest /\ Carries(manifest.files, journal)
    BY <1>0 DEF ProcessInv, BaselineFollowed
  <1>6. DocumentsOwned'
    BY <1>3, <1>4, <1>5, SMT
       DEF StoreInv, DocumentsOwned, LocalWrites, Valid, Accepts, Present, Carries,
           HasManifest
  <1>7. LeaseHeld(p)'
    BY <1>1, <1>3, SMT DEF LeaseHeld, Running
  <1>8. JournalFollowed(p)'
    BY <1>0, <1>1, <1>3, <1>4, SMT
       DEF ProcessInv, JournalFollowed, LocalWrites, Working, Clear, InCommit,
           Publishing, Noticing, Inspecting, Replacing
  <1>9. ModeFollowed(p)'
    BY <1>1, SMT DEF ModeFollowed, Publishing, Inspecting, Replacing
  <1>10. BaselineFollowed(p)'
    <2>1. txn[p].mode = "commit" => journal = txn[p].work
      BY <1>0, SMT DEF ProcessInv, JournalFollowed, Working
    <2>2. pc[p] = "close" => txn[p].mode = "commit"
      BY <1>0, SMT DEF ProcessInv, ModeFollowed, Publishing, Inspecting
    <2>3. pc'[p] \in {"settle", "saved"} /\ HasManifest'
          /\ (pc'[p] = "saved" => txn'[p].mode = "commit")
      BY <1>0, <1>1, <1>3, <1>5, <2>2, SMT DEF HasManifest
    <2>4. txn'[p].mode = "commit" => Carries(manifest.files, txn[p].work)'
      BY <1>3, <1>5, <2>1 DEF Carries
    <2> QED
      BY <2>3, <2>4, SMT
         DEF BaselineFollowed, Replacing, InCommit, Publishing, Noticing, Inspecting
  <1>11. SnapshotFollowed(p)'
    BY <1>1, SMT DEF SnapshotFollowed
  <1> QED
    BY <1>2, <1>6, <1>7, <1>8, <1>9, <1>10, <1>11 DEF Kept, ProcessInv

LEMMA ReplayedFields ==
    ASSUME TypeOK, NEW p \in Procs, txn' = [txn EXCEPT ![p] = Replayed(p)]
    PROVE  /\ txn'[p].op = txn[p].op /\ txn'[p].work = txn[p].work
           /\ txn'[p].mode = "none"
           /\ txn'[p].todo = {} /\ txn'[p].target = {}
           /\ \A q \in Procs \ {p} : txn'[q] = txn[q]
  <1>1. txn'[p] = Replayed(p) /\ \A q \in Procs \ {p} : txn'[q] = txn[q]
    BY TxnShape
  <1>2. NoTxn \in Txns
    BY EmptyTypes
  <1>3. NoTxn.mode = "none" /\ NoTxn.todo = {} /\ NoTxn.target = {}
    BY SMT DEF NoTxn
  <1>4. /\ Replayed(p).op = txn[p].op /\ Replayed(p).work = txn[p].work
        /\ Replayed(p).mode = NoTxn.mode
        /\ Replayed(p).todo = NoTxn.todo /\ Replayed(p).target = NoTxn.target
    BY <1>2, SMT DEF Replayed, Txns
  <1> QED
    BY <1>1, <1>3, <1>4

\* After a replay, or the commit of an initialization, the transaction goes on
\* with nothing pending.
LEMMA ReplayedKeeps ==
    ASSUME StoreInv, NEW p \in Procs, lease = p, ProcessInv(p), ~Pending',
           NEW label \in {"dispatch", "finish"}, Goto(p, label), txn' = [txn EXCEPT ![p] = Replayed(p)],
           lease' = lease, DocumentsOwned',
           \A q \in Procs \ {p} : mem'[q] = mem[q]
    PROVE  Kept(p)
  <1>1. /\ pc'[p] = label
        /\ txn'[p].op = txn[p].op /\ txn'[p].work = txn[p].work
        /\ txn'[p].mode = "none"
        /\ txn'[p].todo = {} /\ txn'[p].target = {}
    BY GotoShape, ReplayedFields DEF StoreInv
  <1>2. OthersUntouched(p)
    BY GotoShape, ReplayedFields DEF StoreInv, OthersUntouched
  <1>3. LeaseHeld(p)'
    BY <1>1 DEF LeaseHeld, Running
  <1>4. JournalFollowed(p)'
    BY <1>1, SMT
       DEF ProcessInv, JournalFollowed, LocalWrites, Working, Clear, InCommit,
           Publishing, Noticing, Inspecting, Replacing
  <1>5. ModeFollowed(p)'
    BY <1>1 DEF ModeFollowed, Publishing, Inspecting, Replacing
  <1>6. BaselineFollowed(p)'
    BY <1>1
       DEF BaselineFollowed, Replacing, InCommit, Publishing, Noticing, Inspecting
  <1>7. SnapshotFollowed(p)'
    BY <1>1 DEF SnapshotFollowed
  <1> QED
    BY <1>2, <1>3, <1>4, <1>5, <1>6, <1>7 DEF Kept, ProcessInv

LEMMA ForgetJournalKeeps ==
    ASSUME StoreInv, NEW p \in Procs, ForgetJournal(p)
    PROVE  Kept(p)
  <1>0. Running(p) /\ lease = p /\ ProcessInv(p)
    BY RunningHolds DEF ForgetJournal, Running
  <1>1. DOMAIN journal' = {} /\ ~Pending'
    BY EmptyWrites DEF ForgetJournal, Pending
  <1>2. ~HasManifest'
    BY <1>0 DEF ForgetJournal, ProcessInv, BaselineFollowed, HasManifest
  <1>3. DocumentsOwned'
    BY <1>1, <1>2, SMT DEF DocumentsOwned, LocalWrites
  <1>4. \A q \in Procs \ {p} : mem'[q] = mem[q]
    BY MemShape DEF StoreInv, ForgetJournal
  <1> QED
    BY <1>0, <1>1, <1>3, <1>4, ReplayedKeeps DEF ForgetJournal

LEMMA SettleKeeps ==
    ASSUME StoreInv, NEW p \in Procs, Settle(p)
    PROVE  Kept(p)
  <1>0. Running(p) /\ lease = p /\ ProcessInv(p) /\ pc[p] = "settle"
    BY RunningHolds DEF Settle, Running
  <1>1. HasManifest /\ ~Pending
    BY <1>0, SMT DEF ProcessInv, BaselineFollowed, JournalFollowed, Clear
  <1>2. ASSUME txn[p].mode = "commit", InspectAndGoto(p, "saved")
        PROVE  Kept(p)
    <2>1. pc'[p] = "saved" /\ SameTxn(p)
          /\ txn'[p].target = txn[p].target /\ txn'[p].todo = txn[p].todo
      BY <1>2, GotoShape, EmittedFields DEF StoreInv, InspectAndGoto
    <2>2. UNCHANGED <<docs, author, journal, manifest>> /\ lease' = p
      BY <1>0, <1>2 DEF InspectAndGoto, disk
    <2>3. LeaseHeld(p)'
      BY <2>1, <2>2 DEF LeaseHeld, Running
    <2>4. JournalFollowed(p)'
      BY <1>0, <1>1, <2>1, <2>2, SMT
         DEF ProcessInv, JournalFollowed, LocalWrites, Working, Clear, InCommit,
             Publishing, Noticing, Inspecting, Replacing, Pending, SameTxn
    <2>5. ModeFollowed(p)'
      BY <2>1, SMT DEF ModeFollowed, Publishing, Inspecting, Replacing
    <2>6. BaselineFollowed(p)'
      BY <1>0, <1>2, <2>1, <2>2
         DEF ProcessInv, BaselineFollowed, Replacing, InCommit, Publishing, Noticing,
             Inspecting, HasManifest, Carries, SameTxn
    <2>7. SnapshotFollowed(p)'
      BY <2>1 DEF SnapshotFollowed
    <2> QED
      BY <1>0, <1>2, <2>3, <2>4, <2>5, <2>6, <2>7, InspectAndGotoKeeps
         DEF ProcessInv, Labels
  <1>3. ASSUME Goto(p, "dispatch"),
               mem' = [mem EXCEPT ![p] = [Observed(p) EXCEPT !.recovered = FALSE]],
               txn' = [txn EXCEPT ![p] = Replayed(p)],
               UNCHANGED <<disk, lease>>
        PROVE  Kept(p)
    <2>1. DocumentsOwned' /\ ~Pending'
      BY <1>1, <1>3, DiskKept DEF Pending, StoreInv, disk
    <2>2. \A q \in Procs \ {p} : mem'[q] = mem[q]
      BY <1>3, MemShape DEF StoreInv
    <2> QED
      BY <1>0, <1>3, <2>1, <2>2, ReplayedKeeps
  <1>4. CASE InspectAndReturn(p)
    BY <1>0, <1>4, InspectAndReturnKeeps
  <1> QED
    BY <1>2, <1>3, <1>4 DEF Settle

-----------------------------------------------------------------------------
(* save_many *)

LEMMA AssertWritableKeeps ==
    ASSUME StoreInv, NEW p \in Procs, AssertWritable(p)
    PROVE  Kept(p)
  <1>0. Running(p) /\ lease = p /\ ProcessInv(p)
    BY RunningHolds DEF AssertWritable, Finds, Running
  <1>1. ASSUME InspectAndGoto(p, "commit")
        PROVE  Kept(p)
    <2>1. pc'[p] = "commit" /\ SameTxn(p)
          /\ txn'[p].target = txn[p].target /\ txn'[p].todo = txn[p].todo
      BY <1>1, GotoShape, EmittedFields DEF StoreInv, InspectAndGoto
    <2>2. UNCHANGED <<docs, author, journal>> /\ lease' = p
      BY <1>0, <1>1 DEF InspectAndGoto, disk
    <2>3. LeaseHeld(p)'
      BY <2>1, <2>2 DEF LeaseHeld, Running
    <2>4. JournalFollowed(p)'
      BY <1>0, <2>1, <2>2, SMT
         DEF AssertWritable, Finds, ProcessInv, JournalFollowed, LocalWrites, Working, Clear,
             InCommit, Publishing, Noticing, Inspecting, Replacing, Pending, SameTxn
    <2>5. ModeFollowed(p)'
      BY <2>1, SMT DEF ModeFollowed, Publishing, Inspecting, Replacing
    <2>6. BaselineFollowed(p)'
      BY <2>1
         DEF BaselineFollowed, Replacing, InCommit, Publishing, Noticing, Inspecting
    <2>7. SnapshotFollowed(p)'
      BY <2>1 DEF SnapshotFollowed
    <2> QED
      BY <1>0, <1>1, <2>3, <2>4, <2>5, <2>6, <2>7, InspectAndGotoKeeps
         DEF ProcessInv, Labels
  <1>2. CASE InspectAndRefuse(p)
    BY <1>0, <1>2, InspectAndRefuseKeeps
  <1> QED
    BY <1>1, <1>2 DEF AssertWritable

LEMMA WriteJournalKeeps ==
    ASSUME StoreInv, TypeOK', NEW p \in Procs, WriteJournal(p)
    PROVE  Kept(p)
  <1> DEFINE original == IF HasManifest THEN manifest.files ELSE docs
             work == txn[p].work
             base == HasManifest
             expect == [d \in DOMAIN work |-> original[d]]
             expected == Overlay(original, work)
  <1>0. Running(p) /\ lease = p /\ ProcessInv(p) /\ pc[p] = "commit" /\ ~Pending
    BY RunningHolds DEF WriteJournal, Running
  <1>1. /\ pc'[p] = "apply"
        /\ \A q \in Procs \ {p} : pc'[q] = pc[q] /\ txn'[q] = txn[q]
    BY GotoShape, TxnShape DEF StoreInv, WriteJournal
  <1>2. /\ txn'[p].mode = "commit" /\ txn'[p].base = base
        /\ txn'[p].expected = expected
        /\ txn'[p].todo = DOMAIN work /\ txn'[p].target = txn[p].target
        /\ txn'[p].work = work /\ txn'[p].op = txn[p].op
    <2>1. txn'[p] = [txn[p] EXCEPT !.mode = "commit", !.base = base,
                                   !.expect = expect, !.expected = expected,
                                   !.todo = DOMAIN work, !.emitted = 0]
      BY TxnShape DEF StoreInv, WriteJournal
    <2>2. txn[p] \in Txns
      BY DEF StoreInv, TypeOK
    <2>3. txn'[p].base = base
      BY <2>1, <2>2, Zenon DEF Txns
    <2> HIDE DEF base, expect, expected, original
    <2>4. /\ txn'[p].mode = "commit"
          /\ txn'[p].expected = expected
          /\ txn'[p].todo = DOMAIN work /\ txn'[p].target = txn[p].target
          /\ txn'[p].work = work /\ txn'[p].op = txn[p].op
      BY <2>1, <2>2, SMT DEF Txns
    <2> QED
      BY <2>3, <2>4
  <1>3. /\ UNCHANGED <<docs, author, manifest, mem>> /\ lease' = p
        /\ journal' = work
    BY <1>0 DEF WriteJournal
  <1>4. LocalWrites(work) /\ DOMAIN work # {} /\ txn[p].target = {}
    BY <1>0, SMT DEF ProcessInv, JournalFollowed
  <1>5. DocumentsOwned'
    BY <1>0, <1>3, <1>4, SMT
       DEF StoreInv, DocumentsOwned, LocalWrites, HasManifest, Valid, Accepts,
           Present, Pending
  <1>6. LeaseHeld(p)'
    BY <1>1, <1>3 DEF LeaseHeld, Running
  <1>7. JournalFollowed(p)'
    BY <1>1, <1>2, <1>3, <1>4, SMT
       DEF JournalFollowed, LocalWrites, Working, Clear, InCommit, Publishing,
           Noticing, Inspecting, Replacing, Pending
  <1>8. ModeFollowed(p)'
    BY <1>1, <1>2, SMT DEF ModeFollowed, Publishing, Inspecting, Replacing
  <1>9. expected \in Files /\ Carries(expected, work)
    <2>1. expected \in Files \cup {NoFiles}
      BY <1>2 DEF TypeOK, Txns
    <2>2. DOMAIN expected = Docs
      BY DEF Overlay
    <2>3. expected \in Files
      BY <2>1, <2>2, EmptyWrites, DocsAssumption
    <2>4. work \in Writes
      BY <1>3 DEF TypeOK
    <2>5. Carries(expected, work)
      BY <2>4, SMT DEF Carries, Overlay, Writes
    <2> QED
      BY <2>3, <2>5
  <1>10. BaselineFollowed(p)'
    <2>1. (HasManifest <=> HasManifest') /\ (txn'[p].base <=> HasManifest)
      BY <1>2, <1>3 DEF HasManifest
    <2>2. HasManifest => txn'[p].expected = Overlay(manifest.files, journal)'
      BY <1>2, <1>3 DEF Overlay
    <2>3. txn'[p].expected \in Files' /\ Carries(txn[p].expected, journal)'
      BY <1>2, <1>3, <1>9 DEF Carries, Files, Bodies
    <2> HIDE DEF HasManifest
    <2> QED
      BY <1>1, <1>2, <2>1, <2>2, <2>3
         DEF BaselineFollowed, Replacing, InCommit, Publishing, Noticing, Inspecting
  <1>11. SnapshotFollowed(p)'
    BY <1>1 DEF SnapshotFollowed
  <1> QED
    BY <1>1, <1>3, <1>5, <1>6, <1>7, <1>8, <1>10, <1>11
       DEF Kept, ProcessInv, OthersUntouched

LEMMA SnapFields ==
    ASSUME TypeOK, NEW p \in Procs, NEW x,
           txn' = [txn EXCEPT ![p].snap = x]
    PROVE  /\ SameTxn(p) /\ txn'[p].snap = x
           /\ txn'[p].target = txn[p].target /\ txn'[p].todo = txn[p].todo
           /\ \A q \in Procs \ {p} : txn'[q] = txn[q]
  <1>1. txn' = [txn EXCEPT ![p] = [txn[p] EXCEPT !.snap = x]]
    OBVIOUS
  <1>2. txn'[p] = [txn[p] EXCEPT !.snap = x]
        /\ \A q \in Procs \ {p} : txn'[q] = txn[q]
    BY <1>1, TxnShape
  <1>3. txn[p] \in Txns
    BY DEF TypeOK
  <1>4. txn'[p].base = txn[p].base
    BY <1>2, <1>3, BaseField
  <1> QED
    BY <1>2, <1>3, <1>4, SMT DEF Txns, SameTxn

LEMMA HashDocumentsKeeps ==
    ASSUME StoreInv, NEW p \in Procs, HashDocuments(p)
    PROVE  Kept(p)
  <1>0. Running(p) /\ lease = p /\ ProcessInv(p) /\ pc[p] = "hash"
    BY RunningHolds DEF HashDocuments, Running
  <1>1. CASE Refuse(p)
    BY <1>0, <1>1, RefuseKeeps
  <1>2. ASSUME txn[p].mode = "commit", Goto(p, "inspect"),
               UNCHANGED <<disk, lease, txn, mem>>
        PROVE  Kept(p)
    <2>1. pc'[p] = "inspect"
      BY <1>2, GotoShape DEF StoreInv
    <2>2. UNCHANGED <<docs, author, journal, manifest, txn>> /\ lease' = p
      BY <1>0, <1>2 DEF disk
    <2>3. LeaseHeld(p)'
      BY <2>1, <2>2 DEF LeaseHeld, Running
    <2>4. JournalFollowed(p)'
      BY <1>0, <1>2, <2>1, <2>2, SMT
         DEF ProcessInv, JournalFollowed, LocalWrites, Working, Clear, InCommit,
             Publishing, Noticing, Inspecting, Replacing, Pending
    <2>5. ModeFollowed(p)'
      BY <1>2, <2>1, <2>2, SMT DEF ModeFollowed, Publishing, Inspecting, Replacing
    <2>6. BaselineFollowed(p)'
      BY <1>0, <1>2, <2>1, <2>2
         DEF ProcessInv, BaselineFollowed, Replacing, InCommit, Publishing, Noticing,
             Inspecting, HasManifest, Overlay
    <2>7. SnapshotFollowed(p)'
      BY <2>1 DEF SnapshotFollowed
    <2> QED
      BY <1>2, <2>3, <2>4, <2>5, <2>6, <2>7, MoveKeeps DEF ProcessInv
  <1>3. ASSUME txn[p].mode = "commit" => docs = txn[p].expected,
               Present(docs), txn' = [txn EXCEPT ![p].snap = docs],
               Goto(p, "validate"), UNCHANGED <<disk, lease, mem>>
        PROVE  Kept(p)
    <2>1. pc'[p] = "validate" /\ SameTxn(p) /\ txn'[p].snap = docs
          /\ txn'[p].target = txn[p].target /\ txn'[p].todo = txn[p].todo
      BY <1>3, GotoShape, SnapFields DEF StoreInv
    <2>2. UNCHANGED <<docs, author, journal, manifest>> /\ lease' = p
      BY <1>0, <1>3 DEF disk
    <2>3. OthersUntouched(p)
      BY <1>3, GotoShape, SnapFields DEF StoreInv, OthersUntouched
    <2>4. LeaseHeld(p)'
      BY <2>1, <2>2 DEF LeaseHeld, Running
    <2>5. JournalFollowed(p)'
      BY <1>0, <2>1, <2>2, SMT
         DEF ProcessInv, JournalFollowed, LocalWrites, Working, Clear, InCommit,
             Publishing, Noticing, Inspecting, Replacing, Pending, SameTxn
    <2>6. ModeFollowed(p)'
      BY <1>0, <2>1, SMT
         DEF ProcessInv, ModeFollowed, Publishing, Inspecting, Replacing, SameTxn
    <2>7. BaselineFollowed(p)'
      BY <1>0, <2>1, <2>2
         DEF ProcessInv, BaselineFollowed, Replacing, InCommit, Publishing, Noticing,
             Inspecting, SameTxn, HasManifest, Overlay, Carries
    <2>8. SnapshotFollowed(p)'
      BY <1>3, <2>1, <2>2 DEF SnapshotFollowed, SameTxn, StoreInv, TypeOK, Present
    <2>9. DocumentsOwned'
      BY <2>2, DiskKept DEF StoreInv
    <2> QED
      BY <2>3, <2>4, <2>5, <2>6, <2>7, <2>8, <2>9 DEF Kept, ProcessInv
  <1> QED
    BY <1>1, <1>2, <1>3 DEF HashDocuments

LEMMA NoticeLateChangeKeeps ==
    ASSUME StoreInv, NEW p \in Procs, NoticeLateChange(p)
    PROVE  Kept(p)
  <1>0. /\ Running(p) /\ lease = p /\ ProcessInv(p) /\ pc[p] \in {"inspect", "made"}
        /\ txn[p].mode = "commit" /\ InspectAndGoto(p, "late")
    BY RunningHolds DEF NoticeLateChange, Finds, Running
  <1>1. pc'[p] = "late" /\ SameTxn(p)
        /\ txn'[p].target = txn[p].target /\ txn'[p].todo = txn[p].todo
    BY <1>0, GotoShape, EmittedFields DEF StoreInv, InspectAndGoto
  <1>2. UNCHANGED <<docs, author, journal, manifest>> /\ lease' = p
    BY <1>0 DEF InspectAndGoto, disk
  <1>3. HasManifest
    BY <1>0, SMT DEF NoticeLateChange, Finds, ProcessInv, BaselineFollowed
  <1>4. LeaseHeld(p)'
    BY <1>1, <1>2 DEF LeaseHeld, Running
  <1>5. JournalFollowed(p)'
    BY <1>0, <1>1, <1>2, SMT
       DEF ProcessInv, JournalFollowed, LocalWrites, Working, Clear, InCommit,
           Publishing, Noticing, Inspecting, Replacing, Pending, SameTxn
  <1>6. ModeFollowed(p)'
    BY <1>0, <1>1, SMT DEF ModeFollowed, Publishing, Inspecting, Replacing, SameTxn
  <1>7. BaselineFollowed(p)'
    <2>1. txn[p].base => txn[p].expected = Overlay(manifest.files, journal)
      BY <1>0 DEF ProcessInv, BaselineFollowed, Noticing, Inspecting
    <2>2. /\ HasManifest'
          /\ txn'[p].base => txn'[p].expected = Overlay(manifest.files, journal)'
      BY <1>1, <1>2, <1>3, <2>1 DEF SameTxn, HasManifest, Overlay
    <2> QED
      BY <1>1, <2>2
         DEF BaselineFollowed, Replacing, InCommit, Publishing, Noticing, Inspecting
  <1>8. SnapshotFollowed(p)'
    BY <1>1 DEF SnapshotFollowed
  <1> QED
    BY <1>0, <1>4, <1>5, <1>6, <1>7, <1>8, InspectAndGotoKeeps DEF ProcessInv, Labels

LEMMA ValidateDocumentsKeeps ==
    ASSUME StoreInv, NEW p \in Procs, ValidateDocuments(p)
    PROVE  Kept(p)
  <1>0. Running(p) /\ lease = p /\ ProcessInv(p) /\ pc[p] = "validate"
    BY RunningHolds DEF ValidateDocuments, Running
  <1>1. CASE Refuse(p)
    BY <1>0, <1>1, RefuseKeeps
  <1>2. ASSUME Valid(docs), Goto(p, "rehash"), UNCHANGED <<disk, lease, txn, mem>>
        PROVE  Kept(p)
    <2>1. pc'[p] = "rehash"
      BY <1>2, GotoShape DEF StoreInv
    <2>2. UNCHANGED <<docs, author, journal, manifest, txn>> /\ lease' = p
      BY <1>0, <1>2 DEF disk
    <2>3. LeaseHeld(p)'
      BY <2>1, <2>2 DEF LeaseHeld, Running
    <2>4. JournalFollowed(p)'
      BY <1>0, <2>1, <2>2, SMT
         DEF ProcessInv, JournalFollowed, LocalWrites, Working, Clear, InCommit,
             Publishing, Noticing, Inspecting, Replacing, Pending
    <2>5. ModeFollowed(p)'
      BY <1>0, <2>1, <2>2, SMT
         DEF ProcessInv, ModeFollowed, Publishing, Inspecting, Replacing
    <2>6. BaselineFollowed(p)'
      BY <1>0, <2>1, <2>2
         DEF ProcessInv, BaselineFollowed, Replacing, InCommit, Publishing, Noticing,
             Inspecting, HasManifest, Overlay, Carries
    <2>7. SnapshotFollowed(p)'
      BY <1>0, <1>2, <2>1, <2>2, SMT DEF ProcessInv, SnapshotFollowed, Valid, Present
    <2> QED
      BY <1>2, <2>3, <2>4, <2>5, <2>6, <2>7, MoveKeeps DEF ProcessInv
  <1> QED
    BY <1>1, <1>2 DEF ValidateDocuments

LEMMA RehashDocumentsKeeps ==
    ASSUME StoreInv, NEW p \in Procs, RehashDocuments(p)
    PROVE  Kept(p)
  <1>0. Running(p) /\ lease = p /\ ProcessInv(p) /\ pc[p] = "rehash"
    BY RunningHolds DEF RehashDocuments, Running
  <1>1. CASE Refuse(p)
    BY <1>0, <1>1, RefuseKeeps
  <1>2. ASSUME Goto(p, "publish"), UNCHANGED <<disk, lease, txn, mem>>
        PROVE  Kept(p)
    <2>1. pc'[p] = "publish"
      BY <1>2, GotoShape DEF StoreInv
    <2>2. UNCHANGED <<docs, author, journal, manifest, txn>> /\ lease' = p
      BY <1>0, <1>2 DEF disk
    <2>3. LeaseHeld(p)'
      BY <2>1, <2>2 DEF LeaseHeld, Running
    <2>4. JournalFollowed(p)'
      BY <1>0, <2>1, <2>2, SMT
         DEF ProcessInv, JournalFollowed, LocalWrites, Working, Clear, InCommit,
             Publishing, Noticing, Inspecting, Replacing, Pending
    <2>5. ModeFollowed(p)'
      BY <1>0, <2>1, <2>2, SMT
         DEF ProcessInv, ModeFollowed, Publishing, Inspecting, Replacing
    <2>6. BaselineFollowed(p)'
      BY <1>0, <2>1, <2>2
         DEF ProcessInv, BaselineFollowed, Replacing, InCommit, Publishing, Noticing,
             Inspecting, HasManifest, Overlay, Carries
    <2>7. SnapshotFollowed(p)'
      BY <1>0, <1>2, <2>1, <2>2, SMT DEF ProcessInv, SnapshotFollowed, Valid, Present
    <2> QED
      BY <1>2, <2>3, <2>4, <2>5, <2>6, <2>7, MoveKeeps DEF ProcessInv
  <1> QED
    BY <1>1, <1>2 DEF RehashDocuments

LEMMA PublishedFields ==
    ASSUME TypeOK, NEW p \in Procs, NEW x, NEW n,
           txn' = [txn EXCEPT ![p] = [txn[p] EXCEPT !.snap = x, !.emitted = n]]
    PROVE  /\ SameTxn(p)
           /\ txn'[p].target = txn[p].target /\ txn'[p].todo = txn[p].todo
           /\ \A q \in Procs \ {p} : txn'[q] = txn[q]
  <1> DEFINE r == [txn[p] EXCEPT !.snap = x, !.emitted = n]
  <1>1. txn'[p] = r /\ \A q \in Procs \ {p} : txn'[q] = txn[q]
    BY TxnShape
  <1>2. txn[p] \in Txns
    BY DEF TypeOK
  <1>3. r.base = txn[p].base
    BY <1>2, BaseField
  <1>4. /\ r.op = txn[p].op /\ r.mode = txn[p].mode
        /\ r.work = txn[p].work /\ r.expected = txn[p].expected
        /\ r.target = txn[p].target /\ r.todo = txn[p].todo
    BY <1>2, SMT DEF Txns
  <1> QED
    BY <1>1, <1>3, <1>4, Zenon DEF SameTxn

LEMMA PublishManifestKeeps ==
    ASSUME StoreInv, NEW p \in Procs, PublishManifest(p)
    PROVE  Kept(p)
  <1>0. Running(p) /\ lease = p /\ ProcessInv(p) /\ pc[p] = "publish"
    BY RunningHolds DEF PublishManifest, Running
  <1>1. SameTxn(p) /\ txn'[p].target = txn[p].target /\ txn'[p].todo = txn[p].todo
        /\ \A q \in Procs \ {p} : txn'[q] = txn[q]
    BY PublishedFields DEF StoreInv, PublishManifest
  <1>2. /\ txn[p].mode \in {"commit", "finish", "adopt"}
        /\ pc'[p] \in {"close", "settle", "receipt"}
        /\ (pc'[p] = "close" <=> txn[p].mode = "commit")
        /\ (pc'[p] = "settle" <=> txn[p].mode = "finish")
    <2>1. txn[p].mode \in {"commit", "finish", "adopt"}
      BY <1>0, SMT DEF ProcessInv, ModeFollowed, Publishing, Inspecting
    <2>2. pc'[p] = CASE txn[p].mode = "commit" -> "close"
                     [] txn[p].mode = "finish" -> "settle"
                     [] OTHER                  -> "receipt"
      BY GotoShape DEF StoreInv, PublishManifest
    <2>3. CASE txn[p].mode = "commit"
      BY <2>2, <2>3
    <2>4. CASE txn[p].mode = "finish"
      BY <2>2, <2>4
    <2>5. CASE txn[p].mode = "adopt"
      BY <2>2, <2>5
    <2> QED
      BY <2>1, <2>3, <2>4, <2>5
  <1>3. OthersUntouched(p)
    <2>1. \A q \in Procs \ {p} : pc'[q] = pc[q]
      BY GotoShape DEF StoreInv, PublishManifest
    <2>2. \A q \in Procs \ {p} : mem'[q] = mem[q]
      BY MemShape DEF StoreInv, PublishManifest
    <2> QED
      BY <1>1, <2>1, <2>2 DEF OthersUntouched
  <1>4. UNCHANGED <<docs, author, journal>> /\ lease' = p
        /\ manifest'.files = txn[p].snap
    BY <1>0, SMT DEF PublishManifest, Candidate
  <1>5. /\ txn[p].snap \in Files /\ Accepts(txn[p].snap)
        /\ (txn[p].mode = "commit" => txn[p].snap = txn[p].expected)
        /\ \A d \in Docs : author[d] = "store" => docs[d] = txn[p].snap[d]
    BY <1>0, SMT DEF ProcessInv, SnapshotFollowed, Accepts
  <1>6. HasManifest'
    BY <1>4, <1>5, DocsAssumption DEF HasManifest, Files
  <1>7. DocumentsOwned'
    BY <1>4, <1>5, SMT
       DEF StoreInv, DocumentsOwned, LocalWrites, Valid, Accepts, Present
  <1>8. LeaseHeld(p)'
    BY <1>2, <1>4, SMT DEF LeaseHeld, Running
  <1>9. JournalFollowed(p)'
    BY <1>0, <1>1, <1>2, <1>4, SMT
       DEF ProcessInv, JournalFollowed, LocalWrites, Working, Clear, InCommit,
           Publishing, Noticing, Inspecting, Replacing, Pending, SameTxn
  <1>10. ModeFollowed(p)'
    BY <1>1, <1>2, SMT DEF ModeFollowed, Publishing, Inspecting, Replacing, SameTxn
  <1>11. BaselineFollowed(p)'
    <2>1. txn[p].mode = "commit" => Carries(txn[p].expected, journal)
      BY <1>0, SMT
         DEF ProcessInv, BaselineFollowed, InCommit, Publishing, Noticing, Inspecting
    <2>2. pc'[p] = "close" => Carries(manifest.files, journal)'
      BY <1>2, <1>4, <1>5, <2>1 DEF Carries
    <2>3. pc'[p] = "settle" => txn'[p].mode # "commit"
      BY <1>1, <1>2 DEF SameTxn
    <2> QED
      BY <1>2, <1>6, <2>2, <2>3, SMT
         DEF BaselineFollowed, Replacing, InCommit, Publishing, Noticing, Inspecting
  <1>12. SnapshotFollowed(p)'
    BY <1>2, SMT DEF SnapshotFollowed
  <1> QED
    BY <1>3, <1>7, <1>8, <1>9, <1>10, <1>11, <1>12 DEF Kept, ProcessInv

LEMMA ResolveLateExternalChangeKeeps ==
    ASSUME StoreInv, NEW p \in Procs, ResolveLateExternalChange(p)
    PROVE  Kept(p)
  <1>0. Running(p) /\ lease = p /\ ProcessInv(p) /\ pc[p] = "late"
    BY RunningHolds DEF ResolveLateExternalChange, Running
  <1>1. CASE Refuse(p)
    BY <1>0, <1>1, RefuseKeeps
  <1>2. CASE InspectAndRefuse(p)
    BY <1>0, <1>2, InspectAndRefuseKeeps
  <1>3. ASSUME txn[p].base, Goto(p, "tasks"), UNCHANGED <<disk, lease, txn, mem>>
        PROVE  Kept(p)
    <2>1. pc'[p] = "tasks"
      BY <1>3, GotoShape DEF StoreInv
    <2>2. UNCHANGED <<docs, author, journal, manifest, txn>> /\ lease' = p
      BY <1>0, <1>3 DEF disk
    <2>3. LeaseHeld(p)'
      BY <2>1, <2>2 DEF LeaseHeld, Running
    <2>4. JournalFollowed(p)'
      BY <1>0, <2>1, <2>2, SMT
         DEF ProcessInv, JournalFollowed, LocalWrites, Working, Clear, InCommit,
             Publishing, Noticing, Inspecting, Replacing, Pending
    <2>5. ModeFollowed(p)'
      BY <1>0, <2>1, <2>2, SMT
         DEF ProcessInv, ModeFollowed, Publishing, Inspecting, Replacing
    <2>6. BaselineFollowed(p)'
      BY <1>0, <1>3, <2>1, <2>2
         DEF ProcessInv, BaselineFollowed, Replacing, InCommit, Publishing, Noticing,
             Inspecting, HasManifest, Overlay
    <2>7. SnapshotFollowed(p)'
      BY <2>1 DEF SnapshotFollowed
    <2> QED
      BY <1>3, <2>3, <2>4, <2>5, <2>6, <2>7, MoveKeeps DEF ProcessInv
  <1> QED
    BY <1>1, <1>2, <1>3 DEF ResolveLateExternalChange

LEMMA CommitReturnsKeeps ==
    ASSUME StoreInv, NEW p \in Procs, CommitReturns(p)
    PROVE  Kept(p)
  <1>0. Running(p) /\ lease = p /\ ProcessInv(p) /\ pc[p] = "saved"
    BY RunningHolds DEF CommitReturns, Running
  <1>1. ASSUME Return(p), UNCHANGED <<disk, mem>>
        PROVE  Kept(p)
    <2>1. DocumentsOwned'
      BY <1>1, DiskKept DEF StoreInv, disk
    <2> QED
      BY <1>0, <1>1, <2>1, ReturnKeeps
  <1>2. ASSUME mem' = [mem EXCEPT ![p].ready = TRUE], Goto(p, "finish"),
               txn' = [txn EXCEPT ![p] = Replayed(p)], UNCHANGED <<disk, lease>>
        PROVE  Kept(p)
    <2>1. UNCHANGED <<docs, author, journal, manifest>>
      BY <1>2 DEF disk
    <2>2. DocumentsOwned'
      BY <2>1, DiskKept DEF StoreInv
    <2>3. ~Pending'
      BY <1>0, <2>1, SMT DEF ProcessInv, JournalFollowed, Clear, Pending
    <2>4. \A q \in Procs \ {p} : mem'[q] = mem[q]
      BY <1>2, SMT DEF StoreInv, TypeOK
    <2> QED
      BY <1>0, <1>2, <2>2, <2>3, <2>4, ReplayedKeeps
  <1>3. CASE Refuse(p)
    BY <1>0, <1>3, RefuseKeeps
  <1> QED
    BY <1>1, <1>2, <1>3 DEF CommitReturns

-----------------------------------------------------------------------------
(* The other operations *)

LEMMA LeavingKeeps ==
    ASSUME StoreInv, NEW p \in Procs, Running(p), Return(p), UNCHANGED <<disk, mem>>
    PROVE  Kept(p)
  <1>1. DocumentsOwned'
    BY DiskKept DEF StoreInv, disk
  <1> QED
    BY <1>1, ReturnKeeps

LEMMA ServerStartedKeeps ==
    ASSUME StoreInv, NEW p \in Procs, ServerStarted(p) \/ FinishRead(p)
    PROVE  Kept(p)
  BY LeavingKeeps DEF ServerStarted, FinishRead, Running

LEMMA LoadDocumentKeeps ==
    ASSUME StoreInv, NEW p \in Procs, NEW d \in Docs, LoadDocument(p, d)
    PROVE  Kept(p)
  <1>0. Running(p) /\ lease = p /\ ProcessInv(p) /\ pc[p] = "dispatch"
        /\ txn[p].op = "load"
    BY RunningHolds DEF LoadDocument, Running
  <1>1. CASE Refuse(p) \/ (Return(p) /\ UNCHANGED <<disk, mem>>)
    BY <1>0, <1>1, RefuseKeeps, LeavingKeeps
  <1>2. ASSUME Goto(p, "inspect"), UNCHANGED <<disk, lease, txn, mem>>
        PROVE  Kept(p)
    <2>1. pc'[p] = "inspect"
      BY <1>2, GotoShape DEF StoreInv
    <2>2. UNCHANGED <<docs, author, journal, manifest, txn>> /\ lease' = p
      BY <1>0, <1>2 DEF disk
    <2>3. txn[p].mode = "none"
      BY <1>0, SMT DEF ProcessInv, ModeFollowed
    <2>4. LeaseHeld(p)'
      BY <2>1, <2>2 DEF LeaseHeld, Running
    <2>5. JournalFollowed(p)'
      BY <1>0, <2>1, <2>2, <2>3, SMT
         DEF ProcessInv, JournalFollowed, LocalWrites, Working, Clear, InCommit,
             Publishing, Noticing, Inspecting, Replacing, Pending
    <2>6. ModeFollowed(p)'
      BY <2>1, <2>2, <2>3, SMT DEF ModeFollowed, Publishing, Inspecting, Replacing
    <2>7. BaselineFollowed(p)'
      BY <2>1, <2>2, <2>3
         DEF BaselineFollowed, Replacing, InCommit, Publishing, Noticing, Inspecting
    <2>8. SnapshotFollowed(p)'
      BY <2>1 DEF SnapshotFollowed
    <2> QED
      BY <1>2, <2>4, <2>5, <2>6, <2>7, <2>8, MoveKeeps DEF ProcessInv
  <1> QED
    BY <1>1, <1>2 DEF LoadDocument

LEMMA LoadInspectedKeeps ==
    ASSUME StoreInv, NEW p \in Procs, LoadInspected(p)
    PROVE  Kept(p)
  BY InspectAndReturnKeeps, InspectAndRefuseKeeps DEF LoadInspected, Finds, Running

LEMMA StatusShownKeeps ==
    ASSUME StoreInv, NEW p \in Procs, StatusShown(p)
    PROVE  Kept(p)
  <1>1. DocumentsOwned' /\ Running(p)
    BY DiskKept DEF StatusShown, StoreInv, Running, disk
  <1>2. mem'[p].server = mem[p].server /\ \A q \in Procs \ {p} : mem'[q] = mem[q]
    BY InspectionKept DEF StatusShown, Shown
  <1> QED
    BY <1>1, <1>2, EndKeeps DEF StatusShown, Return

LEMMA WorkFields ==
    ASSUME TypeOK, NEW p \in Procs, NEW x,
           txn' = [txn EXCEPT ![p].work = x]
    PROVE  /\ txn'[p].work = x
           /\ txn'[p].target = txn[p].target /\ txn'[p].todo = txn[p].todo
           /\ \A q \in Procs \ {p} : txn'[q] = txn[q]
  <1>1. txn' = [txn EXCEPT ![p] = [txn[p] EXCEPT !.work = x]]
    OBVIOUS
  <1>2. txn'[p] = [txn[p] EXCEPT !.work = x]
        /\ \A q \in Procs \ {p} : txn'[q] = txn[q]
    BY <1>1, TxnShape
  <1>3. txn[p] \in Txns
    BY DEF TypeOK
  <1> QED
    BY <1>2, <1>3, SMT DEF Txns

LEMMA ModeFields ==
    ASSUME TypeOK, NEW p \in Procs, NEW x,
           txn' = [txn EXCEPT ![p].mode = x]
    PROVE  /\ txn'[p].mode = x /\ txn'[p].work = txn[p].work
           /\ txn'[p].op = txn[p].op /\ txn'[p].base = txn[p].base
           /\ txn'[p].target = txn[p].target /\ txn'[p].todo = txn[p].todo
           /\ \A q \in Procs \ {p} : txn'[q] = txn[q]
  <1>1. txn' = [txn EXCEPT ![p] = [txn[p] EXCEPT !.mode = x]]
    OBVIOUS
  <1>2. txn'[p] = [txn[p] EXCEPT !.mode = x]
        /\ \A q \in Procs \ {p} : txn'[q] = txn[q]
    BY <1>1, TxnShape
  <1>3. txn[p] \in Txns
    BY DEF TypeOK
  <1>4. txn'[p].base = txn[p].base
    BY <1>2, <1>3, BaseField
  <1> QED
    BY <1>2, <1>3, <1>4, SMT DEF Txns

\* The validation and the hashing of the first baseline.
LEMMA ValidateFirstKeeps ==
    ASSUME StoreInv, NEW p \in Procs, ValidateFirst(p)
    PROVE  Kept(p)
  <1>0. /\ Running(p) /\ lease = p /\ ProcessInv(p) /\ ~HasManifest
        /\ pc[p] \in {"dispatch", "inspect", "finish"}
        /\ pc[p] = "dispatch" => txn[p].op \in {"commit", "adopt"}
    BY RunningHolds DEF ValidateFirst, Running
  <1>1. CASE Refuse(p)
    BY <1>0, <1>1, RefuseKeeps
  <1>2. CASE ~Refuse(p)
    <2> DEFINE mode == IF pc[p] = "finish" THEN "finish" ELSE txn[p].mode
    <2>1. /\ Valid(docs) /\ Goto(p, "first")
          /\ txn' = [txn EXCEPT ![p].mode = mode]
          /\ UNCHANGED <<disk, lease, mem>>
      BY <1>2 DEF ValidateFirst
    <2>2. /\ pc[p] = "finish" => mode = "finish"
          /\ pc[p] # "finish" => mode = txn[p].mode
      OBVIOUS
    <2> HIDE DEF mode
    <2>3. /\ pc'[p] = "first" /\ txn'[p].mode = mode /\ txn'[p].work = txn[p].work
          /\ txn'[p].op = txn[p].op /\ txn'[p].base = txn[p].base
          /\ txn'[p].target = txn[p].target /\ txn'[p].todo = txn[p].todo
      BY <2>1, GotoShape, ModeFields DEF StoreInv
    <2>4. OthersUntouched(p)
      BY <2>1, GotoShape, ModeFields DEF StoreInv, OthersUntouched
    <2>5. UNCHANGED <<docs, author, journal, manifest>> /\ lease' = p
      BY <1>0, <2>1 DEF disk
    <2>6. DocumentsOwned'
      BY <2>5, DiskKept DEF StoreInv
    <2>7. LeaseHeld(p)'
      BY <2>3, <2>5 DEF LeaseHeld, Running
    <2>8. ModeFollowed(p)'
      BY <1>0, <2>2, <2>3, SMT
         DEF ProcessInv, ModeFollowed, Publishing, Inspecting, Replacing
    <2>9. JournalFollowed(p)'
      <3>1. CASE pc[p] \in {"dispatch", "finish"}
        <4>1. mode # "commit"
          BY <1>0, <2>2, <3>1, SMT DEF ProcessInv, ModeFollowed
        <4> QED
          BY <1>0, <2>3, <2>5, <3>1, <4>1, SMT
             DEF ProcessInv, JournalFollowed, LocalWrites, Working, Clear, InCommit,
                 Publishing, Noticing, Inspecting, Replacing, Pending
      <3>2. CASE pc[p] = "inspect"
        <4>1. mode = txn[p].mode
          BY <2>2, <3>2
        <4> QED
          BY <1>0, <2>3, <2>5, <3>2, <4>1, SMT
             DEF ProcessInv, JournalFollowed, LocalWrites, Working, Clear, InCommit,
                 Publishing, Noticing, Inspecting, Replacing, Pending
      <3> QED
        BY <1>0, <3>1, <3>2
    <2>10. BaselineFollowed(p)'
      <3>1. mode = "commit" => ~txn[p].base
        <4> SUFFICES ASSUME mode = "commit" PROVE ~txn[p].base
          OBVIOUS
        <4>1. pc[p] = "inspect" /\ txn[p].mode = "commit"
          BY <1>0, <2>2, SMT DEF ProcessInv, ModeFollowed
        <4> QED
          BY <1>0, <4>1 DEF ProcessInv, BaselineFollowed, Noticing, Inspecting
      <3>2. ~HasManifest'
        BY <1>0, <2>5 DEF HasManifest
      <3> QED
        BY <2>3, <3>1, <3>2
           DEF BaselineFollowed, Replacing, InCommit, Publishing, Noticing, Inspecting
    <2>11. SnapshotFollowed(p)'
      BY <2>1, <2>3, <2>5 DEF SnapshotFollowed, Valid
    <2> QED
      BY <2>4, <2>6, <2>7, <2>8, <2>9, <2>10, <2>11 DEF Kept, ProcessInv
  <1> QED
    BY <1>1, <1>2

LEMMA EstablishBaselineKeeps ==
    ASSUME StoreInv, NEW p \in Procs, EstablishBaseline(p)
    PROVE  Kept(p)
  <1>0. Running(p) /\ lease = p /\ ProcessInv(p) /\ pc[p] = "first"
    BY RunningHolds DEF EstablishBaseline, Running
  <1>1. CASE Refuse(p)
    BY <1>0, <1>1, RefuseKeeps
  <1>2. ASSUME Present(docs), manifest' = Candidate(mem[p].generation, docs),
               mem' = [mem EXCEPT ![p].ready = TRUE], Goto(p, "made"),
               UNCHANGED <<docs, author, journal, lease, txn>>
        PROVE  Kept(p)
    <2>1. pc'[p] = "made" /\ lease' = p /\ UNCHANGED <<journal, txn>>
      BY <1>0, <1>2, GotoShape DEF StoreInv
    <2>2. manifest'.files = docs
      BY <1>2, SMT DEF Candidate
    <2>3. ScanRace \/ Valid(docs)
      BY <1>0, SMT DEF ProcessInv, SnapshotFollowed
    <2>4. DocumentsOwned' /\ HasManifest'
      BY <1>2, <2>2, <2>3, BaselineOwned
    <2>5. OthersUntouched(p)
      <3>1. \A q \in Procs \ {p} : pc'[q] = pc[q]
        BY <1>2, GotoShape DEF StoreInv
      <3>2. \A q \in Procs \ {p} : mem'[q] = mem[q]
        BY <1>2, SMT DEF StoreInv, TypeOK
      <3> QED
        BY <2>1, <3>1, <3>2 DEF OthersUntouched
    <2>6. LeaseHeld(p)'
      BY <2>1 DEF LeaseHeld, Running
    <2>7. JournalFollowed(p)'
      BY <1>0, <2>1, SMT
         DEF ProcessInv, JournalFollowed, LocalWrites, Working, Clear, InCommit,
             Publishing, Noticing, Inspecting, Replacing, Pending
    <2>8. ModeFollowed(p)'
      BY <1>0, <2>1, SMT
         DEF ProcessInv, ModeFollowed, Publishing, Inspecting, Replacing
    <2>9. BaselineFollowed(p)'
      <3>1. txn[p].mode = "commit" => ~txn[p].base
        BY <1>0 DEF ProcessInv, BaselineFollowed, Noticing, Inspecting
      <3> QED
        BY <2>1, <2>4, <3>1
           DEF BaselineFollowed, Replacing, InCommit, Publishing, Noticing, Inspecting
    <2>10. SnapshotFollowed(p)'
      BY <2>1 DEF SnapshotFollowed
    <2> QED
      BY <2>4, <2>5, <2>6, <2>7, <2>8, <2>9, <2>10 DEF Kept, ProcessInv
  <1> QED
    BY <1>1, <1>2 DEF EstablishBaseline

LEMMA InitializeFreshKeeps ==
    ASSUME StoreInv, NEW p \in Procs, InitializeFresh(p)
    PROVE  Kept(p)
  <1>0. Running(p) /\ lease = p /\ ProcessInv(p) /\ pc[p] = "dispatch"
    BY RunningHolds DEF InitializeFresh, Running
  <1>1. /\ pc'[p] = "commit" /\ txn'[p].work = [d \in Docs |-> Default]
        /\ txn'[p].target = txn[p].target /\ txn'[p].todo = txn[p].todo
    BY GotoShape, WorkFields DEF StoreInv, InitializeFresh
  <1>2. UNCHANGED <<docs, author, journal, manifest, mem>> /\ lease' = p
    BY <1>0 DEF InitializeFresh, disk
  <1>3. OthersUntouched(p)
    BY GotoShape, WorkFields DEF StoreInv, InitializeFresh, OthersUntouched
  <1>4. DocumentsOwned'
    BY <1>2, DiskKept DEF StoreInv
  <1>5. LocalWrites(txn[p].work)' /\ DOMAIN txn'[p].work # {}
    BY <1>1, DocsAssumption, BoundsAssumption, SMT DEF LocalWrites, Default
  <1>6. LeaseHeld(p)'
    BY <1>1, <1>2 DEF LeaseHeld, Running
  <1>7. JournalFollowed(p)'
    BY <1>0, <1>1, <1>2, <1>5, SMT
       DEF ProcessInv, JournalFollowed, Working, Clear, InCommit, Publishing,
           Noticing, Inspecting, Replacing, Pending
  <1>8. ModeFollowed(p)'
    BY <1>1 DEF ModeFollowed, Publishing, Inspecting, Replacing
  <1>9. BaselineFollowed(p)'
    BY <1>1
       DEF BaselineFollowed, Replacing, InCommit, Publishing, Noticing, Inspecting
  <1>10. SnapshotFollowed(p)'
    BY <1>1 DEF SnapshotFollowed
  <1> QED
    BY <1>3, <1>4, <1>6, <1>7, <1>8, <1>9, <1>10 DEF Kept, ProcessInv

LEMMA AdmitExistingKeeps ==
    ASSUME StoreInv, NEW p \in Procs, AdmitExisting(p)
    PROVE  Kept(p)
  <1>0. Running(p) /\ lease = p /\ ProcessInv(p) /\ pc[p] = "dispatch"
    BY RunningHolds DEF AdmitExisting, Running
  <1>1. CASE Refuse(p)
    BY <1>0, <1>1, RefuseKeeps
  <1>2. ASSUME mem' = [mem EXCEPT ![p].ready = TRUE], Goto(p, "finish"),
               UNCHANGED <<disk, lease, txn>>
        PROVE  Kept(p)
    <2>1. pc'[p] = "finish"
      BY <1>2, GotoShape DEF StoreInv
    <2>2. UNCHANGED <<docs, author, journal, manifest, txn>> /\ lease' = p
      BY <1>0, <1>2 DEF disk
    <2>3. OthersUntouched(p)
      <3>1. \A q \in Procs \ {p} : pc'[q] = pc[q]
        BY <1>2, GotoShape DEF StoreInv
      <3>2. \A q \in Procs \ {p} : mem'[q] = mem[q]
        BY <1>2, SMT DEF StoreInv, TypeOK
      <3> QED
        BY <2>2, <3>1, <3>2 DEF OthersUntouched
    <2>4. DocumentsOwned'
      BY <2>2, DiskKept DEF StoreInv
    <2>5. LeaseHeld(p)'
      BY <2>1, <2>2 DEF LeaseHeld, Running
    <2>6. JournalFollowed(p)'
      BY <1>0, <2>1, <2>2, SMT
         DEF ProcessInv, JournalFollowed, LocalWrites, Working, Clear, InCommit,
             Publishing, Noticing, Inspecting, Replacing, Pending
    <2>7. ModeFollowed(p)'
      BY <2>1 DEF ModeFollowed, Publishing, Inspecting, Replacing
    <2>8. BaselineFollowed(p)'
      BY <2>1
         DEF BaselineFollowed, Replacing, InCommit, Publishing, Noticing, Inspecting
    <2>9. SnapshotFollowed(p)'
      BY <2>1 DEF SnapshotFollowed
    <2> QED
      BY <2>3, <2>4, <2>5, <2>6, <2>7, <2>8, <2>9 DEF Kept, ProcessInv
  <1> QED
    BY <1>1, <1>2 DEF AdmitExisting

\* An initialization, or an acceptance, goes on to publish a manifest of its
\* own; nothing is pending.
LEMMA ToHashKeeps ==
    ASSUME StoreInv, NEW p \in Procs, lease = p, ProcessInv(p), ~Pending',
           pc[p] \in {"finish", "confirm"},
           NEW mode \in {"finish", "adopt"}, txn' = [txn EXCEPT ![p].mode = mode],
           Goto(p, "hash"), lease' = lease, DocumentsOwned',
           \A q \in Procs \ {p} : mem'[q] = mem[q]
    PROVE  Kept(p)
  <1>1. /\ pc'[p] = "hash" /\ txn'[p].mode = mode /\ txn'[p].work = txn[p].work
        /\ txn'[p].op = txn[p].op
        /\ txn'[p].target = txn[p].target /\ txn'[p].todo = txn[p].todo
    BY GotoShape, ModeFields DEF StoreInv
  <1>2. OthersUntouched(p)
    BY GotoShape, ModeFields DEF StoreInv, OthersUntouched
  <1>3. LeaseHeld(p)'
    BY <1>1 DEF LeaseHeld, Running
  <1>4. JournalFollowed(p)'
    <2>1. LocalWrites(txn[p].work) /\ txn[p].todo = {} /\ txn[p].target = {}
          /\ (txn[p].op = "commit" => DOMAIN txn[p].work # {})
      BY SMT DEF ProcessInv, JournalFollowed, Replacing
    <2> QED
      BY <1>1, <2>1, SMT
         DEF JournalFollowed, LocalWrites, Working, Clear, InCommit, Publishing,
             Noticing, Inspecting, Replacing
  <1>5. ModeFollowed(p)'
    BY <1>1, SMT DEF ModeFollowed, Publishing, Inspecting, Replacing
  <1>6. BaselineFollowed(p)'
    BY <1>1, SMT
       DEF BaselineFollowed, Replacing, InCommit, Publishing, Noticing, Inspecting
  <1>7. SnapshotFollowed(p)'
    BY <1>1, SMT DEF SnapshotFollowed
  <1> QED
    BY <1>2, <1>3, <1>4, <1>5, <1>6, <1>7 DEF Kept, ProcessInv

LEMMA FinishInitializationKeeps ==
    ASSUME StoreInv, NEW p \in Procs, FinishInitialization(p)
    PROVE  Kept(p)
  <1>0. Running(p) /\ lease = p /\ ProcessInv(p)
    BY RunningHolds DEF FinishInitialization, Finds, Running
  <1>1. CASE InspectAndReturn(p)
    BY <1>0, <1>1, InspectAndReturnKeeps
  <1>2. ASSUME pc[p] = "finish", txn' = [txn EXCEPT ![p].mode = "finish"],
               Goto(p, "hash"), UNCHANGED <<disk, lease, mem>>
        PROVE  Kept(p)
    <2>1. UNCHANGED <<docs, author, journal, manifest>>
      BY <1>2 DEF disk
    <2>2. DocumentsOwned'
      BY <2>1, DiskKept DEF StoreInv
    <2>3. ~Pending'
      BY <1>0, <1>2, <2>1, SMT DEF ProcessInv, JournalFollowed, Clear, Pending
    <2> QED
      BY <1>0, <1>2, <2>2, <2>3, ToHashKeeps
  <1> QED
    BY <1>1, <1>2 DEF FinishInitialization

LEMMA ReviewAdoptionKeeps ==
    ASSUME StoreInv, NEW p \in Procs, ReviewAdoption(p)
    PROVE  Kept(p)
  <1>0. /\ Running(p) /\ lease = p /\ ProcessInv(p) /\ pc[p] \in {"dispatch", "made"}
        /\ txn[p].op = "adopt" /\ txn[p].mode = "none" /\ HasManifest
    <2>1. /\ pc[p] \in {"dispatch", "made"} /\ txn[p].op = "adopt"
          /\ txn[p].mode = "none" /\ (pc[p] = "made" \/ HasManifest)
      BY DEF ReviewAdoption, Finds
    <2>2. Running(p) /\ lease = p /\ ProcessInv(p)
      BY <2>1, RunningHolds DEF Running
    <2>3. pc[p] = "made" => HasManifest
      BY <2>2, SMT DEF ProcessInv, BaselineFollowed
    <2> QED
      BY <2>1, <2>2, <2>3
  <1>1. CASE InspectAndReturn(p)
    BY <1>0, <1>1, InspectAndReturnKeeps
  <1>2. CASE InspectAndRefuse(p)
    BY <1>0, <1>2, InspectAndRefuseKeeps
  <1>3. ASSUME InspectAndGoto(p, "confirm")
        PROVE  Kept(p)
    <2>1. pc'[p] = "confirm" /\ SameTxn(p)
          /\ txn'[p].target = txn[p].target /\ txn'[p].todo = txn[p].todo
      BY <1>3, GotoShape, EmittedFields DEF StoreInv, InspectAndGoto
    <2>2. UNCHANGED <<docs, author, journal, manifest>> /\ lease' = p
      BY <1>0, <1>3 DEF InspectAndGoto, disk
    <2>3. LeaseHeld(p)'
      BY <2>1, <2>2 DEF LeaseHeld, Running
    <2>4. JournalFollowed(p)'
      BY <1>0, <2>1, <2>2, SMT
         DEF ProcessInv, JournalFollowed, LocalWrites, Working, Clear, InCommit,
             Publishing, Noticing, Inspecting, Replacing, Pending, SameTxn
    <2>5. ModeFollowed(p)'
      BY <2>1, SMT DEF ModeFollowed, Publishing, Inspecting, Replacing
    <2>6. BaselineFollowed(p)'
      BY <1>0, <2>1, <2>2
         DEF BaselineFollowed, HasManifest, Replacing, InCommit, Publishing, Noticing, Inspecting
    <2>7. SnapshotFollowed(p)'
      BY <2>1 DEF SnapshotFollowed
    <2> QED
      BY <1>0, <1>3, <2>3, <2>4, <2>5, <2>6, <2>7, InspectAndGotoKeeps
         DEF ProcessInv, Labels
  <1> QED
    BY <1>1, <1>2, <1>3 DEF ReviewAdoption

LEMMA ConfirmAdoptionKeeps ==
    ASSUME StoreInv, NEW p \in Procs, ConfirmAdoption(p)
    PROVE  Kept(p)
  <1>0. Running(p) /\ lease = p /\ ProcessInv(p) /\ pc[p] = "confirm"
    BY RunningHolds DEF ConfirmAdoption, Running
  <1>1. CASE ~AdoptionCurrent(p)
    BY <1>0, <1>1, InspectAndRefuseKeeps DEF ConfirmAdoption
  <1>2. CASE AdoptionCurrent(p)
    <2>1. /\ UNCHANGED <<docs, author, journal, manifest, lease>>
          /\ mem' = [mem EXCEPT ![p] = Observed(p)]
          /\ txn' = [txn EXCEPT ![p].mode = "adopt"]
          /\ Goto(p, "hash")
      BY <1>2 DEF ConfirmAdoption, disk
    <2>2. DocumentsOwned'
      BY <2>1, DiskKept DEF StoreInv
    <2>3. ~Pending'
      BY <1>0, <2>1, SMT DEF ProcessInv, JournalFollowed, Clear, Pending
    <2>4. \A q \in Procs \ {p} : mem'[q] = mem[q]
      BY <2>1, InspectionKept
    <2> QED
      BY <1>0, <2>1, <2>2, <2>3, <2>4, ToHashKeeps
  <1> QED
    BY <1>1, <1>2

LEMMA WriteReceiptKeeps ==
    ASSUME StoreInv, NEW p \in Procs, WriteReceipt(p)
    PROVE  Kept(p)
  <1>0. Running(p) /\ lease = p /\ ProcessInv(p) /\ pc[p] = "receipt"
    BY RunningHolds DEF WriteReceipt, Running
  <1>1. pc'[p] = "settle"
    BY GotoShape DEF StoreInv, WriteReceipt
  <1>2. UNCHANGED <<docs, author, journal, manifest, txn, mem>> /\ lease' = p
    BY <1>0 DEF WriteReceipt
  <1>3. OthersUntouched(p)
    BY <1>2, GotoShape DEF StoreInv, WriteReceipt, OthersUntouched
  <1>4. DocumentsOwned'
    BY <1>2, DiskKept DEF StoreInv
  <1>5. LeaseHeld(p)'
    BY <1>1, <1>2 DEF LeaseHeld, Running
  <1>6. JournalFollowed(p)'
    BY <1>0, <1>1, <1>2, SMT
       DEF ProcessInv, JournalFollowed, LocalWrites, Working, Clear, InCommit,
           Publishing, Noticing, Inspecting, Replacing, Pending
  <1>7. ModeFollowed(p)'
    BY <1>1, SMT DEF ModeFollowed, Publishing, Inspecting, Replacing
  <1>8. BaselineFollowed(p)'
    <2>1. HasManifest' /\ txn'[p].mode = "adopt"
      BY <1>0, <1>2, SMT
         DEF ProcessInv, BaselineFollowed, ModeFollowed, Publishing, Inspecting,
             HasManifest
    <2> QED
      BY <1>1, <2>1, SMT
         DEF BaselineFollowed, Replacing, InCommit, Publishing, Noticing, Inspecting
  <1>9. SnapshotFollowed(p)'
    BY <1>1 DEF SnapshotFollowed
  <1> QED
    BY <1>3, <1>4, <1>5, <1>6, <1>7, <1>8, <1>9 DEF Kept, ProcessInv

-----------------------------------------------------------------------------
(* The calls a program makes *)

LEMMA EnterKeeps ==
    ASSUME StoreInv, NEW p \in Procs, NEW op, NEW fields \in Txns,
           Enter(p, op, fields), fields.mode = "none",
           fields.todo = {}, fields.target = {}, LocalWrites(fields.work),
           op = "commit" => DOMAIN fields.work # {},
           \A q \in Procs \ {p} : mem'[q] = mem[q]
    PROVE  Kept(p)
  <1>1. /\ pc'[p] = "recover" /\ txn'[p].op = op /\ txn'[p].mode = "none"
        /\ txn'[p].todo = {} /\ txn'[p].target = {} /\ txn'[p].work = fields.work
    <2>1. txn'[p] = [fields EXCEPT !.op = op]
      BY TxnShape DEF StoreInv, Enter
    <2> QED
      BY <2>1, GotoShape, SMT DEF StoreInv, Enter, Txns
  <1>2. UNCHANGED <<docs, author, journal, manifest>> /\ lease' = p
    BY DEF Enter, disk
  <1>3. OthersUntouched(p)
    BY GotoShape, TxnShape DEF StoreInv, Enter, OthersUntouched
  <1>4. DocumentsOwned'
    BY <1>2, DiskKept DEF StoreInv
  <1>5. LeaseHeld(p)'
    BY <1>1, <1>2 DEF LeaseHeld, Running
  <1>6. JournalFollowed(p)'
    BY <1>1, SMT
       DEF JournalFollowed, LocalWrites, Working, Clear, InCommit, Publishing,
           Noticing, Inspecting, Replacing
  <1>7. ModeFollowed(p)'
    BY <1>1 DEF ModeFollowed, Publishing, Inspecting, Replacing
  <1>8. BaselineFollowed(p)'
    BY <1>1
       DEF BaselineFollowed, Replacing, InCommit, Publishing, Noticing, Inspecting
  <1>9. SnapshotFollowed(p)'
    BY <1>1 DEF SnapshotFollowed
  <1> QED
    BY <1>3, <1>4, <1>5, <1>6, <1>7, <1>8, <1>9 DEF Kept, ProcessInv

LEMMA EmptyTxn ==
    /\ NoTxn \in Txns
    /\ NoTxn.mode = "none" /\ NoTxn.todo = {} /\ NoTxn.target = {}
    /\ LocalWrites(NoTxn.work)
  BY EmptyTypes, EmptyWrites, SMT DEF NoTxn, LocalWrites

LEMMA EnteringKeeps ==
    ASSUME StoreInv, NEW p \in Procs,
           StartServer(p) \/ Initialize(p) \/ Load(p)
    PROVE  Kept(p)
  <1>1. \A q \in Procs \ {p} : mem'[q] = mem[q]
    BY SMT DEF StartServer, Initialize, Load, StoreInv, TypeOK
  <1>2. PICK op \in {"start", "initialize", "load"} : Enter(p, op, NoTxn)
    BY DEF StartServer, Initialize, Load
  <1> QED
    BY <1>1, <1>2, EmptyTxn, EnterKeeps

LEMMA SaveManyKeeps ==
    ASSUME StoreInv, NEW p \in Procs, NEW targets \in SUBSET Docs,
           SaveMany(p, targets)
    PROVE  Kept(p)
  <1> DEFINE work == [d \in targets |-> used.commits + 1]
             fields == [NoTxn EXCEPT !.work = work]
  <1>1. LocalWrites(work) /\ DOMAIN work # {}
    BY BoundsAssumption, SMT DEF SaveMany, LocalWrites, StoreInv, TypeOK
  <1>2. work \in Writes
    <2>1. used.commits + 1 \in Bodies
      BY BoundsAssumption, SMT DEF SaveMany, Bodies, StoreInv, TypeOK
    <2> QED
      BY <2>1, SMT DEF Writes
  <1> HIDE DEF work
  <1>3. fields \in Txns
    BY <1>2, EmptyTxn, Zenon DEF Txns
  <1>4. /\ fields.mode = "none" /\ fields.todo = {} /\ fields.target = {}
        /\ fields.work = work
    BY EmptyTxn, SMT DEF Txns
  <1>5. Enter(p, "commit", fields) /\ \A q \in Procs \ {p} : mem'[q] = mem[q]
    BY DEF SaveMany, work
  <1> HIDE DEF fields
  <1> QED
    BY <1>1, <1>3, <1>4, <1>5, EnterKeeps

LEMMA AdoptExternalChangeKeeps ==
    ASSUME StoreInv, NEW p \in Procs, AdoptExternalChange(p)
    PROVE  Kept(p)
  <1> DEFINE fields == [NoTxn EXCEPT !.want = review]
  <1>1. fields \in Txns
    BY EmptyTxn, Zenon DEF Txns, StoreInv, TypeOK
  <1>2. /\ fields.mode = "none" /\ fields.todo = {} /\ fields.target = {}
        /\ fields.work = NoTxn.work
    BY EmptyTxn, SMT DEF Txns
  <1>3. Enter(p, "adopt", fields) /\ \A q \in Procs \ {p} : mem'[q] = mem[q]
    BY DEF AdoptExternalChange
  <1> HIDE DEF fields
  <1> QED
    BY <1>1, <1>2, <1>3, EmptyTxn, EnterKeeps

LEMMA IdleMoves ==
    ASSUME StoreInv, NEW p \in Procs, pc[p] = "idle", UNCHANGED <<pc, txn>>,
           DocumentsOwned', mem'[p].server => lease' = p,
           \A q \in Procs \ {p} : mem'[q] = mem[q]
    PROVE  Kept(p)
  <1>1. txn[p] = NoTxn
    BY DEF StoreInv, ProcessInv, LeaseHeld, Running
  <1> QED
    BY <1>1, IdleProcess DEF Kept, OthersUntouched

LEMMA LeaseMovesKeep ==
    ASSUME StoreInv, NEW p \in Procs, RetainLease(p) \/ ReleaseLease(p) \/ Exit(p)
    PROVE  Kept(p)
  <1>1. UNCHANGED <<docs, author, journal, manifest, pc, txn>> /\ pc[p] = "idle"
    BY DEF RetainLease, ReleaseLease, Exit, disk
  <1>2. DocumentsOwned'
    BY <1>1, DiskKept DEF StoreInv
  <1>3. \A q \in Procs \ {p} : mem'[q] = mem[q]
    BY SMT DEF RetainLease, ReleaseLease, Exit, StoreInv, TypeOK
  <1>4. mem'[p].server => lease' = p
    <2>1. mem[p] \in Mems
      BY DEF StoreInv, TypeOK
    <2>2. CASE RetainLease(p)
      BY <2>2 DEF RetainLease
    <2>3. CASE ReleaseLease(p)
      <3>1. mem'[p] = [mem[p] EXCEPT !.server = FALSE]
        BY <2>3, Zenon DEF ReleaseLease, StoreInv, TypeOK
      <3>2. ~mem'[p].server
        BY <2>1, <3>1, Zenon DEF Mems
      <3> QED
        BY <3>2
    <2>4. CASE Exit(p)
      <3>1. mem'[p] = FreshMem
        BY <2>4, MemShape DEF Exit, StoreInv
      <3> QED
        BY <3>1 DEF FreshMem
    <2> QED
      BY <2>2, <2>3, <2>4
  <1> QED
    BY <1>1, <1>2, <1>3, <1>4, IdleMoves

LEMMA SyncStatusKeeps ==
    ASSUME StoreInv, NEW p \in Procs, SyncStatus(p)
    PROVE  Kept(p)
  <1>0. lease = p /\ pc[p] = "idle"
    BY DEF StoreInv, ProcessInv, LeaseHeld, SyncStatus
  <1>1. UNCHANGED <<docs, author, journal, manifest, lease>>
    BY DEF SyncStatus, disk
  <1>2. DocumentsOwned'
    BY <1>1, DiskKept DEF StoreInv
  <1>3. CASE Shown(p) /\ UNCHANGED <<pc, txn>>
    <2>1. mem'[p].server = mem[p].server /\ \A q \in Procs \ {p} : mem'[q] = mem[q]
      BY <1>3, InspectionKept DEF Shown
    <2> QED
      BY <1>0, <1>1, <1>2, <1>3, <2>1, IdleMoves
  <1>4. ASSUME ~HasManifest, Valid(docs), Goto(p, "first"), mem' = mem,
               txn' = [txn EXCEPT ![p] = [NoTxn EXCEPT !.op = "status"]]
        PROVE  Kept(p)
    <2>1. /\ pc'[p] = "first" /\ txn'[p].op = "status" /\ txn'[p].mode = "none"
          /\ txn'[p].todo = {} /\ txn'[p].target = {} /\ txn'[p].work = NoTxn.work
      <3>1. txn'[p] = [NoTxn EXCEPT !.op = "status"]
        BY <1>4, TxnShape DEF StoreInv
      <3> QED
        BY <1>4, <3>1, EmptyTxn, GotoShape, SMT DEF StoreInv, Txns
    <2>2. OthersUntouched(p)
      BY <1>4, GotoShape, TxnShape DEF StoreInv, OthersUntouched
    <2>3. LeaseHeld(p)'
      BY <1>0, <1>1, <2>1 DEF LeaseHeld, Running
    <2>4. JournalFollowed(p)'
      BY <2>1, EmptyTxn, SMT
         DEF JournalFollowed, LocalWrites, Working, Clear, InCommit, Publishing,
             Noticing, Inspecting, Replacing
    <2>5. ModeFollowed(p)'
      BY <2>1, SMT DEF ModeFollowed, Publishing, Inspecting, Replacing
    <2>6. BaselineFollowed(p)'
      BY <1>1, <1>4, <2>1
         DEF BaselineFollowed, Replacing, InCommit, Publishing, Noticing, Inspecting,
             HasManifest
    <2>7. SnapshotFollowed(p)'
      BY <1>1, <1>4, <2>1 DEF SnapshotFollowed, Valid
    <2> QED
      BY <1>2, <2>2, <2>3, <2>4, <2>5, <2>6, <2>7 DEF Kept, ProcessInv
  <1> QED
    BY <1>3, <1>4 DEF SyncStatus

LEMMA ConsistentReadKeeps ==
    ASSUME StoreInv, NEW p \in Procs, ConsistentRead(p)
    PROVE  Kept(p)
  <1>1. pc'[p] = "reading" /\ lease' = p /\ txn' = txn
    BY GotoShape DEF StoreInv, ConsistentRead
  <1>2. UNCHANGED <<docs, author, journal, manifest>>
    BY DEF ConsistentRead, disk
  <1>3. OthersUntouched(p)
    <2>1. \A q \in Procs \ {p} : pc'[q] = pc[q]
      BY GotoShape DEF StoreInv, ConsistentRead
    <2>2. \A q \in Procs \ {p} : mem'[q] = mem[q]
      BY SMT DEF ConsistentRead, StoreInv, TypeOK
    <2> QED
      BY <1>1, <2>1, <2>2 DEF OthersUntouched
  <1>4. DocumentsOwned'
    BY <1>2, DiskKept DEF StoreInv
  <1>5. JournalFollowed(p) /\ ~Pending'
    BY <1>2 DEF StoreInv, ProcessInv, ConsistentRead, Pending
  <1>6. LeaseHeld(p)'
    BY <1>1 DEF LeaseHeld, Running
  <1>7. JournalFollowed(p)'
    <2>1. pc[p] = "idle" /\ txn'[p].op # "commit"
      BY <1>1, SMT DEF ConsistentRead, StoreInv, ProcessInv, LeaseHeld, Running, NoTxn
    <2> QED
      BY <1>1, <1>2, <1>5, <2>1, SMT
         DEF JournalFollowed, LocalWrites, Working, Clear, InCommit, Publishing,
             Noticing, Inspecting, Replacing
  <1>8. ModeFollowed(p)'
    BY <1>1 DEF ModeFollowed, Publishing, Inspecting, Replacing
  <1>9. BaselineFollowed(p)'
    BY <1>1
       DEF BaselineFollowed, Replacing, InCommit, Publishing, Noticing, Inspecting
  <1>10. SnapshotFollowed(p)'
    BY <1>1 DEF SnapshotFollowed
  <1> QED
    BY <1>3, <1>4, <1>6, <1>7, <1>8, <1>9, <1>10 DEF Kept, ProcessInv

-----------------------------------------------------------------------------
(* Faults and the outside world *)

LEMMA CrashKeeps ==
    ASSUME StoreInv, NEW p \in Procs, Crash(p)
    PROVE  Kept(p)
  <1>1. DocumentsOwned'
    BY DiskKept DEF StoreInv, Crash, disk
  <1> QED
    BY <1>1, EndKeeps DEF Crash

LEMMA FileFailsKeeps ==
    ASSUME StoreInv, NEW p \in Procs, FileFails(p)
    PROVE  Kept(p)
  <1>1. DocumentsOwned'
    BY DiskKept DEF StoreInv, FileFails, disk
  <1>2. CASE mem' = [mem EXCEPT ![p] = FreshMem]
    BY <1>1, <1>2, EndKeeps DEF FileFails
  <1>3. CASE mem' # [mem EXCEPT ![p] = FreshMem]
    <2>1. /\ \/ mem' = [mem EXCEPT ![p].generation = NextGeneration(p)]
             \/ mem' = mem
          /\ lease' = IF mem[p].server THEN lease ELSE NoProc
      BY <1>3 DEF FileFails
    <2>2. mem'[p].server = mem[p].server /\ \A q \in Procs \ {p} : mem'[q] = mem[q]
      BY <2>1, SMT DEF StoreInv, TypeOK, Mems
    <2> QED
      BY <1>1, <2>1, <2>2, EndKeeps DEF FileFails
  <1> QED
    BY <1>2, <1>3

\* An external writer owns what it leaves behind, and touches nothing else.
LEMMA ExternalKeeps ==
    ASSUME StoreInv, TypeOK', External
    PROVE  StoreInv'
  <1>0. PICK d \in Docs :
            \E body \in ExternalBodies \cup {Absent} \cup Restorable(d) : ExternalEdit(d, body)
    BY DEF External
  <1>1. PICK body \in ExternalBodies \cup {Absent} \cup Restorable(d) : ExternalEdit(d, body)
    BY <1>0
  <1>2. /\ UNCHANGED <<journal, manifest, lease, pc, txn, mem>>
        /\ author' = [author EXCEPT ![d] = "external"]
        /\ docs' = [docs EXCEPT ![d] = body]
    BY <1>1 DEF ExternalEdit
  <1>3. \A e \in Docs : author'[e] = "store" => author[e] = "store" /\ docs'[e] = docs[e]
    BY <1>2, SMT DEF StoreInv, TypeOK, Files
  <1>4. DocumentsOwned'
    BY <1>2, <1>3, SMT
       DEF StoreInv, DocumentsOwned, LocalWrites, Valid, Accepts, Present, HasManifest
  <1>5. ASSUME NEW q \in Procs
        PROVE  ProcessInv(q)'
    <2>1. ProcessInv(q)
      BY DEF StoreInv
    <2>2. LeaseHeld(q)'
      BY <1>2, <2>1 DEF ProcessInv, LeaseHeld, Running
    <2>3. JournalFollowed(q)'
      BY <1>2, <2>1
         DEF ProcessInv, JournalFollowed, LocalWrites, Working, Clear, InCommit,
             Publishing, Noticing, Inspecting, Replacing, Pending
    <2>4. ModeFollowed(q)'
      BY <1>2, <2>1 DEF ProcessInv, ModeFollowed, Publishing, Inspecting, Replacing
    <2>5. BaselineFollowed(q)'
      BY <1>2, <2>1
         DEF ProcessInv, BaselineFollowed, Replacing, InCommit, Publishing, Noticing,
             Inspecting, HasManifest, Overlay, Carries
    <2>6. SnapshotFollowed(q)'
      <3>1. pc[q] = "local" => DOMAIN journal \subseteq Docs
        BY SMT DEF StoreInv, TypeOK, Writes
      <3>2. ScanRace \/ pc[q] \notin {"first", "validate", "rehash"}
        BY <1>1 DEF ExternalEdit
      <3> QED
        BY <1>2, <1>3, <2>1, <3>1, <3>2, SMT
           DEF ProcessInv, SnapshotFollowed, Valid, Present
    <2> QED
      BY <2>2, <2>3, <2>4, <2>5, <2>6 DEF ProcessInv
  <1> QED
    BY <1>4, <1>5 DEF StoreInv

-----------------------------------------------------------------------------
(* The invariant is inductive *)

LEMMA InitInv == Init => StoreInv
  <1> SUFFICES ASSUME Init PROVE StoreInv
    OBVIOUS
  <1>1. TypeOK
    BY InitTypes
  <1>2. DocumentsOwned
    BY EmptyWrites, SMT DEF Init, DocumentsOwned, LocalWrites, HasManifest, NoManifest
  <1>3. ASSUME NEW p \in Procs
        PROVE  ProcessInv(p)
    <2>1. pc[p] = "idle" /\ txn[p] = NoTxn /\ mem[p] = FreshMem
      BY DEF Init
    <2>2. ~mem[p].server
      BY <2>1 DEF FreshMem
    <2>3. /\ txn[p].mode = "none" /\ txn[p].op = "none"
          /\ txn[p].work = NoWrites /\ txn[p].todo = {} /\ txn[p].target = {}
      BY <2>1, SMT DEF NoTxn
    <2>4. LeaseHeld(p)
      BY <2>1, <2>2 DEF LeaseHeld, Running
    <2>5. JournalFollowed(p)
      BY <2>1, <2>3, EmptyWrites, SMT
         DEF JournalFollowed, LocalWrites, Working, Clear, InCommit, Publishing,
             Noticing, Inspecting, Replacing
    <2>6. ModeFollowed(p) /\ SnapshotFollowed(p)
      BY <2>1, SMT
         DEF ModeFollowed, Publishing, Inspecting, SnapshotFollowed, Replacing
    <2>7. BaselineFollowed(p)
      BY <2>1, SMT
         DEF BaselineFollowed, Replacing, InCommit, Publishing, Noticing, Inspecting
    <2> QED
      BY <2>4, <2>5, <2>6, <2>7 DEF ProcessInv
  <1> QED
    BY <1>1, <1>2, <1>3 DEF StoreInv

LEMMA CallKeeps ==
    ASSUME StoreInv, NEW p \in Procs, Call(p)
    PROVE  Kept(p)
  BY EnteringKeeps, SaveManyKeeps, AdoptExternalChangeKeeps, LeaseMovesKeep,
     SyncStatusKeeps, ConsistentReadKeeps
     DEF Call

LEMMA ActionKeeps ==
    ASSUME StoreInv, TypeOK', NEW p \in Procs, Step(p)
    PROVE  Kept(p)
  <1>1. CASE RecoverLocked(p) \/ CaptureExpectations(p)
    BY <1>1, RecoverLockedKeeps, CaptureExpectationsKeeps
  <1>2. CASE \E d \in Docs : CompareTarget(p, d)
    BY <1>2, CompareTargetKeeps
  <1>3. CASE ReplaceTarget(p) \/ ReplayApplied(p) \/ CommitApplied(p)
    BY <1>3, ReplaceTargetKeeps, ReplayAppliedKeeps, CommitAppliedKeeps
  <1>4. CASE LocalBaselineTasks(p) \/ WriteLocalBaseline(p)
    BY <1>4, LocalBaselineTasksKeeps, WriteLocalBaselineKeeps
  <1>5. CASE UnlinkJournal(p) \/ ForgetJournal(p) \/ Settle(p)
    BY <1>5, UnlinkJournalKeeps, ForgetJournalKeeps, SettleKeeps
  <1>6. CASE AssertWritable(p) \/ WriteJournal(p)
    BY <1>6, AssertWritableKeeps, WriteJournalKeeps
  <1>7. CASE \/ HashDocuments(p) \/ NoticeLateChange(p) \/ ValidateDocuments(p)
             \/ RehashDocuments(p) \/ PublishManifest(p)
    BY <1>7, HashDocumentsKeeps, NoticeLateChangeKeeps, ValidateDocumentsKeeps,
       RehashDocumentsKeeps, PublishManifestKeeps
  <1>8. CASE ResolveLateExternalChange(p) \/ CommitReturns(p)
    BY <1>8, ResolveLateExternalChangeKeeps, CommitReturnsKeeps
  <1>9. CASE ServerStarted(p) \/ FinishRead(p)
    BY <1>9, ServerStartedKeeps
  <1>10. CASE InitializeFresh(p) \/ AdmitExisting(p) \/ FinishInitialization(p)
    BY <1>10, InitializeFreshKeeps, AdmitExistingKeeps, FinishInitializationKeeps
  <1>11. CASE \/ (\E d \in Docs : LoadDocument(p, d))
              \/ LoadInspected(p) \/ StatusShown(p)
    BY <1>11, LoadDocumentKeeps, LoadInspectedKeeps, StatusShownKeeps
  <1>12. CASE ReviewAdoption(p) \/ ConfirmAdoption(p) \/ WriteReceipt(p)
    BY <1>12, ReviewAdoptionKeeps, ConfirmAdoptionKeeps, WriteReceiptKeeps
  <1>13. CASE ValidateFirst(p) \/ EstablishBaseline(p)
    BY <1>13, ValidateFirstKeeps, EstablishBaselineKeeps
  <1> QED
    BY <1>1, <1>2, <1>3, <1>4, <1>5, <1>6, <1>7, <1>8, <1>9, <1>10, <1>11, <1>12,
       <1>13
       DEF Step

\* A process that calls holds the lease already, or nobody does; only a
\* program that ends between two transactions may do so next to another's.
LEMMA CallHolds ==
    ASSUME StoreInv, NEW p \in Procs, Call(p), ~Exit(p)
    PROVE  lease \in {NoProc, p}
  <1>1. mem[p].server => lease = p
    BY DEF StoreInv, ProcessInv, LeaseHeld
  <1> QED
    BY <1>1
       DEF Call, StartServer, Initialize, Load, AdoptExternalChange, SyncStatus,
           RetainLease, ReleaseLease, ConsistentRead, SaveMany, Enter

LEMMA ExitKeeps ==
    ASSUME StoreInv, TypeOK', NEW p \in Procs, Exit(p), lease # p
    PROVE  StoreInv'
  <1>1. /\ UNCHANGED <<docs, author, journal, manifest, pc, txn, lease>>
        /\ \A q \in Procs \ {p} : mem'[q] = mem[q]
        /\ Kept(p)
    BY LeaseMovesKeep, MemShape DEF Exit, disk, StoreInv
  <1>2. ASSUME NEW q \in Procs \ {p}
        PROVE  ProcessInv(q)'
    <2>1. ProcessInv(q)
      BY DEF StoreInv
    <2>2. LeaseHeld(q)'
      BY <1>1, <2>1 DEF ProcessInv, LeaseHeld, Running
    <2>3. JournalFollowed(q)'
      BY <1>1, <2>1
         DEF ProcessInv, JournalFollowed, LocalWrites, Working, Clear, InCommit,
             Publishing, Noticing, Inspecting, Replacing, Pending
    <2>4. ModeFollowed(q)'
      BY <1>1, <2>1 DEF ProcessInv, ModeFollowed, Publishing, Inspecting, Replacing
    <2>5. BaselineFollowed(q)'
      BY <1>1, <2>1
         DEF ProcessInv, BaselineFollowed, Replacing, InCommit, Publishing, Noticing,
             Inspecting, HasManifest, Overlay, Carries
    <2>6. SnapshotFollowed(q)'
      BY <1>1, <2>1 DEF ProcessInv, SnapshotFollowed, Valid, Present
    <2> QED
      BY <2>2, <2>3, <2>4, <2>5, <2>6 DEF ProcessInv
  <1> QED
    BY <1>1, <1>2 DEF StoreInv, Kept

LEMMA StepRuns ==
    ASSUME NEW p \in Procs, Step(p)
    PROVE  Running(p)
  BY DEF Step, Running, RecoverLocked, CaptureExpectations, CompareTarget,
         ReplaceTarget, ReplayApplied, CommitApplied, LocalBaselineTasks,
         WriteLocalBaseline, UnlinkJournal, ForgetJournal, Settle, AssertWritable,
         WriteJournal, HashDocuments, RehashDocuments, PublishManifest,
         ResolveLateExternalChange, CommitReturns, ServerStarted, InitializeFresh,
         AdmitExisting, FinishInitialization, LoadDocument, FinishRead,
         ReviewAdoption, ConfirmAdoption, WriteReceipt, ValidateFirst,
         EstablishBaseline, NoticeLateChange, ValidateDocuments, LoadInspected,
         StatusShown, Finds

LEMMA StutterKeeps ==
    ASSUME StoreInv, TypeOK', UNCHANGED vars
    PROVE  StoreInv'
  <1>1. UNCHANGED <<docs, author, journal, manifest, lease, pc, txn, mem>>
    BY DEF vars
  <1>2. DocumentsOwned'
    BY <1>1, DiskKept DEF StoreInv
  <1>3. ASSUME NEW q \in Procs
        PROVE  ProcessInv(q)'
    <2>1. ProcessInv(q)
      BY DEF StoreInv
    <2> QED
      BY <1>1, <2>1
         DEF ProcessInv, LeaseHeld, JournalFollowed, ModeFollowed, BaselineFollowed,
             SnapshotFollowed, Running, LocalWrites, Working, Clear, InCommit,
             Publishing, Noticing, Inspecting, Replacing, Pending, HasManifest,
             Overlay, Carries, Valid, Present
  <1> QED
    BY <1>2, <1>3 DEF StoreInv

LEMMA StoreStep ==
    ASSUME StoreInv, [Next]_vars
    PROVE  StoreInv'
  <1>1. TypeOK'
    <2>1. \A p \in Procs : txn[p].target \subseteq DOMAIN journal
      BY DEF StoreInv, ProcessInv, JournalFollowed
    <2> QED
      BY <2>1, TypeStep DEF StoreInv
  <1>2. ASSUME NEW p \in Procs, Call(p)
        PROVE  StoreInv'
    <2>1. CASE Exit(p) /\ lease # p
      BY <1>1, <2>1, ExitKeeps
    <2>2. CASE ~(Exit(p) /\ lease # p)
      BY <1>1, <1>2, <2>2, CallHolds, CallKeeps, StepKeeps
    <2> QED
      BY <2>1, <2>2
  <1>3. ASSUME NEW p \in Procs, Step(p)
        PROVE  StoreInv'
    BY <1>1, <1>3, StepRuns, RunningHolds, ActionKeeps, StepKeeps
  <1>4. ASSUME NEW p \in Procs, Crash(p) \/ FileFails(p)
        PROVE  StoreInv'
    <2>1. Running(p)
      BY <1>4 DEF Crash, FileFails
    <2> QED
      BY <1>1, <1>4, <2>1, RunningHolds, CrashKeeps, FileFailsKeeps, StepKeeps
  <1> QED
    BY <1>1, <1>2, <1>3, <1>4, ExternalKeeps, StutterKeeps DEF Next

\* Every transaction is where its journal, its baseline and its lease say it
\* is, and no document Work Stack wrote is unaccounted for, for any number of
\* programs, documents, external edits and faults.
THEOREM StoreInvariant == Spec => []StoreInv
  BY InitInv, StoreStep, PTL DEF Spec

\* The variables of the Store keep their types (Store, _recover_locked,
\* _commit_prepared_locked and the operations around them).
THEOREM TypeCorrect == Spec => []TypeOK
  <1>1. StoreInv => TypeOK
    BY DEF StoreInv
  <1> QED
    BY <1>1, StoreInvariant, PTL

\* Whatever crash, failing write, refusal or replay happened: once no journal
\* is pending, what Work Stack wrote last is what the manifest names.
THEOREM NoHalfCommitHolds == Spec => []NoHalfCommit
  <1>1. StoreInv => NoHalfCommit
    BY DEF StoreInv, DocumentsOwned, NoHalfCommit, Pending
  <1> QED
    BY <1>1, StoreInvariant, PTL

\* When save_many reports success nothing is left to recover and the manifest
\* names every body it wrote (_commit_prepared_locked).
THEOREM SavedIsAcceptedHolds == Spec => []SavedIsAccepted
  <1>1. ASSUME StoreInv, NEW p \in Procs, pc[p] = "saved"
        PROVE  ~Pending /\ HasManifest /\ Carries(manifest.files, txn[p].work)
    <2>1. ProcessInv(p)
      BY <1>1 DEF StoreInv
    <2> QED
      BY <1>1, <2>1, SMT DEF ProcessInv, JournalFollowed, BaselineFollowed, Clear
  <1>2. StoreInv => SavedIsAccepted
    BY <1>1 DEF SavedIsAccepted
  <1> QED
    BY <1>2, StoreInvariant, PTL

-----------------------------------------------------------------------------
(* What a step may write *)

\* The manifest is made by the first inspection, extended by a local baseline,
\* or published by a commit, an initialization or an acceptance.
LEMMA ManifestWritten ==
    ASSUME [Next]_vars, manifest' # manifest
    PROVE  \E p \in Procs :
               EstablishBaseline(p) \/ WriteLocalBaseline(p) \/ PublishManifest(p)
  <1>1. ASSUME NEW p \in Procs, NEW label,
               \/ Refuse(p) \/ InspectAndReturn(p) \/ InspectAndRefuse(p)
               \/ InspectAndGoto(p, label)
        PROVE  FALSE
    BY <1>1 DEF Refuse, InspectAndReturn, InspectAndRefuse, InspectAndGoto, disk
  <1>2. ASSUME NEW p \in Procs, Call(p)
        PROVE  FALSE
    BY <1>2
       DEF Call, StartServer, Initialize, Load, AdoptExternalChange, SyncStatus,
           RetainLease, ReleaseLease, ConsistentRead, SaveMany, Enter, Exit, disk
  <1>3. ASSUME NEW p \in Procs,
               \/ AssertWritable(p) \/ HashDocuments(p) \/ ResolveLateExternalChange(p)
               \/ FinishInitialization(p) \/ ReviewAdoption(p) \/ Settle(p)
               \/ ConfirmAdoption(p) \/ (\E d \in Docs : LoadDocument(p, d))
               \/ NoticeLateChange(p) \/ LoadInspected(p) \/ StatusShown(p)
        PROVE  FALSE
    BY <1>1, <1>3
       DEF AssertWritable, HashDocuments, ResolveLateExternalChange, Settle,
           FinishInitialization, ReviewAdoption, ConfirmAdoption, LoadDocument,
           NoticeLateChange, LoadInspected, StatusShown, disk
  <1>4. ASSUME NEW p \in Procs,
               \/ RecoverLocked(p) \/ CaptureExpectations(p)
               \/ (\E d \in Docs : CompareTarget(p, d))
               \/ ReplaceTarget(p) \/ ReplayApplied(p) \/ CommitApplied(p)
               \/ LocalBaselineTasks(p) \/ UnlinkJournal(p) \/ ForgetJournal(p)
               \/ WriteJournal(p) \/ ValidateDocuments(p) \/ RehashDocuments(p)
               \/ CommitReturns(p) \/ ServerStarted(p) \/ InitializeFresh(p)
               \/ AdmitExisting(p) \/ FinishRead(p) \/ WriteReceipt(p)
               \/ ValidateFirst(p)
        PROVE  FALSE
    BY <1>1, <1>4
       DEF RecoverLocked, CaptureExpectations, CompareTarget, ReplaceTarget,
           ReplayApplied, CommitApplied, LocalBaselineTasks, UnlinkJournal,
           ForgetJournal, WriteJournal, ValidateDocuments, RehashDocuments,
           CommitReturns, ServerStarted, InitializeFresh, AdmitExisting, FinishRead,
           WriteReceipt, ValidateFirst, disk
  <1>5. ASSUME NEW p \in Procs, Step(p)
        PROVE  EstablishBaseline(p) \/ WriteLocalBaseline(p) \/ PublishManifest(p)
    BY <1>3, <1>4, <1>5 DEF Step
  <1>6. ~External /\ \A p \in Procs : ~Crash(p) /\ ~FileFails(p)
    BY DEF External, ExternalEdit, Crash, FileFails, disk
  <1> QED
    BY <1>2, <1>5, <1>6 DEF Next, vars

LEMMA JournalWritten ==
    ASSUME [Next]_vars, journal' # journal
    PROVE  \E p \in Procs : WriteJournal(p) \/ UnlinkJournal(p) \/ ForgetJournal(p)
  <1>1. ASSUME NEW p \in Procs, NEW label,
               \/ Refuse(p) \/ InspectAndReturn(p) \/ InspectAndRefuse(p)
               \/ InspectAndGoto(p, label)
        PROVE  FALSE
    BY <1>1 DEF Refuse, InspectAndReturn, InspectAndRefuse, InspectAndGoto, disk
  <1>2. ASSUME NEW p \in Procs, Call(p)
        PROVE  FALSE
    BY <1>2
       DEF Call, StartServer, Initialize, Load, AdoptExternalChange, SyncStatus,
           RetainLease, ReleaseLease, ConsistentRead, SaveMany, Enter, Exit, disk
  <1>3. ASSUME NEW p \in Procs,
               \/ AssertWritable(p) \/ HashDocuments(p) \/ ResolveLateExternalChange(p)
               \/ FinishInitialization(p) \/ ReviewAdoption(p) \/ Settle(p)
               \/ ConfirmAdoption(p) \/ (\E d \in Docs : LoadDocument(p, d))
               \/ NoticeLateChange(p) \/ LoadInspected(p) \/ StatusShown(p)
        PROVE  FALSE
    BY <1>1, <1>3
       DEF AssertWritable, HashDocuments, ResolveLateExternalChange, Settle,
           FinishInitialization, ReviewAdoption, ConfirmAdoption, LoadDocument,
           NoticeLateChange, LoadInspected, StatusShown, disk
  <1>4. ASSUME NEW p \in Procs,
               \/ RecoverLocked(p) \/ CaptureExpectations(p)
               \/ (\E d \in Docs : CompareTarget(p, d))
               \/ ReplaceTarget(p) \/ ReplayApplied(p) \/ CommitApplied(p)
               \/ LocalBaselineTasks(p) \/ WriteLocalBaseline(p)
               \/ PublishManifest(p) \/ RehashDocuments(p) \/ CommitReturns(p)
               \/ ServerStarted(p) \/ InitializeFresh(p) \/ AdmitExisting(p)
               \/ FinishRead(p) \/ WriteReceipt(p) \/ ValidateFirst(p)
               \/ EstablishBaseline(p) \/ ValidateDocuments(p)
        PROVE  FALSE
    BY <1>1, <1>4
       DEF RecoverLocked, CaptureExpectations, CompareTarget, ReplaceTarget,
           ReplayApplied, CommitApplied, LocalBaselineTasks, WriteLocalBaseline,
           PublishManifest, RehashDocuments, CommitReturns,
           ServerStarted, InitializeFresh, AdmitExisting, FinishRead,
           WriteReceipt, ValidateFirst, EstablishBaseline, ValidateDocuments, disk
  <1>5. ASSUME NEW p \in Procs, Step(p)
        PROVE  WriteJournal(p) \/ UnlinkJournal(p) \/ ForgetJournal(p)
    BY <1>3, <1>4, <1>5 DEF Step
  <1>6. ~External /\ \A p \in Procs : ~Crash(p) /\ ~FileFails(p)
    BY DEF External, ExternalEdit, Crash, FileFails, disk
  <1> QED
    BY <1>2, <1>5, <1>6 DEF Next, vars

LEMMA DocumentsWritten ==
    ASSUME [Next]_vars, docs' # docs
    PROVE  External \/ \E p \in Procs : ReplaceTarget(p)
  <1>1. ASSUME NEW p \in Procs, NEW label,
               \/ Refuse(p) \/ InspectAndReturn(p) \/ InspectAndRefuse(p)
               \/ InspectAndGoto(p, label)
        PROVE  FALSE
    BY <1>1 DEF Refuse, InspectAndReturn, InspectAndRefuse, InspectAndGoto, disk
  <1>2. ASSUME NEW p \in Procs, Call(p)
        PROVE  FALSE
    BY <1>2
       DEF Call, StartServer, Initialize, Load, AdoptExternalChange, SyncStatus,
           RetainLease, ReleaseLease, ConsistentRead, SaveMany, Enter, Exit, disk
  <1>3. ASSUME NEW p \in Procs,
               \/ AssertWritable(p) \/ HashDocuments(p) \/ ResolveLateExternalChange(p)
               \/ FinishInitialization(p) \/ ReviewAdoption(p) \/ Settle(p)
               \/ ConfirmAdoption(p) \/ (\E d \in Docs : LoadDocument(p, d))
               \/ NoticeLateChange(p) \/ LoadInspected(p) \/ StatusShown(p)
        PROVE  FALSE
    BY <1>1, <1>3
       DEF AssertWritable, HashDocuments, ResolveLateExternalChange, Settle,
           FinishInitialization, ReviewAdoption, ConfirmAdoption, LoadDocument,
           NoticeLateChange, LoadInspected, StatusShown, disk
  <1>4. ASSUME NEW p \in Procs,
               \/ RecoverLocked(p) \/ CaptureExpectations(p)
               \/ (\E d \in Docs : CompareTarget(p, d))
               \/ WriteJournal(p) \/ ReplayApplied(p) \/ CommitApplied(p)
               \/ LocalBaselineTasks(p) \/ WriteLocalBaseline(p)
               \/ UnlinkJournal(p) \/ ForgetJournal(p)
               \/ PublishManifest(p) \/ RehashDocuments(p) \/ CommitReturns(p)
               \/ ServerStarted(p) \/ InitializeFresh(p) \/ AdmitExisting(p)
               \/ FinishRead(p) \/ WriteReceipt(p) \/ ValidateFirst(p)
               \/ EstablishBaseline(p) \/ ValidateDocuments(p)
        PROVE  FALSE
    BY <1>1, <1>4
       DEF RecoverLocked, CaptureExpectations, CompareTarget, WriteJournal,
           ReplayApplied, CommitApplied, LocalBaselineTasks, WriteLocalBaseline,
           UnlinkJournal, ForgetJournal, PublishManifest, RehashDocuments,
           CommitReturns, ServerStarted, InitializeFresh, AdmitExisting,
           FinishRead, WriteReceipt, ValidateFirst, EstablishBaseline, ValidateDocuments, disk
  <1>5. ASSUME NEW p \in Procs, Step(p)
        PROVE  ReplaceTarget(p)
    BY <1>3, <1>4, <1>5 DEF Step
  <1>6. \A p \in Procs : ~Crash(p) /\ ~FileFails(p)
    BY DEF Crash, FileFails, disk
  <1> QED
    BY <1>2, <1>5, <1>6 DEF Next, vars

\* A generation names one baseline: whoever replaces the manifest, after
\* whatever crash or failing write, gives it a greater one (_next_generation).
THEOREM GenerationAdvancesHolds == Spec => GenerationAdvances
  <1>1. ASSUME StoreInv, [Next]_vars, manifest' # manifest, HasManifest
        PROVE  manifest'.generation > manifest.generation
    <2>1. PICK p \in Procs :
              EstablishBaseline(p) \/ WriteLocalBaseline(p) \/ PublishManifest(p)
      BY <1>1, ManifestWritten
    <2>2. ~EstablishBaseline(p)
      <3>1. ProcessInv(p)
        BY <1>1 DEF StoreInv
      <3>2. pc[p] # "first"
        BY <1>1, <3>1 DEF ProcessInv, BaselineFollowed
      <3> QED
        BY <3>2 DEF EstablishBaseline
    <2>3. manifest'.generation = NextGeneration(p)
      BY <2>1, <2>2, SMT DEF WriteLocalBaseline, PublishManifest, Candidate
    <2>4. NextGeneration(p) > manifest.generation
      BY <1>1, InspectionTypes DEF StoreInv
    <2> QED
      BY <2>3, <2>4
  <1>2. StoreInv /\ [Next]_vars =>
            [manifest' # manifest /\ HasManifest =>
                manifest'.generation > manifest.generation]_vars
    BY <1>1
  <1> QED
    BY <1>2, StoreInvariant, PTL DEF Spec, GenerationAdvances

\* While a consistent_read reads, no other program replaces a document: only
\* an external writer can come between its reads.
THEOREM ReadSeesOneVersionHolds == Spec => ReadSeesOneVersion
  <1>1. ASSUME StoreInv, [Next]_vars, NEW p \in Procs, pc[p] = "reading",
               NEW d \in Docs, docs'[d] # docs[d]
        PROVE  author'[d] = "external"
    <2>1. CASE External
      BY <1>1, <2>1, SMT DEF External, ExternalEdit, StoreInv, TypeOK, Files
    <2>2. ASSUME NEW q \in Procs, ReplaceTarget(q)
          PROVE  FALSE
      <3>1. lease = q
        BY <1>1, <2>2, RunningHolds DEF ReplaceTarget, Running
      <3>2. lease = p
        BY <1>1, RunningHolds DEF Running
      <3> QED
        BY <1>1, <2>2, <3>1, <3>2 DEF ReplaceTarget
    <2> QED
      BY <1>1, <2>1, <2>2, DocumentsWritten
  <1> DEFINE Undisturbed == \A p \in Procs : pc[p] = "reading" =>
                 \A d \in Docs : docs'[d] # docs[d] => author'[d] = "external"
  <1>2. StoreInv /\ [Next]_vars => [Undisturbed]_vars
    BY <1>1
  <1> QED
    BY <1>2, StoreInvariant, PTL DEF Spec, ReadSeesOneVersion

-----------------------------------------------------------------------------
(* The Store implements its promise *)

LEMMA NothingThere ==
    ASSUME StoreInv
    PROVE  /\ ~HasManifest => manifest.files = Atomic!Nothing
           /\ HasManifest => /\ manifest.files # Atomic!Nothing
                             /\ manifest.files \in Files
           /\ ~Pending => journal = Atomic!Nothing
           /\ Pending => journal # Atomic!Nothing
  <1>1. manifest.files \in Files \cup {NoFiles} /\ journal \in Writes
    BY SMT DEF StoreInv, TypeOK, Baselines
  <1>2. DOMAIN Atomic!Nothing = {} /\ DOMAIN NoFiles = {}
    BY SMT DEF Atomic!Nothing, NoFiles
  <1>3. NoFiles = Atomic!Nothing
    BY SMT DEF Atomic!Nothing, NoFiles
  <1>4. ~HasManifest => manifest.files = Atomic!Nothing
    BY <1>1, <1>3, DocsAssumption, SMT DEF HasManifest, Files
  <1>5. HasManifest => manifest.files # Atomic!Nothing /\ manifest.files \in Files
    BY <1>1, <1>2 DEF HasManifest
  <1>6. ~Pending => journal = Atomic!Nothing
    <2> SUFFICES ASSUME ~Pending PROVE journal = Atomic!Nothing
      OBVIOUS
    <2>1. journal \in [{} -> Bodies]
      BY <1>1, SMT DEF Pending, Writes
    <2> QED
      BY <2>1, SMT DEF Atomic!Nothing
  <1>7. Pending => journal # Atomic!Nothing
    BY <1>2 DEF Pending
  <1> QED
    BY <1>4, <1>5, <1>6, <1>7

LEMMA AcceptedFilesAreBaselines ==
    ASSUME NEW files \in Files, Accepts(files)
    PROVE  files \in Atomic!Baselines
  <1>1. \A d \in Docs : files[d] \in Accepted
    BY SMT DEF Files, Accepts, Present, Valid, Accepted
  <1> QED
    BY <1>1, SMT DEF Files, Atomic!Baselines

LEMMA EstablishStep ==
    ASSUME StoreInv, ~HasManifest, journal' = journal,
           manifest'.files \in Files, Accepts(manifest'.files)
    PROVE  Atomic!Establish
  BY NothingThere, AcceptedFilesAreBaselines DEF Atomic!Establish

LEMMA CommitStep ==
    ASSUME StoreInv, HasManifest, Pending, journal' = journal,
           manifest'.files = Overlay(manifest.files, journal)
    PROVE  Atomic!Commit
  <1>1. manifest'.files = Atomic!With(manifest.files, journal)
    BY DEF Overlay, Atomic!With
  <1> QED
    BY <1>1, NothingThere DEF Atomic!Commit

LEMMA ManifestMaps ==
    ASSUME StoreInv, [Next]_vars, manifest' # manifest
    PROVE  Atomic!Next
  <1>1. PICK p \in Procs :
            EstablishBaseline(p) \/ WriteLocalBaseline(p) \/ PublishManifest(p)
    BY ManifestWritten
  <1>2. CASE EstablishBaseline(p)
    <2>1. ProcessInv(p) /\ pc[p] = "first"
      BY <1>2 DEF StoreInv, EstablishBaseline
    <2>2. ~HasManifest /\ (ScanRace \/ Valid(docs))
      BY <2>1, SMT DEF ProcessInv, BaselineFollowed, SnapshotFollowed
    <2>3. ~Refuse(p)
      BY DEF Refuse, disk
    <2>4. manifest'.files = docs /\ Present(docs) /\ journal' = journal
      BY <1>2, <2>3, SMT DEF EstablishBaseline, Candidate
    <2>5. docs \in Files /\ Accepts(docs)
      BY <2>2, <2>4 DEF StoreInv, TypeOK, Accepts
    <2> QED
      BY <2>2, <2>4, <2>5, EstablishStep DEF Atomic!Next
  <1>3. CASE WriteLocalBaseline(p)
    <2>1. ProcessInv(p) /\ pc[p] = "local"
      BY <1>3 DEF StoreInv, WriteLocalBaseline
    <2>2. HasManifest /\ Pending /\ txn[p].expected = Overlay(manifest.files, journal)
      BY <2>1, SMT DEF ProcessInv, BaselineFollowed, JournalFollowed, Working
    <2>3. manifest'.files = txn[p].expected /\ journal' = journal
      BY <1>3, SMT DEF WriteLocalBaseline, Candidate
    <2> QED
      BY <2>2, <2>3, CommitStep DEF Atomic!Next
  <1>4. CASE PublishManifest(p)
    <2>1. ProcessInv(p) /\ pc[p] = "publish"
      BY <1>4 DEF StoreInv, PublishManifest
    <2>2. /\ txn[p].snap \in Files /\ Accepts(txn[p].snap)
          /\ (txn[p].mode = "commit" => txn[p].snap = txn[p].expected)
      BY <2>1, SMT DEF ProcessInv, SnapshotFollowed, Accepts
    <2>3. manifest'.files = txn[p].snap /\ journal' = journal
      BY <1>4, SMT DEF PublishManifest, Candidate
    <2>4. CASE ~HasManifest
      BY <2>2, <2>3, <2>4, EstablishStep DEF Atomic!Next
    <2>5. CASE HasManifest /\ txn[p].mode = "commit"
      <3>1. txn[p].base
        BY <2>1, <2>5
           DEF ProcessInv, BaselineFollowed, InCommit, Publishing, Noticing,
               Inspecting
      <3>2. txn[p].expected = Overlay(manifest.files, journal) /\ Pending
        BY <2>1, <2>5, <3>1
           DEF ProcessInv, BaselineFollowed, JournalFollowed, Working, InCommit,
               Publishing, Noticing, Inspecting
      <3> QED
        BY <2>2, <2>3, <2>5, <3>2, CommitStep DEF Atomic!Next
    <2>6. CASE HasManifest /\ txn[p].mode # "commit"
      <3>1. ~Pending
        BY <2>1, <2>6, SMT
           DEF ProcessInv, JournalFollowed, Clear, InCommit, Publishing, Noticing,
               Inspecting
      <3>2. txn[p].snap \in Atomic!Baselines
        BY <2>2, AcceptedFilesAreBaselines
      <3> QED
        BY <2>3, <2>6, <3>1, <3>2, NothingThere DEF Atomic!Next, Atomic!Accept
    <2> QED
      BY <2>4, <2>5, <2>6
  <1> QED
    BY <1>1, <1>2, <1>3, <1>4

LEMMA JournalMaps ==
    ASSUME StoreInv, [Next]_vars, journal' # journal
    PROVE  Atomic!Next
  <1>1. PICK p \in Procs : WriteJournal(p) \/ UnlinkJournal(p) \/ ForgetJournal(p)
    BY JournalWritten
  <1>2. ProcessInv(p) /\ manifest' = manifest
    BY <1>1 DEF StoreInv, WriteJournal, UnlinkJournal, ForgetJournal
  <1>3. CASE WriteJournal(p)
    <2>1. journal' = txn[p].work /\ ~Pending /\ pc[p] = "commit"
      BY <1>3 DEF WriteJournal
    <2>2. /\ txn[p].work \in Writes /\ DOMAIN txn[p].work # {}
          /\ LocalWrites(txn[p].work)
      BY <1>2, <2>1, SMT DEF ProcessInv, JournalFollowed, StoreInv, TypeOK, Txns
    <2>3. \A d \in DOMAIN txn[p].work : txn[p].work[d] \in Accepted
      BY <2>2, LocalBodiesValid DEF LocalWrites, Bodies, Accepted
    <2>4. txn[p].work \in UNION {[S -> Accepted] : S \in SUBSET Docs}
      BY <2>2, <2>3, SMT DEF Writes
    <2>5. txn[p].work # Atomic!Nothing
      BY <2>2, SMT DEF Atomic!Nothing
    <2>6. journal' \in Atomic!WriteSets
      BY <2>1, <2>4, <2>5 DEF Atomic!WriteSets
    <2>7. journal = Atomic!Nothing
      BY <2>1, NothingThere
    <2>8. Atomic!Declare
      BY <1>2, <2>6, <2>7 DEF Atomic!Declare
    <2> QED
      BY <2>8 DEF Atomic!Next
  <1>4. CASE UnlinkJournal(p) \/ ForgetJournal(p)
    <2>1. journal' = Atomic!Nothing
      BY <1>4, SMT DEF UnlinkJournal, ForgetJournal, NoWrites, Atomic!Nothing
    <2>2. Pending
      BY <1>2, <1>4, SMT
         DEF ProcessInv, JournalFollowed, Working, UnlinkJournal, ForgetJournal
    <2>3. HasManifest => Carries(manifest.files, journal)
      BY <1>2, <1>4, SMT
         DEF ProcessInv, BaselineFollowed, UnlinkJournal, ForgetJournal
    <2>4. HasManifest => manifest.files = Atomic!With(manifest.files, journal)
      BY <2>3, NothingThere, SMT DEF Carries, Files, Atomic!With
    <2>5. manifest.files # Atomic!Nothing => HasManifest
      BY NothingThere
    <2> QED
      BY <1>2, <2>1, <2>2, <2>4, <2>5, NothingThere DEF Atomic!Next, Atomic!Finish
  <1> QED
    BY <1>1, <1>3, <1>4

\* The Store implements AtomicStore: seen through its manifest and its journal
\* every step declares a commit, makes one take effect for all its documents
\* at once, ends it only when nothing of it is missing, or changes nothing.
THEOREM ImplementsAtomicStoreHolds == Spec => ImplementsAtomicStore
  <1>1. Init => Atomic!Init
    BY SMT DEF Init, NoManifest, NoFiles, NoWrites, Atomic!Init, Atomic!Nothing
  <1>2. ASSUME StoreInv, [Next]_vars
        PROVE  [Atomic!Next]_(Atomic!vars)
    BY <1>2, ManifestMaps, JournalMaps DEF Atomic!vars
  <1>3. StoreInv /\ [Next]_vars => [Atomic!Next]_(Atomic!vars)
    BY <1>2
  <1> QED
    BY <1>1, <1>3, StoreInvariant, PTL DEF Spec, ImplementsAtomicStore, Atomic!Spec
=============================================================================
