---------------------------- MODULE StoreTypes -----------------------------
(***************************************************************************)
(* Every step of the Store assigns values of the right type, for any       *)
(* number of programs, documents, commits, edits and faults.               *)
(***************************************************************************)
EXTENDS Store, TLAPS

-----------------------------------------------------------------------------
(* The values the steps assign are of the right type. *)

LEMMA EmptyTypes ==
    /\ NoWrites \in Writes
    /\ NoFiles \in Expectations
    /\ NoManifest \in Baselines
    /\ NoMark \in Marks
    /\ FreshMem \in Mems
    /\ NoTxn \in Txns
  <1>1. Default \in Bodies
    BY BoundsAssumption, SMT DEF Default, Bodies
  <1>2. NoWrites \in [{} -> Bodies] /\ NoFiles \in [{} -> Bodies \cup {Absent}]
    BY <1>1, SMT DEF NoWrites, NoFiles
  <1>3. {} \in SUBSET Docs
    OBVIOUS
  <1>4. NoWrites \in Writes /\ NoFiles \in Expectations
    <2>1. [{} -> Bodies] \in {[S -> Bodies] : S \in SUBSET Docs}
      BY <1>3
    <2>2. [{} -> Bodies \cup {Absent}]
              \in {[S -> Bodies \cup {Absent}] : S \in SUBSET Docs}
      BY <1>3
    <2> QED
      BY <1>2, <2>1, <2>2, Zenon DEF Writes, Expectations
  <1>5. NoManifest \in Baselines
    BY SMT DEF NoManifest, Baselines
  <1>6. NoMark \in Marks
    BY SMT DEF NoMark, Marks
  <1>7. FreshMem \in Mems
    BY <1>6, SMT DEF FreshMem, Mems
  <1>8. NoTxn \in Txns
    BY <1>4, <1>5, SMT DEF NoTxn, Txns, Modes, NoCandidate
  <1> QED
    BY <1>4, <1>5, <1>6, <1>7, <1>8

LEMMA OverlayType ==
    ASSUME NEW files \in Files, NEW writes \in Writes
    PROVE  Overlay(files, writes) \in Files
  BY SMT DEF Overlay, Files, Writes

LEMMA MemType ==
    ASSUME NEW m \in Mems, NEW g \in Nat, NEW k \in Marks
    PROVE  [m EXCEPT !.generation = g, !.mark = k] \in Mems
  BY Zenon DEF Mems

LEMMA MemFlags ==
    ASSUME NEW m \in Mems, NEW b \in BOOLEAN
    PROVE  /\ [m EXCEPT !.server = b] \in Mems
           /\ [m EXCEPT !.ready = b] \in Mems
           /\ [m EXCEPT !.recovered = b] \in Mems
  <1>1. [m EXCEPT !.server = b] \in Mems
    BY Zenon DEF Mems
  <1>2. [m EXCEPT !.ready = b] \in Mems
    BY Zenon DEF Mems
  <1>3. [m EXCEPT !.recovered = b] \in Mems
    BY Zenon DEF Mems
  <1> QED
    BY <1>1, <1>2, <1>3

LEMMA MemCounted ==
    ASSUME NEW m \in Mems, NEW g \in Nat
    PROVE  /\ [m EXCEPT !.generation = g] \in Mems
           /\ [m EXCEPT !.generation = g, !.recovered = TRUE] \in Mems
  <1>1. [m EXCEPT !.generation = g] \in Mems
    BY SMT DEF Mems
  <1>2. TRUE \in BOOLEAN
    OBVIOUS
  <1>3. [m EXCEPT !.generation = g, !.recovered = TRUE] \in Mems
    BY <1>2, Zenon DEF Mems
  <1> QED
    BY <1>1, <1>3

LEMMA TxnTargets ==
    ASSUME NEW t \in Txns, NEW a \in SUBSET Docs, NEW b \in SUBSET Docs
    PROVE  /\ [t EXCEPT !.target = a] \in Txns
           /\ [t EXCEPT !.target = a, !.todo = b] \in Txns
  <1>1. [t EXCEPT !.target = a] \in Txns
    BY Zenon DEF Txns
  <1>2. [t EXCEPT !.target = a, !.todo = b] \in Txns
    BY Zenon DEF Txns
  <1> QED
    BY <1>1, <1>2

LEMMA TxnMode ==
    ASSUME NEW t \in Txns, NEW mode \in Modes
    PROVE  [t EXCEPT !.mode = mode] \in Txns
  BY Zenon DEF Txns

LEMMA TxnWork ==
    ASSUME NEW t \in Txns, NEW work \in Writes
    PROVE  [t EXCEPT !.work = work] \in Txns
  BY Zenon DEF Txns

LEMMA TxnSnap ==
    ASSUME NEW t \in Txns, NEW files \in Files \cup {NoFiles}, NEW n \in Nat
    PROVE  /\ [t EXCEPT !.snap = files] \in Txns
           /\ [t EXCEPT !.snap = files, !.emitted = n] \in Txns
  <1>1. [t EXCEPT !.snap = files] \in Txns
    BY Zenon DEF Txns
  <1>2. [t EXCEPT !.snap = files, !.emitted = n] \in Txns
    BY Zenon DEF Txns
  <1> QED
    BY <1>1, <1>2

LEMMA InspectionTypes ==
    ASSUME TypeOK, NEW p \in Procs
    PROVE  /\ Announced(p) \in Nat
           /\ Observed(p) \in Mems
           /\ NextGeneration(p) \in Nat
           /\ NextGeneration(p) > manifest.generation
  <1>1. manifest.generation \in Nat
    BY SMT DEF TypeOK, Baselines
  <1>2. Announced(p) \in Nat
    BY SMT DEF Announced
  <1>3. Mark(manifest) \in Marks
    <2>1. NoMark \in Marks
      BY EmptyTypes
    <2>2. Changed(manifest) \in SUBSET Docs
      BY SMT DEF Changed
    <2>3. docs \in Files /\ NoFiles \in {NoFiles}
      BY SMT DEF TypeOK
    <2> QED
      BY <2>1, <2>2, <2>3, SMT DEF Mark, Marks, SyncState
  <1>4. Observed(p) \in Mems
    <2>1. mem[p] \in Mems
      BY DEF TypeOK
    <2>2. Larger(mem[p].generation, manifest.generation) \in Nat
      BY <1>1, <2>1, SMT DEF Mems, Larger
    <2> QED
      BY <1>3, <2>1, <2>2, MemType, Zenon DEF Observed
  <1>5. NextGeneration(p) \in Nat /\ NextGeneration(p) > manifest.generation
    BY SMT DEF TypeOK, NextGeneration, Larger, Mems, Baselines
  <1> QED
    BY <1>2, <1>4, <1>5

\* What an operator is shown.
LEMMA ShownTypes ==
    ASSUME TypeOK, NEW p \in Procs, Shown(p)
    PROVE  mem' \in [Procs -> Mems] /\ review' \in Baselines
  <1>1. mem' \in [Procs -> Mems]
    BY InspectionTypes, SMT DEF TypeOK, Shown
  <1>2. Candidate(manifest.generation, docs) \in Baselines
    BY SMT DEF TypeOK, Candidate, Baselines
  <1> QED
    BY <1>1, <1>2, SMT DEF TypeOK, Shown

-----------------------------------------------------------------------------
(* The ways a step ends keep the types. *)

LEMMA GotoType ==
    ASSUME TypeOK, NEW p \in Procs, NEW label \in Labels, Goto(p, label)
    PROVE  pc' \in [Procs -> Labels]
  BY SMT DEF TypeOK, Goto

LEMMA IdleType ==
    ASSUME TypeOK, NEW p \in Procs, Goto(p, "idle"),
           txn' = [txn EXCEPT ![p] = NoTxn]
    PROVE  pc' \in [Procs -> Labels] /\ txn' \in [Procs -> Txns]
  <1>1. "idle" \in Labels
    BY DEF Labels
  <1>2. pc' \in [Procs -> Labels]
    BY <1>1, GotoType
  <1>3. txn' \in [Procs -> Txns]
    BY EmptyTypes, SMT DEF TypeOK
  <1> QED
    BY <1>2, <1>3

LEMMA ReturnType ==
    ASSUME TypeOK, NEW p \in Procs, Return(p)
    PROVE  /\ pc' \in [Procs -> Labels]
           /\ txn' \in [Procs -> Txns]
           /\ lease' \in Procs \cup {NoProc}
  <1>1. pc' \in [Procs -> Labels] /\ txn' \in [Procs -> Txns]
    BY IdleType DEF Return
  <1>2. lease' \in Procs \cup {NoProc}
    BY SMT DEF TypeOK, Return
  <1> QED
    BY <1>1, <1>2

LEMMA RefuseType ==
    ASSUME TypeOK, NEW p \in Procs, Refuse(p)
    PROVE  TypeOK'
  <1>1. pc' \in [Procs -> Labels] /\ txn' \in [Procs -> Txns]
    BY IdleType DEF Refuse, Raise
  <1>2. lease' \in Procs \cup {NoProc}
    BY SMT DEF TypeOK, Refuse, Raise
  <1>3. mem' \in [Procs -> Mems]
    BY EmptyTypes, SMT DEF TypeOK, Refuse, Raise
  <1> QED
    BY <1>1, <1>2, <1>3, SMT DEF TypeOK, Refuse, disk

LEMMA EmittedType ==
    ASSUME TypeOK, NEW p \in Procs, NEW n \in Nat
    PROVE  [txn EXCEPT ![p].emitted = @ + n] \in [Procs -> Txns]
  <1>1. txn \in [Procs -> Txns] /\ txn[p] \in Txns
    BY DEF TypeOK
  <1>2. [txn[p] EXCEPT !.emitted = @ + n] \in Txns
    <2>1. txn[p].emitted + n \in Nat
      BY <1>1, SMT DEF Txns
    <2> QED
      BY <1>1, <2>1, Zenon DEF Txns
  <1>3. [txn EXCEPT ![p].emitted = @ + n]
           = [txn EXCEPT ![p] = [txn[p] EXCEPT !.emitted = @ + n]]
    BY <1>1, Zenon
  <1> QED
    BY <1>1, <1>2, <1>3, Zenon

LEMMA InspectAndGotoType ==
    ASSUME TypeOK, NEW p \in Procs, NEW label \in Labels,
           InspectAndGoto(p, label)
    PROVE  TypeOK'
  <1>1. pc' \in [Procs -> Labels]
    BY GotoType DEF InspectAndGoto
  <1>2. txn' \in [Procs -> Txns]
    BY InspectionTypes, EmittedType DEF InspectAndGoto
  <1>3. mem' \in [Procs -> Mems]
    BY InspectionTypes, SMT DEF TypeOK, InspectAndGoto
  <1> QED
    BY <1>1, <1>2, <1>3, SMT DEF TypeOK, InspectAndGoto, disk

LEMMA InspectAndReturnType ==
    ASSUME TypeOK, NEW p \in Procs, InspectAndReturn(p)
    PROVE  TypeOK'
  <1>1. /\ pc' \in [Procs -> Labels]
        /\ txn' \in [Procs -> Txns]
        /\ lease' \in Procs \cup {NoProc}
    BY ReturnType DEF InspectAndReturn
  <1>2. mem' \in [Procs -> Mems]
    BY InspectionTypes, SMT DEF TypeOK, InspectAndReturn
  <1> QED
    BY <1>1, <1>2, SMT DEF TypeOK, InspectAndReturn, disk

LEMMA InspectAndRefuseType ==
    ASSUME TypeOK, NEW p \in Procs, InspectAndRefuse(p)
    PROVE  TypeOK'
  <1>1. pc' \in [Procs -> Labels] /\ txn' \in [Procs -> Txns]
    BY IdleType DEF InspectAndRefuse
  <1>2. lease' \in Procs \cup {NoProc}
    BY SMT DEF TypeOK, InspectAndRefuse
  <1>3. mem' \in [Procs -> Mems]
    BY EmptyTypes, InspectionTypes, SMT DEF TypeOK, InspectAndRefuse
  <1> QED
    BY <1>1, <1>2, <1>3, SMT DEF TypeOK, InspectAndRefuse, disk

LEMMA EnterType ==
    ASSUME TypeOK, NEW p \in Procs, NEW fields \in Txns,
           NEW op \in {"start", "initialize", "commit", "load", "adopt"},
           Enter(p, op, fields), mem' \in [Procs -> Mems],
           used' \in [commits : Nat, edits : Nat, faults : Nat]
    PROVE  TypeOK'
  <1>1. [fields EXCEPT !.op = op] \in Txns
    BY SMT DEF Txns
  <1>2. txn' \in [Procs -> Txns]
    BY <1>1, SMT DEF TypeOK, Enter
  <1>3. pc' \in [Procs -> Labels]
    <2>1. "recover" \in Labels
      BY DEF Labels
    <2> QED
      BY <2>1, GotoType DEF Enter
  <1> QED
    BY <1>2, <1>3, SMT DEF TypeOK, Enter, disk

-----------------------------------------------------------------------------
(* Every step keeps the types. *)

LEMMA CallTypes ==
    ASSUME TypeOK, NEW p \in Procs, Call(p)
    PROVE  TypeOK'
  <1>1. CASE StartServer(p)
    <2>1. mem' \in [Procs -> Mems]
      BY <1>1, Zenon DEF TypeOK, StartServer, Mems
    <2> QED
      BY <1>1, <2>1, EmptyTypes, EnterType DEF TypeOK, StartServer
  <1>2. CASE Initialize(p)
    BY <1>2, EmptyTypes, EnterType DEF TypeOK, Initialize
  <1>3. CASE Load(p)
    BY <1>3, EmptyTypes, EnterType DEF TypeOK, Load
  <1>4. CASE AdoptExternalChange(p)
    <2>1. [NoTxn EXCEPT !.want = review] \in Txns
      <3>1. NoTxn \in Txns /\ review \in Baselines
        BY EmptyTypes DEF TypeOK
      <3> QED
        BY <3>1, Zenon DEF Txns
    <2>2. UNCHANGED <<mem, used>> /\ Enter(p, "adopt", [NoTxn EXCEPT !.want = review])
      BY <1>4, Zenon DEF AdoptExternalChange
    <2>3. mem' \in [Procs -> Mems] /\ used' \in [commits : Nat, edits : Nat, faults : Nat]
      BY <2>2, Zenon DEF TypeOK
    <2> QED
      BY <2>1, <2>2, <2>3, EnterType
  <1>5. CASE SyncStatus(p)
    <2>1. CASE Shown(p) /\ UNCHANGED <<disk, lease, pc, txn, used>>
      BY <2>1, ShownTypes, SMT DEF TypeOK, disk
    <2>2. CASE /\ txn' = [txn EXCEPT ![p] = [NoTxn EXCEPT !.op = "status"]]
               /\ Goto(p, "first")
               /\ UNCHANGED <<disk, lease, mem, review, used>>
      <3>1. [NoTxn EXCEPT !.op = "status"] \in Txns
        BY EmptyTypes, SMT DEF Txns
      <3>2. txn' \in [Procs -> Txns]
        BY <2>2, <3>1, SMT DEF TypeOK
      <3>3. pc' \in [Procs -> Labels]
        BY <2>2, GotoType DEF Labels
      <3> QED
        BY <2>2, <3>2, <3>3, SMT DEF TypeOK, disk
    <2> QED
      BY <1>5, <2>1, <2>2 DEF SyncStatus
  <1>6. CASE Exit(p)
    BY <1>6, EmptyTypes, SMT DEF TypeOK, Exit, disk
  <1>8. CASE RetainLease(p)
    <2>1. mem[p] \in Mems
      BY DEF TypeOK
    <2>2. [mem[p] EXCEPT !.server = TRUE] \in Mems
      BY <2>1, MemFlags
    <2> QED
      BY <1>8, <2>2, SMT DEF TypeOK, RetainLease, disk
  <1>9. CASE ReleaseLease(p)
    <2>1. mem[p] \in Mems
      BY DEF TypeOK
    <2>2. [mem[p] EXCEPT !.server = FALSE] \in Mems
      BY <2>1, MemFlags
    <2> QED
      BY <1>9, <2>2, SMT DEF TypeOK, ReleaseLease, disk
  <1>10. CASE ConsistentRead(p)
    <2>1. mem[p] \in Mems
      BY DEF TypeOK
    <2>2. [mem[p] EXCEPT !.ready = TRUE] \in Mems
      BY <2>1, MemFlags
    <2>3. pc' \in [Procs -> Labels]
      BY <1>10, GotoType DEF ConsistentRead, Labels
    <2>4. mem' \in [Procs -> Mems]
      BY <1>10, <2>2, SMT DEF TypeOK, ConsistentRead
    <2>5. lease' \in Procs \cup {NoProc}
      BY <1>10 DEF ConsistentRead
    <2>6. UNCHANGED <<disk, txn, review, used>>
      BY <1>10 DEF ConsistentRead
    <2> QED
      BY <2>3, <2>4, <2>5, <2>6, SMT DEF TypeOK, disk
  <1>7. ASSUME NEW targets \in SUBSET Docs, SaveMany(p, targets)
        PROVE  TypeOK'
    <2>1. used.commits + 1 \in Bodies
      BY <1>7, BoundsAssumption, SMT DEF TypeOK, SaveMany, Bodies
    <2>2. [d \in targets |-> used.commits + 1] \in [targets -> Bodies]
      BY <2>1
    <2>3. [targets -> Bodies] \in {[S -> Bodies] : S \in SUBSET Docs}
      OBVIOUS
    <2>4. [d \in targets |-> used.commits + 1] \in Writes
      BY <2>2, <2>3, Zenon DEF Writes
    <2>5. [NoTxn EXCEPT !.work = [d \in targets |-> used.commits + 1]] \in Txns
      BY <2>4, EmptyTypes, SMT DEF Txns
    <2>6. used' \in [commits : Nat, edits : Nat, faults : Nat]
      BY <1>7, SMT DEF TypeOK, SaveMany
    <2> QED
      BY <1>7, <2>5, <2>6, EnterType DEF TypeOK, SaveMany
  <1> QED
    BY <1>1, <1>2, <1>3, <1>4, <1>5, <1>6, <1>7, <1>8, <1>9, <1>10 DEF Call

\* A step that moves a process to another label and changes nothing else.
LEMMA MoveType ==
    ASSUME TypeOK, NEW p \in Procs, NEW label \in Labels, Goto(p, label),
           UNCHANGED <<disk, lease, txn, mem, review, used>>
    PROVE  TypeOK'
  BY GotoType, SMT DEF TypeOK, disk

\* Reading the journal yields expectations and a set of targets.
LEMMA CaptureType ==
    ASSUME NEW writes \in Writes, NEW files \in Files
    PROVE  /\ [d \in DOMAIN writes |-> files[d]] \in Expectations
           /\ DOMAIN writes \in SUBSET Docs
  <1>1. DOMAIN writes \in SUBSET Docs
    BY SMT DEF Writes
  <1>2. [d \in DOMAIN writes |-> files[d]]
            \in [DOMAIN writes -> Bodies \cup {Absent}]
    BY <1>1, SMT DEF Files
  <1>3. [DOMAIN writes -> Bodies \cup {Absent}]
            \in {[S -> Bodies \cup {Absent}] : S \in SUBSET Docs}
    BY <1>1
  <1> QED
    BY <1>1, <1>2, <1>3, Zenon DEF Expectations

LEMMA JournalBodies ==
    ASSUME NEW writes \in Writes
    PROVE  \A d \in DOMAIN writes : writes[d] \in Bodies
  BY SMT DEF Writes

LEMMA ReplayedType ==
    ASSUME TypeOK, NEW p \in Procs
    PROVE  Replayed(p) \in Txns
  BY EmptyTypes, Zenon DEF TypeOK, Replayed, Txns

LEMMA ManifestFiles ==
    ASSUME TypeOK, HasManifest
    PROVE  manifest.files \in Files
  <1>1. manifest.files \in Files \cup {NoFiles}
    BY SMT DEF TypeOK, Baselines
  <1>2. manifest.files # NoFiles
    BY SMT DEF HasManifest, NoFiles
  <1> QED
    BY <1>1, <1>2

LEMMA RecoveryTypes ==
    ASSUME TypeOK, NEW p \in Procs,
           \/ RecoverLocked(p) \/ CaptureExpectations(p)
           \/ \E d \in Docs : CompareTarget(p, d)
           \/ ReplaceTarget(p) \/ ReplayApplied(p) \/ CommitApplied(p)
           \/ LocalBaselineTasks(p) \/ WriteLocalBaseline(p)
           \/ UnlinkJournal(p) \/ ForgetJournal(p) \/ Settle(p),
           txn[p].target \subseteq DOMAIN journal
    PROVE  TypeOK'
  <1> USE DEF Labels
  <1>1. CASE RecoverLocked(p)
    BY <1>1, RefuseType, MoveType DEF RecoverLocked
  <1>2. CASE CaptureExpectations(p)
    <2>1. [d \in DOMAIN journal |-> docs[d]] \in Expectations
          /\ DOMAIN journal \in SUBSET Docs
      BY CaptureType DEF TypeOK
    <2>2. (IF HasManifest THEN Overlay(manifest.files, journal) ELSE NoFiles)
              \in Files \cup {NoFiles}
      BY OverlayType, ManifestFiles DEF TypeOK
    <2>3. HasManifest \in BOOLEAN
      BY DEF HasManifest
    <2>4. txn[p] \in Txns /\ "recover" \in Modes
      BY DEF TypeOK, Modes
    <2>5. [txn[p] EXCEPT !.mode = "recover",
                         !.base = HasManifest,
                         !.expect = [d \in DOMAIN journal |-> docs[d]],
                         !.expected = IF HasManifest
                                      THEN Overlay(manifest.files, journal)
                                      ELSE NoFiles,
                         !.todo = DOMAIN journal] \in Txns
      BY <2>1, <2>2, <2>3, <2>4, Zenon DEF Txns
    <2>6. txn' \in [Procs -> Txns]
      BY <1>2, <2>5, SMT DEF TypeOK, CaptureExpectations
    <2>7. pc' \in [Procs -> Labels]
      BY <1>2, GotoType DEF CaptureExpectations
    <2> QED
      BY <1>2, <2>6, <2>7, SMT DEF TypeOK, CaptureExpectations, disk
  <1>3. ASSUME NEW d \in Docs, CompareTarget(p, d)
        PROVE  TypeOK'
    <2>1. CASE Refuse(p)
      BY <2>1, RefuseType
    <2>2. CASE /\ txn' = [txn EXCEPT ![p] =
                             [@ EXCEPT !.target = {d},
                                       !.todo = txn[p].todo \ {d}]]
               /\ Goto(p, "replace")
               /\ UNCHANGED <<disk, lease, mem, review, used>>
      <3>1. /\ txn[p] \in Txns
            /\ txn[p].todo \ {d} \in SUBSET Docs
            /\ {d} \in SUBSET Docs
        BY SMT DEF TypeOK, Txns
      <3>2. [txn[p] EXCEPT !.target = {d}, !.todo = txn[p].todo \ {d}] \in Txns
        BY <3>1, TxnTargets
      <3>3. txn' \in [Procs -> Txns]
        BY <2>2, <3>2, SMT DEF TypeOK
      <3>4. pc' \in [Procs -> Labels]
        BY <2>2, GotoType
      <3> QED
        BY <2>2, <3>3, <3>4, SMT DEF TypeOK, disk
    <2> QED
      BY <1>3, <2>1, <2>2 DEF CompareTarget
  <1>4. CASE ReplaceTarget(p)
    <2>1. txn' \in [Procs -> Txns]
      <3>1. {} \in SUBSET Docs
        OBVIOUS
      <3>2. [txn[p] EXCEPT !.target = {}] \in Txns
        BY <3>1, TxnTargets DEF TypeOK
      <3> QED
        BY <1>4, <3>2, SMT DEF TypeOK, ReplaceTarget
    <2>2. pc' \in [Procs -> Labels]
      BY <1>4, GotoType DEF ReplaceTarget
    <2>3. author' \in [Docs -> {"store", "external"}]
      BY <1>4, SMT DEF TypeOK, ReplaceTarget
    <2>4. docs' \in Files
      <3>1. \A d \in txn[p].target : journal[d] \in Bodies
        BY JournalBodies DEF TypeOK
      <3> QED
        BY <1>4, <3>1, SMT DEF TypeOK, ReplaceTarget, Files
    <2> QED
      BY <1>4, <2>1, <2>2, <2>3, <2>4, SMT DEF TypeOK, ReplaceTarget
  <1>5. CASE ReplayApplied(p)
    BY <1>5, MoveType DEF ReplayApplied
  <1>6. CASE CommitApplied(p)
    BY <1>6, MoveType, RefuseType DEF CommitApplied
  <1>7. CASE LocalBaselineTasks(p)
    BY <1>7, MoveType, RefuseType DEF LocalBaselineTasks
  <1>8. CASE WriteLocalBaseline(p)
    <2>1. NextGeneration(p) \in Nat
      BY InspectionTypes
    <2>2. manifest' \in Baselines
      BY <1>8, <2>1, SMT DEF TypeOK, WriteLocalBaseline, Candidate, Baselines, Txns
    <2>3. mem' \in [Procs -> Mems]
      <3>1. [mem[p] EXCEPT !.generation = NextGeneration(p), !.mark = NoMark]
                \in Mems
        BY <2>1, EmptyTypes, Zenon DEF TypeOK, Mems
      <3> QED
        BY <1>8, <3>1, SMT DEF TypeOK, WriteLocalBaseline
    <2>4. txn' \in [Procs -> Txns]
      BY <1>8, EmittedType DEF WriteLocalBaseline
    <2>5. pc' \in [Procs -> Labels]
      BY <1>8, GotoType DEF WriteLocalBaseline
    <2>6. adopted' \in Baselines
      BY <1>8, EmptyTypes DEF WriteLocalBaseline, NoCandidate
    <2> QED
      BY <1>8, <2>2, <2>3, <2>4, <2>5, <2>6, SMT DEF TypeOK, WriteLocalBaseline
  <1>9. CASE UnlinkJournal(p)
    <2>1. pc' \in [Procs -> Labels]
      BY <1>9, GotoType DEF UnlinkJournal
    <2> QED
      BY <1>9, <2>1, EmptyTypes, SMT DEF TypeOK, UnlinkJournal
  <1>10. CASE ForgetJournal(p)
    <2>1. pc' \in [Procs -> Labels]
      BY <1>10, GotoType DEF ForgetJournal
    <2>2. txn' \in [Procs -> Txns]
      BY <1>10, ReplayedType, SMT DEF TypeOK, ForgetJournal
    <2>3. mem[p].generation + 1 \in Nat
      BY SMT DEF TypeOK, Mems
    <2>4. mem' \in [Procs -> Mems]
      <3>1. [mem[p] EXCEPT !.generation = mem[p].generation + 1,
                           !.recovered = TRUE] \in Mems
        BY <2>3, MemCounted DEF TypeOK
      <3> QED
        BY <1>10, <3>1, SMT DEF TypeOK, ForgetJournal
    <2> QED
      BY <1>10, <2>1, <2>2, <2>4, EmptyTypes, SMT DEF TypeOK, ForgetJournal
  <1>11. CASE Settle(p)
    <2>1. CASE InspectAndGoto(p, "saved")
      BY <2>1, InspectAndGotoType
    <2>2. CASE /\ mem' = [mem EXCEPT ![p] =
                             [Observed(p) EXCEPT !.recovered = FALSE]]
               /\ txn' = [txn EXCEPT ![p] = Replayed(p)]
               /\ Goto(p, "dispatch")
               /\ UNCHANGED <<disk, lease, review, used>>
      <3>1. [Observed(p) EXCEPT !.recovered = FALSE] \in Mems
        BY InspectionTypes, Zenon DEF Mems
      <3>2. mem' \in [Procs -> Mems]
        BY <2>2, <3>1, SMT DEF TypeOK
      <3>3. txn' \in [Procs -> Txns]
        BY <2>2, ReplayedType, SMT DEF TypeOK
      <3>4. pc' \in [Procs -> Labels]
        BY <2>2, GotoType
      <3> QED
        BY <2>2, <3>2, <3>3, <3>4, SMT DEF TypeOK, disk
    <2>3. CASE InspectAndReturn(p)
      BY <2>3, InspectAndReturnType
    <2> QED
      BY <1>11, <2>1, <2>2, <2>3 DEF Settle
  <1> QED
    BY <1>1, <1>2, <1>3, <1>4, <1>5, <1>6, <1>7, <1>8, <1>9, <1>10, <1>11

LEMMA FirstBaselineTypes ==
    ASSUME TypeOK, NEW p \in Procs, ValidateFirst(p) \/ EstablishBaseline(p)
    PROVE  TypeOK'
  <1> USE DEF Labels
  <1>0. txn[p] \in Txns /\ mem[p] \in Mems
    BY DEF TypeOK
  <1>1. CASE Refuse(p)
    BY <1>1, RefuseType
  <1>2. CASE /\ Goto(p, "first")
             /\ txn' = [txn EXCEPT ![p].mode =
                            IF pc[p] = "finish" THEN "finish" ELSE @]
             /\ UNCHANGED <<disk, lease, mem, review, used>>
    <2> DEFINE mode == IF pc[p] = "finish" THEN "finish" ELSE txn[p].mode
    <2>1. mode \in Modes
      BY <1>0, SMT DEF Txns, Modes
    <2>2. txn' = [txn EXCEPT ![p] = [txn[p] EXCEPT !.mode = mode]]
      BY <1>2, SMT DEF TypeOK
    <2> HIDE DEF mode
    <2>3. [txn[p] EXCEPT !.mode = mode] \in Txns
      BY <1>0, <2>1, TxnMode
    <2>4. txn' \in [Procs -> Txns]
      BY <2>2, <2>3, SMT DEF TypeOK
    <2>5. pc' \in [Procs -> Labels]
      BY <1>2, GotoType
    <2> QED
      BY <1>2, <2>4, <2>5, SMT DEF TypeOK, disk
  <1>3. CASE /\ manifest' = Candidate(mem[p].generation, docs)
             /\ mem' = [mem EXCEPT ![p].ready = TRUE]
             /\ Goto(p, "made")
             /\ UNCHANGED <<docs, author, journal, adopted, receipt, lease, txn,
                            review, used>>
    <2>1. manifest' \in Baselines
      BY <1>0, <1>3, SMT DEF TypeOK, Candidate, Baselines, Mems
    <2>2. [mem[p] EXCEPT !.ready = TRUE] \in Mems
      BY <1>0, MemFlags
    <2>3. mem' \in [Procs -> Mems]
      BY <1>3, <2>2, SMT DEF TypeOK
    <2>4. pc' \in [Procs -> Labels]
      BY <1>3, GotoType
    <2> QED
      BY <1>3, <2>1, <2>3, <2>4, SMT DEF TypeOK
  <1> QED
    BY <1>1, <1>2, <1>3 DEF ValidateFirst, EstablishBaseline

LEMMA CommitTypes ==
    ASSUME TypeOK, NEW p \in Procs,
           \/ AssertWritable(p) \/ WriteJournal(p)
           \/ HashDocuments(p) \/ NoticeLateChange(p)
           \/ ValidateDocuments(p) \/ RehashDocuments(p) \/ PublishManifest(p)
           \/ ResolveLateExternalChange(p) \/ CommitReturns(p)
    PROVE  TypeOK'
  <1> USE DEF Labels
  <1>0. txn[p] \in Txns /\ mem[p] \in Mems
    BY DEF TypeOK
  <1>1. CASE AssertWritable(p)
    BY <1>1, InspectAndGotoType, InspectAndRefuseType DEF AssertWritable
  <1>2. CASE WriteJournal(p)
    <2> DEFINE original == IF HasManifest THEN manifest.files ELSE docs
               work == txn[p].work
    <2>1. work \in Writes
      BY <1>0, SMT DEF Txns
    <2>2. original \in Files
      BY ManifestFiles DEF TypeOK
    <2> HIDE DEF original, work
    <2>3. /\ [d \in DOMAIN work |-> original[d]] \in Expectations
          /\ DOMAIN work \in SUBSET Docs
          /\ Overlay(original, work) \in Files \cup {NoFiles}
      BY <2>1, <2>2, CaptureType, OverlayType
    <2>4. HasManifest \in BOOLEAN /\ "commit" \in Modes /\ 0 \in Nat
      BY DEF HasManifest, Modes
    <2>5. [txn[p] EXCEPT !.mode = "commit",
                         !.base = HasManifest,
                         !.expect = [d \in DOMAIN work |-> original[d]],
                         !.expected = Overlay(original, work),
                         !.todo = DOMAIN work,
                         !.emitted = 0] \in Txns
      BY <1>0, <2>3, <2>4, Zenon DEF Txns
    <2>6. txn' \in [Procs -> Txns]
      BY <1>2, <2>5, SMT DEF TypeOK, WriteJournal, original, work
    <2>7. pc' \in [Procs -> Labels]
      BY <1>2, GotoType DEF WriteJournal
    <2>8. journal' \in Writes
      BY <1>2, <2>1 DEF WriteJournal, work
    <2>9. UNCHANGED <<docs, author, manifest, adopted, receipt, lease, mem, review, used>>
      BY <1>2 DEF WriteJournal
    <2> QED
      BY <2>6, <2>7, <2>8, <2>9, SMT DEF TypeOK
  <1>3. CASE HashDocuments(p)
    <2>1. CASE Refuse(p)
      BY <2>1, RefuseType
    <2>2. CASE Goto(p, "inspect") /\ UNCHANGED <<disk, lease, txn, mem, review, used>>
      BY <2>2, MoveType
    <2>3. CASE /\ txn' = [txn EXCEPT ![p].snap = docs]
               /\ Goto(p, "validate")
               /\ UNCHANGED <<disk, lease, mem, review, used>>
      <3>1. [txn[p] EXCEPT !.snap = docs] \in Txns
        BY <1>0, TxnSnap DEF TypeOK
      <3>2. txn' \in [Procs -> Txns]
        BY <2>3, <3>1, SMT DEF TypeOK
      <3>3. pc' \in [Procs -> Labels]
        BY <2>3, GotoType
      <3> QED
        BY <2>3, <3>2, <3>3, SMT DEF TypeOK, disk
    <2> QED
      BY <1>3, <2>1, <2>2, <2>3 DEF HashDocuments
  <1>4. CASE RehashDocuments(p)
    BY <1>4, MoveType, RefuseType DEF RehashDocuments
  <1>8. CASE NoticeLateChange(p)
    BY <1>8, InspectAndGotoType DEF NoticeLateChange
  <1>9. CASE ValidateDocuments(p)
    BY <1>9, MoveType, RefuseType DEF ValidateDocuments
  <1>5. CASE PublishManifest(p)
    <2>1. NextGeneration(p) \in Nat
      BY InspectionTypes
    <2>2. manifest' \in Baselines
      BY <1>0, <1>5, <2>1, SMT DEF PublishManifest, Candidate, Baselines, Txns
    <2>3. adopted' \in Baselines
      BY <1>0, <1>5, EmptyTypes, SMT DEF PublishManifest, Txns, NoCandidate
    <2>4. txn' \in [Procs -> Txns]
      <3>1. txn[p].emitted + 1 \in Nat
        BY <1>0, SMT DEF Txns
      <3>2. [txn[p] EXCEPT !.snap = NoFiles, !.emitted = txn[p].emitted + 1] \in Txns
        BY <1>0, <3>1, TxnSnap
      <3> QED
        BY <1>5, <3>2, SMT DEF TypeOK, PublishManifest
    <2>5. mem' \in [Procs -> Mems]
      <3> DEFINE kept == IF txn[p].mode = "finish" THEN FALSE
                         ELSE mem[p].recovered
      <3>1. kept \in BOOLEAN /\ TRUE \in BOOLEAN
        BY <1>0 DEF Mems
      <3> HIDE DEF kept
      <3>2. [mem[p] EXCEPT !.generation = NextGeneration(p), !.mark = NoMark,
                           !.ready = TRUE, !.recovered = kept] \in Mems
        BY <1>0, <2>1, <3>1, EmptyTypes, Zenon DEF Mems
      <3> QED
        BY <1>5, <3>2, SMT DEF TypeOK, PublishManifest, kept
    <2>6. pc' \in [Procs -> Labels]
      BY <1>5, GotoType DEF PublishManifest
    <2>7. UNCHANGED <<docs, author, journal, receipt, lease, review, used>>
      BY <1>5 DEF PublishManifest
    <2> QED
      BY <2>2, <2>3, <2>4, <2>5, <2>6, <2>7, SMT DEF TypeOK
  <1>6. CASE ResolveLateExternalChange(p)
    BY <1>6, MoveType, RefuseType, InspectAndRefuseType
       DEF ResolveLateExternalChange
  <1>7. CASE CommitReturns(p)
    <2>1. CASE Return(p) /\ UNCHANGED <<disk, mem, review, used>>
      BY <2>1, ReturnType, SMT DEF TypeOK, disk
    <2>2. CASE /\ mem' = [mem EXCEPT ![p].ready = TRUE]
               /\ txn' = [txn EXCEPT ![p] = Replayed(p)]
               /\ Goto(p, "finish")
               /\ UNCHANGED <<disk, lease, review, used>>
      <3>1. [mem[p] EXCEPT !.ready = TRUE] \in Mems
        BY <1>0, MemFlags
      <3>2. mem' \in [Procs -> Mems]
        BY <2>2, <3>1, SMT DEF TypeOK
      <3>3. txn' \in [Procs -> Txns]
        BY <2>2, ReplayedType, SMT DEF TypeOK
      <3>4. pc' \in [Procs -> Labels]
        BY <2>2, GotoType
      <3> QED
        BY <2>2, <3>2, <3>3, <3>4, SMT DEF TypeOK, disk
    <2>3. CASE Refuse(p)
      BY <2>3, RefuseType
    <2> QED
      BY <1>7, <2>1, <2>2, <2>3 DEF CommitReturns
  <1> QED
    BY <1>1, <1>2, <1>3, <1>4, <1>5, <1>6, <1>7, <1>8, <1>9

LEMMA OtherTypes ==
    ASSUME TypeOK, NEW p \in Procs,
           \/ ServerStarted(p) \/ InitializeFresh(p) \/ AdmitExisting(p)
           \/ FinishInitialization(p) \/ \E d \in Docs : LoadDocument(p, d)
           \/ LoadInspected(p) \/ StatusShown(p) \/ FinishRead(p)
           \/ ReviewAdoption(p) \/ ConfirmAdoption(p) \/ WriteReceipt(p)
    PROVE  TypeOK'
  <1> USE DEF Labels
  <1>0. txn[p] \in Txns /\ mem[p] \in Mems
    BY DEF TypeOK
  <1>1. ASSUME Return(p), UNCHANGED <<disk, mem, review, used>>
        PROVE  TypeOK'
    BY <1>1, ReturnType, SMT DEF TypeOK, disk
  <1>2. CASE ServerStarted(p)
    BY <1>1, <1>2 DEF ServerStarted
  <1>3. CASE InitializeFresh(p)
    <2>1. [d \in Docs |-> Default] \in Writes
      <3>1. [d \in Docs |-> Default] \in [Docs -> Bodies]
        BY BoundsAssumption, SMT DEF Default, Bodies
      <3>2. [Docs -> Bodies] \in {[S -> Bodies] : S \in SUBSET Docs}
        OBVIOUS
      <3> QED
        BY <3>1, <3>2, Zenon DEF Writes
    <2>2. [txn[p] EXCEPT !.work = [d \in Docs |-> Default]] \in Txns
      BY <1>0, <2>1, TxnWork
    <2>3. txn' \in [Procs -> Txns]
      BY <1>3, <2>2, SMT DEF TypeOK, InitializeFresh
    <2>4. pc' \in [Procs -> Labels]
      BY <1>3, GotoType DEF InitializeFresh
    <2>5. UNCHANGED <<disk, lease, mem, review, used>>
      BY <1>3 DEF InitializeFresh
    <2> QED
      BY <2>3, <2>4, <2>5, SMT DEF TypeOK, disk
  <1>4. CASE AdmitExisting(p)
    <2>1. CASE Refuse(p)
      BY <2>1, RefuseType
    <2>2. CASE /\ mem' = [mem EXCEPT ![p].ready = TRUE]
               /\ Goto(p, "finish")
               /\ UNCHANGED <<disk, lease, txn, review, used>>
      <3>1. [mem[p] EXCEPT !.ready = TRUE] \in Mems
        BY <1>0, MemFlags
      <3>2. mem' \in [Procs -> Mems]
        BY <2>2, <3>1, SMT DEF TypeOK
      <3>3. pc' \in [Procs -> Labels]
        BY <2>2, GotoType
      <3> QED
        BY <2>2, <3>2, <3>3, SMT DEF TypeOK, disk
    <2> QED
      BY <1>4, <2>1, <2>2 DEF AdmitExisting
  <1>5. CASE FinishInitialization(p)
    <2>1. CASE /\ txn' = [txn EXCEPT ![p].mode = "finish"]
               /\ Goto(p, "hash")
               /\ UNCHANGED <<disk, lease, mem, review, used>>
      <3>1. [txn[p] EXCEPT !.mode = "finish"] \in Txns
        BY <1>0, TxnMode DEF Modes
      <3>2. txn' \in [Procs -> Txns]
        BY <2>1, <3>1, SMT DEF TypeOK
      <3>3. pc' \in [Procs -> Labels]
        BY <2>1, GotoType
      <3> QED
        BY <2>1, <3>2, <3>3, SMT DEF TypeOK, disk
    <2> QED
      BY <1>5, <2>1, InspectAndReturnType DEF FinishInitialization
  <1>6. ASSUME NEW d \in Docs, LoadDocument(p, d)
        PROVE  TypeOK'
    BY <1>1, <1>6, MoveType, RefuseType DEF LoadDocument
  <1>7. CASE FinishRead(p)
    BY <1>1, <1>7 DEF FinishRead
  <1>8. CASE ReviewAdoption(p)
    BY <1>8, InspectAndReturnType, InspectAndGotoType, InspectAndRefuseType
       DEF ReviewAdoption
  <1>9. CASE ConfirmAdoption(p)
    <2>1. CASE InspectAndRefuse(p)
      BY <2>1, InspectAndRefuseType
    <2>2. CASE /\ mem' = [mem EXCEPT ![p] = Observed(p)]
               /\ txn' = [txn EXCEPT ![p].mode = "adopt"]
               /\ Goto(p, "hash")
               /\ UNCHANGED <<disk, lease, review, used>>
      <3>1. [txn[p] EXCEPT !.mode = "adopt"] \in Txns
        BY <1>0, TxnMode DEF Modes
      <3>2. txn' \in [Procs -> Txns]
        BY <2>2, <3>1, SMT DEF TypeOK
      <3>3. pc' \in [Procs -> Labels]
        BY <2>2, GotoType
      <3>4. mem' \in [Procs -> Mems]
        BY <2>2, InspectionTypes, SMT DEF TypeOK
      <3> QED
        BY <2>2, <3>2, <3>3, <3>4, SMT DEF TypeOK, disk
    <2> QED
      BY <1>9, <2>1, <2>2 DEF ConfirmAdoption
  <1>10. CASE WriteReceipt(p)
    <2>1. pc' \in [Procs -> Labels]
      BY <1>10, GotoType DEF WriteReceipt
    <2>2. receipt' \in [want : Baselines, result : Baselines]
      BY <1>0, <1>10, SMT DEF TypeOK, WriteReceipt, Txns
    <2>3. UNCHANGED <<docs, author, journal, manifest, adopted, lease, txn, mem,
                      review, used>>
      BY <1>10 DEF WriteReceipt
    <2> QED
      BY <2>1, <2>2, <2>3, SMT DEF TypeOK
  <1>11. CASE LoadInspected(p)
    BY <1>11, InspectAndReturnType, InspectAndRefuseType DEF LoadInspected
  <1>12. CASE StatusShown(p)
    BY <1>12, ShownTypes, ReturnType, SMT DEF TypeOK, StatusShown, disk
  <1> QED
    BY <1>2, <1>3, <1>4, <1>5, <1>6, <1>7, <1>8, <1>9, <1>10, <1>11, <1>12

LEMMA FaultTypes ==
    ASSUME TypeOK, NEW p \in Procs, Crash(p) \/ FileFails(p)
    PROVE  TypeOK'
  <1>1. pc' \in [Procs -> Labels] /\ txn' \in [Procs -> Txns]
    BY IdleType DEF Crash, FileFails
  <1>2. used' \in [commits : Nat, edits : Nat, faults : Nat]
    BY SMT DEF TypeOK, Crash, FileFails
  <1>3. UNCHANGED <<disk, review>>
    BY DEF Crash, FileFails
  <1>4. lease' \in Procs \cup {NoProc}
    BY SMT DEF TypeOK, Crash, FileFails
  <1>5. [mem[p] EXCEPT !.generation = NextGeneration(p)] \in Mems
    BY InspectionTypes, MemCounted DEF TypeOK
  <1>6. mem' \in [Procs -> Mems]
    BY <1>5, EmptyTypes, SMT DEF TypeOK, Crash, FileFails
  <1> QED
    BY <1>1, <1>2, <1>3, <1>4, <1>6, SMT DEF TypeOK, disk

LEMMA ExternalTypes ==
    ASSUME TypeOK, External
    PROVE  TypeOK'
  <1>1. PICK d \in Docs :
            \E body \in ExternalBodies \cup {Absent} \cup Restorable(d) :
                ExternalEdit(d, body)
    BY DEF External
  <1>2. PICK body \in ExternalBodies \cup {Absent} \cup Restorable(d) :
            ExternalEdit(d, body)
    BY <1>1
  <1>3. body \in Bodies \cup {Absent}
    <2>1. CASE HasManifest
      <3>1. manifest.files[d] \in Bodies \cup {Absent}
        BY <2>1, ManifestFiles, SMT DEF Files
      <3> QED
        BY <2>1, <3>1, SMT DEF Restorable, Bodies
    <2>2. CASE ~HasManifest
      BY <2>2, SMT DEF Restorable, Bodies
    <2> QED
      BY <2>1, <2>2
  <1>4. docs' \in Files /\ author' \in [Docs -> {"store", "external"}]
    BY <1>2, <1>3, SMT DEF TypeOK, ExternalEdit, Files
  <1>5. used' \in [commits : Nat, edits : Nat, faults : Nat]
    BY <1>2, SMT DEF TypeOK, ExternalEdit
  <1>6. UNCHANGED <<journal, manifest, adopted, receipt, lease, pc, txn, mem, review>>
    BY <1>2 DEF ExternalEdit
  <1> QED
    BY <1>4, <1>5, <1>6, SMT DEF TypeOK

-----------------------------------------------------------------------------
LEMMA InitTypes == Init => TypeOK
  <1> SUFFICES ASSUME Init PROVE TypeOK
    OBVIOUS
  <1>1. docs \in Files /\ author \in [Docs -> {"store", "external"}]
    BY SMT DEF Init, Files
  <1>2. pc \in [Procs -> Labels]
    BY SMT DEF Init, Labels
  <1>3. txn \in [Procs -> Txns] /\ mem \in [Procs -> Mems]
    BY EmptyTypes, SMT DEF Init
  <1>4. used \in [commits : Nat, edits : Nat, faults : Nat]
    BY SMT DEF Init
  <1>5. receipt \in [want : Baselines, result : Baselines]
    BY EmptyTypes, SMT DEF Init, NoCandidate
  <1> QED
    BY <1>1, <1>2, <1>3, <1>4, <1>5, EmptyTypes, SMT DEF Init, TypeOK, NoCandidate

\* A replacement needs to know that its target is one of the journal's.
LEMMA TypeStep ==
    ASSUME TypeOK, \A p \in Procs : txn[p].target \subseteq DOMAIN journal,
           [Next]_vars
    PROVE  TypeOK'
  <1>1. ASSUME NEW p \in Procs, Call(p)
        PROVE  TypeOK'
    BY <1>1, CallTypes
  <1>2. ASSUME NEW p \in Procs, Step(p)
        PROVE  TypeOK'
    BY <1>2, RecoveryTypes, FirstBaselineTypes, CommitTypes, OtherTypes DEF Step
  <1>3. ASSUME NEW p \in Procs, Crash(p) \/ FileFails(p)
        PROVE  TypeOK'
    BY <1>3, FaultTypes
  <1>4. CASE External
    BY <1>4, ExternalTypes
  <1>5. CASE UNCHANGED vars
    BY <1>5, SMT DEF TypeOK, vars
  <1> QED
    BY <1>1, <1>2, <1>3, <1>4, <1>5 DEF Next
=============================================================================
