------------------------- MODULE StoreCommitProofs -------------------------
(***************************************************************************)
(* What a commit announces and what it may replace: the invariant that     *)
(* follows the events of a commit and the bytes its targets must hold, on  *)
(* top of the invariant of the Store.  And that a transaction never goes   *)
(* back, along the order of its labels.                                    *)
(***************************************************************************)
EXTENDS StoreProofs

Followed(p) == EventsFollowed(p) /\ TargetsFollowed(p)

\* Labels at which no commit is under way.
Apart == {"idle", "recover", "capture", "dispatch", "commit", "finish", "confirm",
          "receipt", "reading", "forget"}

LEMMA NoTargets ==
    ASSUME StoreInv', NEW p \in Procs, pc'[p] # "replace"
    PROVE  txn'[p].target = {}
  BY DEF StoreInv, ProcessInv, JournalFollowed

LEMMA ApartFollows ==
    ASSUME StoreInv', NEW p \in Procs, pc'[p] \in Apart
    PROVE  Followed(p)'
  BY NoTargets
     DEF Apart, Followed, EventsFollowed, TargetsFollowed, Replacing, InCommit,
         Publishing, Noticing, Inspecting

LEMMA OtherModeFollows ==
    ASSUME StoreInv', NEW p \in Procs, txn'[p].mode # "commit",
           pc'[p] \notin {"replace", "saved"}
    PROVE  Followed(p)'
  BY NoTargets DEF Followed, EventsFollowed, TargetsFollowed

\* The label of a commit that replaces nothing now, and what it announced so far.
Silent == {"hash", "inspect", "first", "made", "validate", "rehash", "publish"}
Ceiling(label) == CASE label \in Silent -> 0
                    [] label \in {"tasks", "local", "late"} -> 1
                    [] label \in {"unlink", "close", "settle"} -> 2
                    [] OTHER -> MaxCommitEvents

LEMMA CeilingIs ==
    /\ \A label \in Silent : Ceiling(label) = 0
    /\ Ceiling("tasks") = 1 /\ Ceiling("local") = 1 /\ Ceiling("late") = 1
    /\ Ceiling("unlink") = 2 /\ Ceiling("close") = 2 /\ Ceiling("settle") = 2
    /\ Ceiling("saved") = 3
  BY SMT DEF Ceiling, Silent, MaxCommitEvents

Announcing == Silent \cup {"tasks", "local", "late", "unlink", "close", "settle", "saved"}

LEMMA CeilingFollows ==
    ASSUME StoreInv', NEW p \in Procs, pc'[p] \in Announcing,
           txn'[p].emitted \in Nat, txn'[p].emitted <= Ceiling(pc'[p])
    PROVE  Followed(p)'
  <1>1. txn'[p].target = {}
    BY NoTargets DEF Announcing, Silent
  <1>2. pc'[p] \notin {"apply", "replace"}
    BY DEF Announcing, Silent
  <1>3. /\ pc'[p] \in Silent => txn'[p].emitted = 0
        /\ pc'[p] \in {"tasks", "local", "late"} => txn'[p].emitted <= 1
        /\ pc'[p] \in {"unlink", "close", "settle"} => txn'[p].emitted <= 2
        /\ pc'[p] = "saved" => txn'[p].emitted <= MaxCommitEvents
    BY CeilingIs, SMT DEF MaxCommitEvents
  <1>4. EventsFollowed(p)'
    BY <1>2, <1>3
       DEF EventsFollowed, Replacing, InCommit, Publishing, Noticing, Inspecting, Silent
  <1>5. TargetsFollowed(p)'
    BY <1>1, <1>2 DEF TargetsFollowed, Replacing
  <1> QED
    BY <1>4, <1>5 DEF Followed

LEMMA IdleFollows ==
    ASSUME StoreInv', NEW p \in Procs, pc'[p] = "idle"
    PROVE  Followed(p)'
  BY ApartFollows DEF Apart

LEMMA EndsIdle ==
    ASSUME TypeOK, NEW p \in Procs,
           Refuse(p) \/ Return(p) \/ InspectAndReturn(p) \/ InspectAndRefuse(p)
    PROVE  pc'[p] = "idle"
  BY GotoShape DEF Refuse, Raise, Return, InspectAndReturn, InspectAndRefuse

\* A step of one process leaves the others idle, with nothing in hand.
LEMMA StepFollows ==
    ASSUME CommitInv, StoreInv', NEW p \in Procs, lease \in {NoProc, p}, OthersUntouched(p),
           Followed(p)'
    PROVE  CommitInv'
  <1>1. ASSUME NEW q \in Procs, q # p
        PROVE  Followed(q)'
    <2>1. lease # q
      BY <1>1, ProcsAssumption
    <2>2. pc[q] = "idle"
      BY <2>1 DEF CommitInv, StoreInv, ProcessInv, LeaseHeld, Running
    <2> QED
      BY <1>1, <2>2, IdleFollows DEF OthersUntouched
  <1> QED
    BY <1>1 DEF CommitInv, Followed

\* The fields of a transaction that these parts follow.
LEMMA TxnTypes ==
    ASSUME TypeOK, NEW p \in Procs
    PROVE  txn[p] \in Txns /\ txn[p].emitted \in Nat
  BY SMT DEF TypeOK, Txns

LEMMA TargetKeeps ==
    ASSUME TypeOK, NEW p \in Procs, NEW g, NEW o,
           \/ txn' = [txn EXCEPT ![p] = [txn[p] EXCEPT !.target = g, !.todo = o]]
           \/ txn' = [txn EXCEPT ![p] = [txn[p] EXCEPT !.target = g]]
    PROVE  /\ txn'[p].emitted = txn[p].emitted /\ txn'[p].expect = txn[p].expect
           /\ txn'[p].mode = txn[p].mode /\ txn'[p].target = g
  <1> DEFINE r == [txn[p] EXCEPT !.target = g, !.todo = o]
             s == [txn[p] EXCEPT !.target = g]
  <1>1. txn'[p] = r \/ txn'[p] = s
    BY TxnShape
  <1>2. txn[p] \in Txns
    BY TxnTypes
  <1>3. /\ r.emitted = txn[p].emitted /\ r.expect = txn[p].expect
        /\ r.mode = txn[p].mode /\ r.target = g
    BY <1>2, SMT DEF Txns
  <1>4. /\ s.emitted = txn[p].emitted /\ s.expect = txn[p].expect
        /\ s.mode = txn[p].mode /\ s.target = g
    BY <1>2, SMT DEF Txns
  <1> HIDE DEF r, s
  <1> QED
    BY <1>1, <1>3, <1>4

LEMMA EmittedIs ==
    ASSUME TypeOK, NEW p \in Procs, NEW x, NEW n,
           \/ txn' = [txn EXCEPT ![p] = [txn[p] EXCEPT !.emitted = n]]
           \/ txn' = [txn EXCEPT ![p] = [txn[p] EXCEPT !.snap = x, !.emitted = n]]
    PROVE  txn'[p].emitted = n /\ txn'[p].mode = txn[p].mode
  <1> DEFINE r == [txn[p] EXCEPT !.emitted = n]
             s == [txn[p] EXCEPT !.snap = x, !.emitted = n]
  <1>1. txn'[p] = r \/ txn'[p] = s
    BY TxnShape
  <1>2. txn[p] \in Txns
    BY TxnTypes
  <1>3. r.emitted = n /\ r.mode = txn[p].mode /\ s.emitted = n /\ s.mode = txn[p].mode
    BY <1>2, SMT DEF Txns
  <1> HIDE DEF r, s
  <1> QED
    BY <1>1, <1>3

LEMMA SnapKeeps ==
    ASSUME TypeOK, NEW p \in Procs, NEW x, txn' = [txn EXCEPT ![p].snap = x]
    PROVE  txn'[p].emitted = txn[p].emitted /\ txn'[p].mode = txn[p].mode
  <1> DEFINE r == [txn[p] EXCEPT !.snap = x]
  <1>1. txn'[p] = r
    BY TxnShape
  <1>2. txn[p] \in Txns
    BY TxnTypes
  <1>3. r.emitted = txn[p].emitted /\ r.mode = txn[p].mode
    BY <1>2, SMT DEF Txns
  <1> HIDE DEF r
  <1> QED
    BY <1>1, <1>3

LEMMA AnnouncedIs == ASSUME NEW p PROVE Announced(p) \in {0, 1}
  BY DEF Announced

-----------------------------------------------------------------------------
(* The steps of a commit *)

LEMMA WriteJournalFollows ==
    ASSUME StoreInv, StoreInv', NEW p \in Procs, WriteJournal(p)
    PROVE  Followed(p)'
  <1> DEFINE original == IF HasManifest THEN manifest.files ELSE docs
             work == txn[p].work
             t == txn[p]
             expect == [d \in DOMAIN work |-> original[d]]
  <1>1. /\ pc'[p] = "apply" /\ journal' = work /\ manifest' = manifest
        /\ txn' = [txn EXCEPT ![p] =
                       [t EXCEPT !.mode = "commit", !.base = HasManifest, !.expect = expect,
                                 !.expected = Overlay(original, work),
                                 !.todo = DOMAIN work, !.emitted = 0]]
    BY GotoShape DEF StoreInv, WriteJournal
  <1>2. t \in Txns
    BY TxnTypes DEF StoreInv
  <1>3. txn'[p].emitted = 0 /\ txn'[p].expect = expect
    <2> DEFINE base == HasManifest
               expected == Overlay(original, work)
               todo == DOMAIN work
    <2>1. txn'[p] = [t EXCEPT !.mode = "commit", !.base = base, !.expect = expect,
                                 !.expected = expected, !.todo = todo, !.emitted = 0]
      BY <1>1, TxnShape DEF StoreInv
    <2> HIDE DEF base, expected, todo, expect
    <2> QED
      BY <1>2, <2>1, SMT DEF Txns
  <1>4. txn'[p].target = {}
    BY <1>1, NoTargets
  <1>5. EventsFollowed(p)'
    BY <1>1, <1>3
       DEF EventsFollowed, Replacing, InCommit, Publishing, Noticing, Inspecting
  <1>6. ASSUME HasManifest', NEW d \in DOMAIN journal'
        PROVE  txn'[p].expect[d] = manifest'.files[d]
    BY <1>1, <1>3, <1>6 DEF HasManifest
  <1>7. TargetsFollowed(p)'
    BY <1>4, <1>6 DEF TargetsFollowed
  <1> QED
    BY <1>5, <1>7 DEF Followed

LEMMA CompareTargetFollows ==
    ASSUME CommitInv, StoreInv', NEW p \in Procs, NEW d \in Docs, CompareTarget(p, d)
    PROVE  Followed(p)'
  <1>1. CASE Refuse(p)
    BY <1>1, EndsIdle, IdleFollows DEF CommitInv, StoreInv
  <1>2. CASE ~Refuse(p)
    <2>1. /\ pc[p] = "apply" /\ docs[d] = txn[p].expect[d] /\ pc'[p] = "replace"
          /\ UNCHANGED <<docs, journal, manifest>>
          /\ txn' = [txn EXCEPT ![p] = [txn[p] EXCEPT !.target = {d},
                                                      !.todo = txn[p].todo \ {d}]]
      BY <1>2, GotoShape DEF CommitInv, StoreInv, CompareTarget, disk
    <2>2. /\ txn'[p].emitted = txn[p].emitted /\ txn'[p].expect = txn[p].expect
          /\ txn'[p].mode = txn[p].mode /\ txn'[p].target = {d}
  BY <2>1, TargetKeeps DEF CommitInv, StoreInv
    <2>3. EventsFollowed(p) /\ TargetsFollowed(p)
      BY DEF CommitInv
    <2>4. EventsFollowed(p)'
      BY <2>1, <2>2, <2>3
         DEF EventsFollowed, Replacing, InCommit, Publishing, Noticing, Inspecting
    <2>5. TargetsFollowed(p)'
      BY <2>1, <2>2, <2>3 DEF TargetsFollowed, Replacing, HasManifest
    <2> QED
      BY <2>4, <2>5 DEF Followed
  <1> QED
    BY <1>1, <1>2

LEMMA ReplaceTargetFollows ==
    ASSUME CommitInv, StoreInv', NEW p \in Procs, ReplaceTarget(p)
    PROVE  Followed(p)'
  <1>1. /\ pc[p] = "replace" /\ pc'[p] = "apply" /\ UNCHANGED <<journal, manifest>>
        /\ txn' = [txn EXCEPT ![p] = [txn[p] EXCEPT !.target = {}]]
    BY GotoShape DEF CommitInv, StoreInv, ReplaceTarget
  <1>2. /\ txn'[p].emitted = txn[p].emitted /\ txn'[p].expect = txn[p].expect
        /\ txn'[p].mode = txn[p].mode /\ txn'[p].target = {}
    BY <1>1, TargetKeeps DEF CommitInv, StoreInv
  <1>3. EventsFollowed(p) /\ TargetsFollowed(p)
    BY DEF CommitInv
  <1>4. EventsFollowed(p)'
    BY <1>1, <1>2, <1>3
       DEF EventsFollowed, Replacing, InCommit, Publishing, Noticing, Inspecting
  <1>5. TargetsFollowed(p)'
    BY <1>1, <1>2, <1>3 DEF TargetsFollowed, Replacing, HasManifest
  <1> QED
    BY <1>4, <1>5 DEF Followed

\* What a commit announced when it leaves a label.
LEMMA SoFar ==
    ASSUME CommitInv, NEW p \in Procs
    PROVE  /\ txn[p].mode = "commit" /\ pc[p] \in Silent \cup {"apply"} =>
                  txn[p].emitted = 0
           /\ txn[p].mode = "commit" /\ pc[p] \in {"tasks", "local", "late"} =>
                  txn[p].emitted <= 1
           /\ txn[p].mode = "commit" /\ pc[p] \in {"unlink", "close", "settle"} =>
                  txn[p].emitted <= 2
           /\ TypeOK /\ txn[p] \in Txns /\ txn[p].emitted \in Nat
           /\ pc[p] \in {"close", "late"} => txn[p].mode = "commit"
           /\ pc[p] \in {"tasks", "local", "unlink"} => txn[p].mode \in {"commit", "recover"}
  <1>1. TypeOK /\ ModeFollowed(p) /\ EventsFollowed(p)
    BY DEF CommitInv, StoreInv, ProcessInv
  <1> QED
    BY <1>1, TxnTypes
       DEF EventsFollowed, ModeFollowed, Replacing, InCommit, Publishing, Noticing,
           Inspecting, Silent

LEMMA MovesOn ==
    ASSUME CommitInv, StoreInv', NEW p \in Procs, NEW label \in Announcing, Goto(p, label),
           txn' = txn, txn[p].mode = "commit" \/ label = "saved",
           txn[p].emitted <= Ceiling(label)
    PROVE  Followed(p)'
  BY SoFar, GotoShape, CeilingFollows

LEMMA CommitAppliedFollows ==
    ASSUME CommitInv, StoreInv', NEW p \in Procs, CommitApplied(p) \/ LocalBaselineTasks(p)
    PROVE  Followed(p)'
  <1>1. CASE Refuse(p)
    BY <1>1, EndsIdle, IdleFollows DEF CommitInv, StoreInv
  <1>2. CASE ~Refuse(p)
    <2>1. PICK label \in {"tasks", "hash", "local"} :
              /\ Goto(p, label) /\ txn' = txn
              /\ \/ pc[p] = "apply" /\ txn[p].mode = "commit"
                 \/ pc[p] = "tasks" /\ label = "local"
      BY <1>2 DEF CommitApplied, LocalBaselineTasks
    <2>2. pc'[p] = label
      BY <2>1, SoFar, GotoShape
    <2>3. CASE txn[p].mode = "commit"
      <3>1. txn[p].emitted <= Ceiling(label) /\ label \in Announcing
        BY <2>1, <2>3, SoFar, CeilingIs DEF Announcing, Silent
      <3> QED
        BY <2>1, <2>3, <3>1, MovesOn
    <2>4. CASE txn[p].mode # "commit"
      BY <2>1, <2>2, <2>4, OtherModeFollows
    <2> QED
      BY <2>3, <2>4
  <1> QED
    BY <1>1, <1>2

LEMMA WriteLocalBaselineFollows ==
    ASSUME CommitInv, StoreInv', NEW p \in Procs, WriteLocalBaseline(p)
    PROVE  Followed(p)'
  <1>1. /\ pc[p] = "local" /\ pc'[p] = "unlink"
        /\ txn' = [txn EXCEPT ![p] = [txn[p] EXCEPT !.emitted = txn[p].emitted + 1]]
    BY SoFar, GotoShape DEF WriteLocalBaseline
  <1>2. txn'[p].emitted = txn[p].emitted + 1 /\ txn'[p].mode = txn[p].mode
    BY <1>1, SoFar, EmittedIs
  <1>3. CASE txn[p].mode = "commit"
    <2>1. txn'[p].emitted \in Nat /\ txn'[p].emitted <= 2
      BY <1>1, <1>2, <1>3, SoFar, SMT
    <2> QED
      BY <1>1, <2>1, CeilingIs, CeilingFollows DEF Announcing
  <1>4. CASE txn[p].mode # "commit"
    BY <1>1, <1>2, <1>4, OtherModeFollows
  <1> QED
    BY <1>3, <1>4

LEMMA UnlinkJournalFollows ==
    ASSUME CommitInv, StoreInv', NEW p \in Procs, UnlinkJournal(p)
    PROVE  Followed(p)'
  <1>1. /\ pc[p] \in {"unlink", "close"} /\ txn' = txn
        /\ pc'[p] = IF pc[p] = "unlink" THEN "settle" ELSE "saved"
    BY SoFar, GotoShape DEF UnlinkJournal
  <1>2. CASE txn[p].mode = "commit"
    <2>1. txn'[p].emitted \in Nat /\ txn'[p].emitted <= 2
      BY <1>1, <1>2, SoFar
    <2>2. txn'[p].emitted <= Ceiling(pc'[p])
      BY <1>1, <2>1, CeilingIs, SMT
    <2> QED
      BY <1>1, <2>1, <2>2, CeilingFollows DEF Announcing
  <1>3. CASE txn[p].mode # "commit"
    BY <1>1, <1>3, SoFar, OtherModeFollows
  <1> QED
    BY <1>2, <1>3

\* An inspection announces at most one event.
LEMMA InspectsOnce ==
    ASSUME CommitInv, NEW p \in Procs, NEW label, InspectAndGoto(p, label)
    PROVE  /\ pc'[p] = label /\ txn'[p].mode = txn[p].mode
           /\ txn'[p].emitted \in Nat /\ txn'[p].emitted <= txn[p].emitted + 1
  <1>1. /\ pc'[p] = label
        /\ txn' = [txn EXCEPT ![p] = [txn[p] EXCEPT !.emitted = txn[p].emitted + Announced(p)]]
    BY SoFar, GotoShape DEF InspectAndGoto
  <1>2. txn'[p].emitted = txn[p].emitted + Announced(p) /\ txn'[p].mode = txn[p].mode
    BY <1>1, SoFar, EmittedIs
  <1> QED
    BY <1>1, <1>2, AnnouncedIs, SoFar, SMT

LEMMA SettleFollows ==
    ASSUME CommitInv, StoreInv', NEW p \in Procs, Settle(p)
    PROVE  Followed(p)'
  <1>1. CASE txn[p].mode = "commit" /\ InspectAndGoto(p, "saved")
    <2>1. txn[p].emitted <= 2 /\ txn[p].emitted \in Nat
      BY <1>1, SoFar DEF Settle
    <2>2. pc'[p] = "saved" /\ txn'[p].emitted \in Nat /\ txn'[p].emitted <= 3
      BY <1>1, <2>1, InspectsOnce, SMT
    <2> QED
      BY <2>2, CeilingIs, CeilingFollows DEF Announcing
  <1>2. CASE InspectAndReturn(p)
    BY <1>2, EndsIdle, IdleFollows DEF CommitInv, StoreInv
  <1>3. CASE Goto(p, "dispatch")
    BY <1>3, SoFar, GotoShape, ApartFollows DEF Apart
  <1> QED
    BY <1>1, <1>2, <1>3 DEF Settle

LEMMA HashDocumentsFollows ==
    ASSUME CommitInv, StoreInv', NEW p \in Procs, HashDocuments(p)
    PROVE  Followed(p)'
  <1>1. CASE Refuse(p)
    BY <1>1, EndsIdle, IdleFollows DEF CommitInv, StoreInv
  <1>2. CASE txn[p].mode = "commit" /\ Goto(p, "inspect") /\ txn' = txn
    <2>1. txn[p].emitted <= Ceiling("inspect")
      BY <1>2, SoFar, CeilingIs DEF HashDocuments, Silent
    <2> QED
      BY <1>2, <2>1, MovesOn DEF Announcing, Silent
  <1>3. CASE txn' = [txn EXCEPT ![p].snap = docs] /\ Goto(p, "validate")
    <2>1. txn' = [txn EXCEPT ![p] = [txn[p] EXCEPT !.snap = docs]] /\ pc'[p] = "validate"
      BY <1>3, SoFar, GotoShape
    <2>2. txn'[p].emitted = txn[p].emitted /\ txn'[p].mode = txn[p].mode
      BY <1>3, SoFar, SnapKeeps
    <2>3. CASE txn[p].mode = "commit"
      <3>1. txn'[p].emitted \in Nat /\ txn'[p].emitted <= 0
        BY <2>2, <2>3, SoFar DEF HashDocuments, Silent
      <3> QED
        BY <2>1, <3>1, CeilingIs, CeilingFollows DEF Announcing, Silent
    <2>4. CASE txn[p].mode # "commit"
      BY <2>1, <2>2, <2>4, OtherModeFollows
    <2> QED
      BY <2>3, <2>4
  <1> QED
    BY <1>1, <1>2, <1>3 DEF HashDocuments, disk

LEMMA NoticeLateChangeFollows ==
    ASSUME CommitInv, StoreInv', NEW p \in Procs, NoticeLateChange(p)
    PROVE  Followed(p)'
  <1>1. /\ pc[p] \in {"inspect", "made"} /\ txn[p].mode = "commit"
        /\ InspectAndGoto(p, "late")
    BY DEF NoticeLateChange, Finds
  <1>2. txn[p].emitted = 0
    BY <1>1, SoFar DEF Silent
  <1>3. pc'[p] = "late" /\ txn'[p].emitted \in Nat /\ txn'[p].emitted <= 1
    BY <1>1, <1>2, InspectsOnce, SMT
  <1> QED
    BY <1>3, CeilingIs, CeilingFollows DEF Announcing

LEMMA RehashDocumentsFollows ==
    ASSUME CommitInv, StoreInv', NEW p \in Procs,
           ValidateDocuments(p) \/ RehashDocuments(p)
    PROVE  Followed(p)'
  <1>1. CASE Refuse(p)
    BY <1>1, EndsIdle, IdleFollows DEF CommitInv, StoreInv
  <1>2. CASE ~Refuse(p)
    <2>1. PICK label \in {"rehash", "publish"} :
              pc[p] \in {"validate", "rehash"} /\ Goto(p, label) /\ txn' = txn
      BY <1>2 DEF ValidateDocuments, RehashDocuments
    <2>2. pc'[p] = label
      BY <2>1, SoFar, GotoShape
    <2>3. CASE txn[p].mode = "commit"
      <3>1. txn[p].emitted <= Ceiling(label) /\ label \in Announcing
        BY <2>1, <2>3, SoFar, CeilingIs DEF Announcing, Silent
      <3> QED
        BY <2>1, <2>3, <3>1, MovesOn
    <2>4. CASE txn[p].mode # "commit"
      BY <2>1, <2>2, <2>4, OtherModeFollows
    <2> QED
      BY <2>3, <2>4
  <1> QED
    BY <1>1, <1>2

LEMMA ModeKeeps ==
    ASSUME TypeOK, NEW p \in Procs, NEW x, txn' = [txn EXCEPT ![p].mode = x]
    PROVE  txn'[p].emitted = txn[p].emitted /\ txn'[p].mode = x
  <1> DEFINE r == [txn[p] EXCEPT !.mode = x]
  <1>1. txn'[p] = r
    BY TxnShape
  <1>2. txn[p] \in Txns
    BY TxnTypes
  <1>3. r.emitted = txn[p].emitted /\ r.mode = x
    BY <1>2, SMT DEF Txns
  <1> HIDE DEF r
  <1> QED
    BY <1>1, <1>3

\* The first baseline announces nothing.
LEMMA FirstBaselineFollows ==
    ASSUME CommitInv, StoreInv', NEW p \in Procs, ValidateFirst(p) \/ EstablishBaseline(p)
    PROVE  Followed(p)'
  <1>1. CASE Refuse(p)
    BY <1>1, EndsIdle, IdleFollows DEF CommitInv, StoreInv
  <1>2. CASE ValidateFirst(p) /\ ~Refuse(p)
    <2> DEFINE mode == IF pc[p] = "finish" THEN "finish" ELSE txn[p].mode
    <2>1. /\ pc[p] \in {"dispatch", "inspect", "finish"} /\ Goto(p, "first")
          /\ txn' = [txn EXCEPT ![p].mode = mode]
      BY <1>2 DEF ValidateFirst
    <2>2. mode = "commit" => pc[p] = "inspect" /\ txn[p].mode = "commit"
      BY <2>1, SMT DEF CommitInv, StoreInv, ProcessInv, ModeFollowed
    <2> HIDE DEF mode
    <2>3. /\ pc'[p] = "first" /\ txn'[p].emitted = txn[p].emitted
          /\ txn'[p].mode = mode
      BY <2>1, SoFar, GotoShape, ModeKeeps
    <2>4. CASE mode = "commit"
      <3>1. txn'[p].emitted = 0
        BY <2>2, <2>3, <2>4, SoFar DEF Silent
      <3> QED
        BY <2>3, <3>1, CeilingIs, CeilingFollows DEF Announcing, Silent
    <2>5. CASE mode # "commit"
      BY <2>3, <2>5, OtherModeFollows
    <2> QED
      BY <2>4, <2>5
  <1>3. CASE EstablishBaseline(p) /\ ~Refuse(p)
    <2>1. pc[p] = "first" /\ pc'[p] = "made" /\ Goto(p, "made") /\ txn' = txn
      BY <1>3, SoFar, GotoShape DEF EstablishBaseline
    <2>2. CASE txn[p].mode = "commit"
      <3>1. txn[p].emitted <= Ceiling("made")
        BY <2>1, <2>2, SoFar, CeilingIs DEF Silent
      <3> QED
        BY <2>1, <2>2, <3>1, MovesOn DEF Announcing, Silent
    <2>3. CASE txn[p].mode # "commit"
      BY <2>1, <2>3, OtherModeFollows
    <2> QED
      BY <2>2, <2>3
  <1> QED
    BY <1>1, <1>2, <1>3

LEMMA PublishManifestFollows ==
    ASSUME CommitInv, StoreInv', NEW p \in Procs, PublishManifest(p)
    PROVE  Followed(p)'
  <1>1. /\ pc[p] = "publish"
        /\ txn' = [txn EXCEPT ![p] = [txn[p] EXCEPT !.snap = NoFiles,
                                                    !.emitted = txn[p].emitted + 1]]
        /\ pc'[p] = CASE txn[p].mode = "commit" -> "close"
                      [] txn[p].mode = "finish" -> "settle"
                      [] OTHER                  -> "receipt"
    BY SoFar, GotoShape DEF PublishManifest
  <1>2. txn'[p].emitted = txn[p].emitted + 1 /\ txn'[p].mode = txn[p].mode
    BY <1>1, SoFar, EmittedIs
  <1>4. CASE txn[p].mode = "commit"
    <2>1. txn'[p].emitted \in Nat /\ txn'[p].emitted <= 2
      <3>1. txn[p].emitted = 0
        BY <1>1, <1>4, SoFar DEF Silent
      <3> QED
        BY <1>2, <3>1
    <2>2. pc'[p] = "close"
      BY <1>1, <1>4
    <2> QED
      BY <2>1, <2>2, CeilingIs, CeilingFollows DEF Announcing
  <1>5. CASE txn[p].mode # "commit"
    <2>1. pc'[p] \in {"settle", "receipt"}
      BY <1>1, <1>5
    <2> QED
      BY <1>2, <1>5, <2>1, OtherModeFollows
  <1> QED
    BY <1>4, <1>5

LEMMA ResolveLateFollows ==
    ASSUME CommitInv, StoreInv', NEW p \in Procs, ResolveLateExternalChange(p)
    PROVE  Followed(p)'
  <1>1. CASE Refuse(p) \/ InspectAndRefuse(p)
    BY <1>1, EndsIdle, IdleFollows DEF CommitInv, StoreInv
  <1>2. CASE ~Refuse(p) /\ ~InspectAndRefuse(p)
    <2>1. pc[p] = "late" /\ Goto(p, "tasks") /\ txn' = txn
      BY <1>2 DEF ResolveLateExternalChange
    <2>2. txn[p].mode = "commit" /\ txn[p].emitted <= Ceiling("tasks")
      BY <2>1, SoFar, CeilingIs
    <2> QED
      BY <2>1, <2>2, MovesOn DEF Announcing
  <1> QED
    BY <1>1, <1>2

-----------------------------------------------------------------------------
(* The other steps, the calls and the outside world *)

LEMMA OtherStepsFollow ==
    ASSUME CommitInv, StoreInv', NEW p \in Procs,
           \/ RecoverLocked(p) \/ CaptureExpectations(p) \/ ReplayApplied(p)
           \/ ForgetJournal(p) \/ AssertWritable(p) \/ CommitReturns(p)
           \/ ServerStarted(p) \/ InitializeFresh(p) \/ AdmitExisting(p)
           \/ FinishInitialization(p) \/ (\E d \in Docs : LoadDocument(p, d))
           \/ LoadInspected(p) \/ StatusShown(p) \/ FinishRead(p)
           \/ ReviewAdoption(p) \/ ConfirmAdoption(p) \/ WriteReceipt(p)
    PROVE  Followed(p)'
  <1>0. TypeOK
    BY SoFar
  <1>1. ASSUME Refuse(p) \/ Return(p) \/ InspectAndReturn(p) \/ InspectAndRefuse(p)
        PROVE  Followed(p)'
    BY <1>0, <1>1, EndsIdle, IdleFollows
  <1>2. ASSUME NEW label \in Apart, Goto(p, label) \/ InspectAndGoto(p, label)
        PROVE  Followed(p)'
    BY <1>0, <1>2, GotoShape, ApartFollows DEF InspectAndGoto
  <1>3. ASSUME NEW label \in {"apply", "tasks", "settle", "hash", "inspect"},
               Goto(p, label), NEW m \in {"none", "recover", "finish", "adopt"},
               txn'[p].mode = m
        PROVE  Followed(p)'
    BY <1>0, <1>3, GotoShape, OtherModeFollows
  <1>4. CASE RecoverLocked(p) \/ AssertWritable(p)
    BY <1>1, <1>2, <1>4 DEF RecoverLocked, AssertWritable, Apart
  <1>5. CASE CaptureExpectations(p)
    <2>1. Goto(p, "apply")
      BY <1>5 DEF CaptureExpectations
    <2>2. txn'[p].mode = "recover"
      <3> DEFINE base == HasManifest
                 expect == [d \in DOMAIN journal |-> docs[d]]
                 expected == IF HasManifest THEN Overlay(manifest.files, journal)
                             ELSE NoFiles
                 todo == DOMAIN journal
                 r == [txn[p] EXCEPT !.mode = "recover", !.base = base, !.expect = expect,
                                     !.expected = expected, !.todo = todo]
      <3>1. txn'[p] = r
        BY <1>0, <1>5, TxnShape DEF CaptureExpectations
      <3>2. txn[p] \in Txns
        BY <1>0, TxnTypes
      <3> HIDE DEF base, expect, expected, todo
      <3>3. r.mode = "recover"
        BY <3>2, SMT DEF Txns
      <3> HIDE DEF r
      <3> QED
        BY <3>1, <3>3
    <2> QED
      BY <1>3, <2>1, <2>2
  <1>6. CASE ReplayApplied(p)
    <2>1. txn[p].mode = "recover" /\ txn' = txn
      BY <1>6 DEF ReplayApplied
    <2>2. Goto(p, "tasks") \/ Goto(p, "forget")
      BY <1>6 DEF ReplayApplied
    <2> QED
      BY <1>2, <1>3, <2>1, <2>2 DEF Apart
  <1>7. CASE ForgetJournal(p) \/ InitializeFresh(p)
    BY <1>2, <1>7 DEF ForgetJournal, InitializeFresh, Apart
  <1>8. CASE CommitReturns(p) \/ ServerStarted(p) \/ AdmitExisting(p) \/ FinishRead(p)
    BY <1>1, <1>2, <1>8 DEF CommitReturns, ServerStarted, AdmitExisting, FinishRead, Apart
  <1>9. CASE FinishInitialization(p)
    <2>1. CASE Goto(p, "hash") /\ txn' = [txn EXCEPT ![p].mode = "finish"]
      <3>1. txn'[p].mode = "finish"
        BY <1>0, <2>1, ModeFields
      <3> QED
        BY <1>3, <2>1, <3>1
    <2> QED
      BY <1>1, <1>9, <2>1 DEF FinishInitialization
  <1>10. CASE \E d \in Docs : LoadDocument(p, d)
    <2>1. CASE pc[p] = "dispatch" /\ Goto(p, "inspect") /\ txn' = txn
      <3>1. ModeFollowed(p)
        BY DEF CommitInv, StoreInv, ProcessInv
      <3>2. txn'[p].mode = "none"
        BY <2>1, <3>1 DEF ModeFollowed
      <3> QED
        BY <1>3, <2>1, <3>2
    <2> QED
      BY <1>1, <1>10, <2>1 DEF LoadDocument
  <1>11. CASE ReviewAdoption(p)
    BY <1>1, <1>2, <1>11 DEF ReviewAdoption, Apart
  <1>12. CASE ConfirmAdoption(p)
    <2>1. CASE Goto(p, "hash") /\ txn' = [txn EXCEPT ![p].mode = "adopt"]
      <3>1. txn'[p].mode = "adopt"
        BY <1>0, <2>1, ModeFields
      <3> QED
        BY <1>3, <2>1, <3>1
    <2> QED
      BY <1>1, <1>12, <2>1 DEF ConfirmAdoption
  <1>13. CASE WriteReceipt(p)
    <2>1. ModeFollowed(p)
      BY DEF CommitInv, StoreInv, ProcessInv
    <2>2. txn'[p].mode = "adopt" /\ Goto(p, "settle")
      BY <1>13, <2>1 DEF WriteReceipt, ModeFollowed, Publishing, Inspecting
    <2> QED
      BY <1>3, <2>2
  <1>14. CASE LoadInspected(p) \/ StatusShown(p)
    BY <1>1, <1>14 DEF LoadInspected, StatusShown
  <1> QED
    BY <1>4, <1>5, <1>6, <1>7, <1>8, <1>9, <1>10, <1>11, <1>12, <1>13, <1>14

LEMMA StepsFollow ==
    ASSUME CommitInv, StoreInv', NEW p \in Procs, Step(p)
    PROVE  Followed(p)'
  <1>1. StoreInv
    BY DEF CommitInv
  <1>2. CASE \/ (\E d \in Docs : CompareTarget(p, d)) \/ ReplaceTarget(p)
             \/ CommitApplied(p) \/ LocalBaselineTasks(p) \/ WriteLocalBaseline(p)
    BY <1>2, CompareTargetFollows, ReplaceTargetFollows, CommitAppliedFollows,
       WriteLocalBaselineFollows
  <1>3. CASE UnlinkJournal(p) \/ Settle(p) \/ WriteJournal(p)
    BY <1>1, <1>3, UnlinkJournalFollows, SettleFollows, WriteJournalFollows
  <1>4. CASE \/ HashDocuments(p) \/ NoticeLateChange(p) \/ ValidateDocuments(p)
             \/ RehashDocuments(p) \/ PublishManifest(p) \/ ResolveLateExternalChange(p)
    BY <1>4, HashDocumentsFollows, NoticeLateChangeFollows, RehashDocumentsFollows,
       PublishManifestFollows, ResolveLateFollows
  <1>5. CASE ValidateFirst(p) \/ EstablishBaseline(p)
    BY <1>5, FirstBaselineFollows
  <1> QED
    BY <1>2, <1>3, <1>4, <1>5, OtherStepsFollow DEF Step

LEMMA CallsFollow ==
    ASSUME CommitInv, StoreInv', NEW p \in Procs, Call(p)
    PROVE  Followed(p)'
  <1>1. pc[p] = "idle" /\ TypeOK
    BY SoFar
       DEF Call, StartServer, Initialize, Load, AdoptExternalChange, SyncStatus,
           RetainLease, ReleaseLease, ConsistentRead, SaveMany, Enter, Exit
  <1>2. \/ pc' = pc \/ Goto(p, "recover") \/ Goto(p, "reading")
        \/ Goto(p, "first") /\ txn' = [txn EXCEPT ![p] = [NoTxn EXCEPT !.op = "status"]]
    BY DEF Call, StartServer, Initialize, Load, AdoptExternalChange, SyncStatus,
           RetainLease, ReleaseLease, ConsistentRead, SaveMany, Enter, Exit
  <1>3. CASE Goto(p, "first") /\ txn' = [txn EXCEPT ![p] = [NoTxn EXCEPT !.op = "status"]]
    <2>1. txn'[p] = [NoTxn EXCEPT !.op = "status"] /\ pc'[p] = "first"
      BY <1>1, <1>3, TxnShape, GotoShape
    <2>2. txn'[p].mode = "none"
      BY <2>1, EmptyTxn, SMT DEF Txns
    <2> QED
      BY <2>1, <2>2, OtherModeFollows
  <1>4. CASE pc' = pc \/ Goto(p, "recover") \/ Goto(p, "reading")
    <2>1. pc'[p] \in {"idle", "recover", "reading"}
      BY <1>1, <1>4, GotoShape
    <2> QED
      BY <2>1, ApartFollows DEF Apart
  <1> QED
    BY <1>2, <1>3, <1>4

\* An edit spares what a commit compared, unless the build lets it race.
LEMMA ExternalFollows ==
    ASSUME CommitInv, StoreInv', External
    PROVE  CommitInv'
  <1>1. PICK d \in Docs : \E body : ExternalEdit(d, body)
    BY DEF External
  <1>2. /\ UNCHANGED <<journal, manifest, pc, txn>>
        /\ RawRace \/ \A p \in Procs : d \notin txn[p].target
    BY <1>1 DEF ExternalEdit
  <1>3. ASSUME NEW e \in Docs, e # d PROVE docs'[e] = docs[e]
    BY <1>1, <1>3 DEF ExternalEdit, CommitInv, StoreInv, TypeOK, Files
  <1>4. ASSUME NEW p \in Procs
        PROVE  Followed(p)'
    <2>1. /\ EventsFollowed(p) /\ TargetsFollowed(p) /\ txn[p].target \subseteq Docs
      BY DEF CommitInv, StoreInv, TypeOK, Txns
    <2>2. EventsFollowed(p)'
      BY <1>2, <2>1
         DEF EventsFollowed, Replacing, InCommit, Publishing, Noticing, Inspecting
    <2>3. ASSUME ~RawRace, NEW e \in txn[p].target
          PROVE  docs'[e] = txn[p].expect[e]
      BY <1>2, <1>3, <2>1, <2>3 DEF TargetsFollowed
    <2>4. TargetsFollowed(p)'
      BY <1>2, <2>1, <2>3 DEF TargetsFollowed, Replacing, HasManifest
    <2> QED
      BY <2>2, <2>4 DEF Followed
  <1> QED
    BY <1>4 DEF CommitInv, Followed

\* A program that ends next to another's transaction, and a step of nobody.
LEMMA UnmovedFollows ==
    ASSUME CommitInv, StoreInv', UNCHANGED <<docs, journal, manifest, pc, txn>>
    PROVE  CommitInv'
  <1>1. ASSUME NEW p \in Procs
        PROVE  Followed(p)'
    <2>1. EventsFollowed(p) /\ TargetsFollowed(p)
      BY DEF CommitInv
    <2> QED
      BY <2>1
         DEF Followed, EventsFollowed, TargetsFollowed, Replacing, InCommit,
             Publishing, Noticing, Inspecting, HasManifest
  <1> QED
    BY <1>1 DEF CommitInv, Followed

LEMMA InitCommit == Init => CommitInv
  <1> SUFFICES ASSUME Init PROVE CommitInv
    OBVIOUS
  <1>2. ASSUME NEW p \in Procs
        PROVE  EventsFollowed(p) /\ TargetsFollowed(p)
    <2>1. pc[p] = "idle" /\ txn[p] = NoTxn
      BY DEF Init
    <2>2. NoTxn.mode = "none" /\ NoTxn.target = {}
      BY EmptyTxn
    <2> QED
      BY <2>1, <2>2 DEF EventsFollowed, TargetsFollowed
  <1> QED
    BY <1>2, InitInv DEF CommitInv

LEMMA CommitStepHolds ==
    ASSUME CommitInv, [Next]_vars
    PROVE  CommitInv'
  <1>1. StoreInv /\ StoreInv' /\ TypeOK'
    BY StoreStep DEF CommitInv, StoreInv
  <1>2. ASSUME NEW p \in Procs, Call(p)
        PROVE  CommitInv'
    <2>1. CASE Exit(p) /\ lease # p
      BY <1>1, <2>1, UnmovedFollows DEF Exit, disk
    <2>2. CASE ~(Exit(p) /\ lease # p)
      <3>1. lease \in {NoProc, p} /\ OthersUntouched(p)
        BY <1>1, <1>2, <2>2, CallHolds, CallKeeps DEF Kept
      <3> QED
        BY <1>1, <1>2, <3>1, CallsFollow, StepFollows
    <2> QED
      BY <2>1, <2>2
  <1>3. ASSUME NEW p \in Procs, Step(p)
        PROVE  CommitInv'
    <2>1. lease = p /\ OthersUntouched(p)
      BY <1>1, <1>3, StepRuns, RunningHolds, ActionKeeps DEF Kept
    <2> QED
      BY <1>1, <1>3, <2>1, StepsFollow, StepFollows
  <1>4. ASSUME NEW p \in Procs, Crash(p) \/ FileFails(p)
        PROVE  CommitInv'
    <2>1. Running(p)
      BY <1>4 DEF Crash, FileFails
    <2>2. lease = p /\ OthersUntouched(p)
      BY <1>1, <1>4, <2>1, RunningHolds, CrashKeeps, FileFailsKeeps DEF Kept
    <2>3. pc'[p] = "idle"
      BY <1>1, <1>4, GotoShape DEF Crash, FileFails, StoreInv
    <2> QED
      BY <1>1, <2>2, <2>3, IdleFollows, StepFollows
  <1>5. CASE UNCHANGED vars
    BY <1>1, <1>5, UnmovedFollows DEF vars
  <1> QED
    BY <1>1, <1>2, <1>3, <1>4, <1>5, ExternalFollows DEF Next

-----------------------------------------------------------------------------
(* What follows *)

\* Every commit is followed event by event, and every target it is about to replace
\* holds the bytes it expects, for any number of programs, documents, external edits
\* and faults (_commit_prepared_locked, _atomic_write_locked).
THEOREM CommitInvariant == Spec => []CommitInv
  BY InitCommit, CommitStepHolds, PTL DEF Spec

\* A successful commit emits at most three events, through whichever of its branches
\* external writers drive it: the bound the notice's event id relies on.
THEOREM CommitEventCeilingHolds == Spec => []CommitEventCeiling
  <1>1. CommitInv => CommitEventCeiling
    BY DEF CommitInv, EventsFollowed, CommitEventCeiling
  <1> QED
    BY <1>1, CommitInvariant, PTL

\* Where no external writer acts between the comparison of a target and its
\* os.replace, a commit replaces only the bytes that the accepted baseline names: a
\* document changed outside is preserved, and the commit refused.
THEOREM CommitPreservesForeignHolds ==
    ASSUME ~RawRace
    PROVE  Spec => CommitPreservesForeign
  <1> DEFINE Preserves ==
                 \A p \in Procs : \A d \in txn[p].target :
                     (txn[p].mode = "commit" /\ HasManifest /\ docs'[d] # docs[d])
                         => docs[d] = manifest.files[d]
  <1>1. ASSUME CommitInv, [Next]_vars, NEW p \in Procs, NEW d \in txn[p].target,
               txn[p].mode = "commit", HasManifest
        PROVE  docs[d] = manifest.files[d]
    <2>1. TargetsFollowed(p) /\ JournalFollowed(p)
      BY <1>1 DEF CommitInv, StoreInv, ProcessInv
    <2>2. pc[p] = "replace" /\ d \in DOMAIN journal
      BY <1>1, <2>1 DEF JournalFollowed
    <2> QED
      BY <1>1, <2>1, <2>2 DEF TargetsFollowed, Replacing
  <1>2. CommitInv /\ [Next]_vars => [Preserves]_vars
    BY <1>1
  <1> QED
    BY <1>2, CommitInvariant, PTL DEF Spec, CommitPreservesForeign

-----------------------------------------------------------------------------
(* A transaction never goes back *)

\* A later label, told by what a transaction does at both.
Ahead(a, m, b, n) ==
    \/ Phase(b, n) < Phase(a, m)
    \/ Phase(b, n) = Phase(a, m) /\ Position(a) < Position(b)

LEMMA AheadAdvances ==
    ASSUME NEW p \in Procs, Ahead(pc[p], txn[p].mode, pc'[p], txn'[p].mode)
    PROVE  FartherOn(p)
  BY DEF Ahead, FartherOn

\* The labels that lead on whatever the modes are.
LEMMA AheadByLabel ==
    ASSUME NEW m, NEW n
    PROVE  /\ Ahead("recover", m, "dispatch", n) /\ Ahead("recover", m, "capture", n)
           /\ Ahead("forget", m, "dispatch", n) /\ Ahead("dispatch", m, "commit", n)
           /\ Ahead("dispatch", m, "finish", n) /\ Ahead("dispatch", m, "confirm", n)
           /\ Ahead("close", m, "saved", n) /\ Ahead("saved", m, "finish", n)
  BY SMT DEF Ahead, Phase, Position

\* The labels of one phase, in which the mode stays.
LEMMA AheadWithin ==
    ASSUME NEW m
    PROVE  /\ Ahead("apply", m, "tasks", m) /\ Ahead("apply", m, "hash", m)
           /\ Ahead("tasks", m, "local", m) /\ Ahead("local", m, "unlink", m)
           /\ Ahead("unlink", m, "settle", m) /\ Ahead("hash", m, "validate", m)
           /\ Ahead("validate", m, "rehash", m) /\ Ahead("rehash", m, "publish", m)
           /\ Ahead("hash", m, "inspect", m) /\ Ahead("inspect", m, "first", m)
           /\ Ahead("first", m, "made", m)
  BY SMT DEF Ahead, Phase, Position

\* The labels between which the mode tells the phase.
LEMMA AheadByMode ==
    ASSUME NEW m
    PROVE  /\ Ahead("capture", m, "apply", "recover") /\ Ahead("commit", m, "apply", "commit")
           /\ Ahead("apply", "recover", "forget", m) /\ Ahead("settle", "recover", "dispatch", m)
           /\ Ahead("settle", "commit", "saved", m) /\ Ahead("publish", "commit", "close", m)
           /\ Ahead("inspect", "commit", "late", m) /\ Ahead("made", "commit", "late", m)
           /\ Ahead("late", m, "tasks", "commit")
           /\ Ahead("dispatch", m, "inspect", "none") /\ Ahead("dispatch", m, "first", "none")
           /\ Ahead("made", "none", "commit", m) /\ Ahead("made", "none", "confirm", m)
           /\ Ahead("publish", "finish", "settle", "finish")
           /\ Ahead("publish", "adopt", "receipt", "adopt")
           /\ Ahead("receipt", m, "settle", "adopt")
           /\ Ahead("finish", m, "first", "finish")
           /\ Ahead("finish", m, "hash", "finish") /\ Ahead("confirm", m, "hash", "adopt")
  BY SMT DEF Ahead, Phase, Position

LEMMA AheadOfNothing ==
    ASSUME NEW a, NEW m, NEW n, a # "idle"
    PROVE  Ahead(a, m, "idle", n)
  <1>1. Phase("idle", n) = 0
    BY SMT DEF Phase
  <1>2. Phase(a, m) \in {1, 2, 3, 4}
    BY SMT DEF Phase
  <1> QED
    BY <1>1, <1>2, SMT DEF Ahead

LEMMA EndAdvances ==
    ASSUME TypeOK, NEW p \in Procs, Running(p), pc'[p] = "idle"
    PROVE  FartherOn(p)
  BY AheadOfNothing, AheadAdvances DEF Running

LEMMA EndsAdvance ==
    ASSUME TypeOK, NEW p \in Procs, Running(p),
           Refuse(p) \/ Return(p) \/ InspectAndReturn(p) \/ InspectAndRefuse(p)
    PROVE  FartherOn(p)
  BY EndsIdle, EndAdvances

LEMMA InspectionShape ==
    ASSUME TypeOK, NEW p \in Procs, NEW label, InspectAndGoto(p, label)
    PROVE  pc'[p] = label /\ txn'[p].mode = txn[p].mode
  <1>1. /\ pc'[p] = label
        /\ txn' = [txn EXCEPT ![p] = [txn[p] EXCEPT !.emitted = txn[p].emitted + Announced(p)]]
    BY GotoShape DEF InspectAndGoto
  <1> QED
    BY <1>1, EmittedIs

\* The mode a replay and a commit begin in.
LEMMA CapturedMode ==
    ASSUME TypeOK, NEW p \in Procs, CaptureExpectations(p)
    PROVE  txn'[p].mode = "recover"
  <1> DEFINE base == HasManifest
             expect == [d \in DOMAIN journal |-> docs[d]]
             expected == IF HasManifest THEN Overlay(manifest.files, journal) ELSE NoFiles
             todo == DOMAIN journal
             r == [txn[p] EXCEPT !.mode = "recover", !.base = base, !.expect = expect,
                                 !.expected = expected, !.todo = todo]
  <1>1. txn'[p] = r
    BY TxnShape DEF CaptureExpectations
  <1>2. txn[p] \in Txns
    BY TxnTypes
  <1> HIDE DEF base, expect, expected, todo
  <1>3. r.mode = "recover"
    BY <1>2, SMT DEF Txns
  <1> HIDE DEF r
  <1> QED
    BY <1>1, <1>3

LEMMA JournaledMode ==
    ASSUME TypeOK, NEW p \in Procs, WriteJournal(p)
    PROVE  txn'[p].mode = "commit"
  <1> DEFINE base == HasManifest
             work == txn[p].work
             original == IF HasManifest THEN manifest.files ELSE docs
             expect == [d \in DOMAIN work |-> original[d]]
             expected == Overlay(original, work)
             todo == DOMAIN work
             r == [txn[p] EXCEPT !.mode = "commit", !.base = base, !.expect = expect,
                                 !.expected = expected, !.todo = todo, !.emitted = 0]
  <1>1. txn'[p] = r
    BY TxnShape DEF WriteJournal
  <1>2. txn[p] \in Txns
    BY TxnTypes
  <1> HIDE DEF base, work, original, expect, expected, todo
  <1>3. r.mode = "commit"
    BY <1>2, SMT DEF Txns
  <1> HIDE DEF r
  <1> QED
    BY <1>1, <1>3

\* _recover_locked.
LEMMA RecoveryAdvances ==
    ASSUME StoreInv, NEW p \in Procs, Running(p),
           RecoverLocked(p) \/ CaptureExpectations(p) \/ ReplayApplied(p) \/ ForgetJournal(p)
    PROVE  FartherOn(p)
  <1>0. TypeOK
    BY DEF StoreInv
  <1>1. CASE RecoverLocked(p)
    <2>1. CASE Refuse(p)
      BY <1>0, <2>1, EndsAdvance
    <2>2. CASE pc[p] = "recover" /\ (Goto(p, "dispatch") \/ Goto(p, "capture"))
      BY <1>0, <2>2, GotoShape, AheadByLabel, AheadAdvances
    <2> QED
      BY <1>1, <2>1, <2>2 DEF RecoverLocked
  <1>2. CASE CaptureExpectations(p)
    <2>1. pc[p] = "capture" /\ pc'[p] = "apply"
      BY <1>0, <1>2, GotoShape DEF CaptureExpectations
    <2>2. txn'[p].mode = "recover"
      BY <1>0, <1>2, CapturedMode
    <2> QED
      BY <2>1, <2>2, AheadByMode, AheadAdvances
  <1>3. CASE ReplayApplied(p)
    <2>1. /\ pc[p] = "apply" /\ txn[p].mode = "recover" /\ txn' = txn
          /\ pc'[p] \in {"tasks", "forget"}
      BY <1>0, <1>3, GotoShape DEF ReplayApplied
    <2> QED
      BY <2>1, AheadWithin, AheadByMode, AheadAdvances
  <1>4. CASE ForgetJournal(p)
    <2>1. pc[p] = "forget" /\ pc'[p] = "dispatch"
      BY <1>0, <1>4, GotoShape DEF ForgetJournal
    <2> QED
      BY <2>1, AheadByLabel, AheadAdvances
  <1> QED
    BY <1>1, <1>2, <1>3, <1>4

\* _atomic_write_locked: one target less to replace, then its replacement.
LEMMA TargetsAdvance ==
    ASSUME StoreInv, NEW p \in Procs, Running(p),
           (\E d \in Docs : CompareTarget(p, d)) \/ ReplaceTarget(p)
    PROVE  FartherOn(p)
  <1>0. TypeOK
    BY DEF StoreInv
  <1>1. ASSUME NEW m PROVE Phase("apply", m) = Phase("replace", m)
    BY SMT DEF Phase
  <1>2. Position("apply") = Position("replace")
    BY SMT DEF Position
  <1>3. CASE Refuse(p)
    BY <1>0, <1>3, EndsAdvance
  <1>4. ASSUME NEW d \in Docs, CompareTarget(p, d), ~Refuse(p)
        PROVE  FartherOn(p)
    <2>1. /\ pc[p] = "apply" /\ pc'[p] = "replace" /\ d \in txn[p].todo
          /\ txn' = [txn EXCEPT ![p] = [txn[p] EXCEPT !.target = {d},
                                                      !.todo = txn[p].todo \ {d}]]
      BY <1>0, <1>4, GotoShape DEF CompareTarget
    <2>2. txn'[p].mode = txn[p].mode /\ txn'[p].todo = txn[p].todo \ {d}
      <3> DEFINE left == txn[p].todo \ {d}
                 compared == {d}
      <3>1. txn' = [txn EXCEPT ![p] = [txn[p] EXCEPT !.target = compared, !.todo = left]]
        BY <2>1
      <3> HIDE DEF left, compared
      <3>2. SameTxn(p) /\ txn'[p].todo = left
        BY <1>0, <3>1, TargetFields
      <3> QED
        BY <3>2 DEF SameTxn, left
    <2> QED
      BY <1>1, <1>2, <2>1, <2>2 DEF FartherOn
  <1>5. CASE ReplaceTarget(p)
    <2>1. pc[p] = "replace" /\ pc'[p] = "apply" /\ txn' = [txn EXCEPT ![p].target = {}]
      BY <1>0, <1>5, GotoShape DEF ReplaceTarget
    <2>2. txn'[p].mode = txn[p].mode /\ txn'[p].todo = txn[p].todo
      BY <1>0, <2>1, ClearTargetFields DEF SameTxn
    <2> QED
      BY <1>1, <1>2, <2>1, <2>2 DEF FartherOn
  <1> QED
    BY <1>3, <1>4, <1>5

\* The baseline of a commit or a replay, and the end of its journal.
LEMMA BaselinesAdvance ==
    ASSUME StoreInv, NEW p \in Procs, Running(p),
           \/ LocalBaselineTasks(p) \/ WriteLocalBaseline(p) \/ UnlinkJournal(p) \/ Settle(p)
    PROVE  FartherOn(p)
  <1>0. TypeOK
    BY DEF StoreInv
  <1>1. CASE Refuse(p) \/ InspectAndReturn(p)
    BY <1>0, <1>1, EndsAdvance
  <1>2. CASE LocalBaselineTasks(p) /\ ~Refuse(p)
    <2>1. pc[p] = "tasks" /\ pc'[p] = "local" /\ txn' = txn
      BY <1>0, <1>2, GotoShape DEF LocalBaselineTasks
    <2> QED
      BY <2>1, AheadWithin, AheadAdvances
  <1>3. CASE WriteLocalBaseline(p)
    <2>1. /\ pc[p] = "local" /\ pc'[p] = "unlink"
          /\ txn' = [txn EXCEPT ![p] = [txn[p] EXCEPT !.emitted = txn[p].emitted + 1]]
      BY <1>0, <1>3, GotoShape DEF WriteLocalBaseline
    <2>2. txn'[p].mode = txn[p].mode
      BY <1>0, <2>1, EmittedIs
    <2> QED
      BY <2>1, <2>2, AheadWithin, AheadAdvances
  <1>4. CASE UnlinkJournal(p)
    <2>1. /\ pc[p] \in {"unlink", "close"} /\ txn' = txn
          /\ pc'[p] = IF pc[p] = "unlink" THEN "settle" ELSE "saved"
      BY <1>0, <1>4, GotoShape DEF UnlinkJournal
    <2>2. CASE pc[p] = "unlink"
      BY <2>1, <2>2, AheadWithin, AheadAdvances
    <2>3. CASE pc[p] = "close"
      BY <2>1, <2>3, AheadByLabel, AheadAdvances
    <2> QED
      BY <2>1, <2>2, <2>3
  <1>5. CASE Settle(p) /\ ~InspectAndReturn(p)
    <2>1. \/ pc[p] = "settle" /\ txn[p].mode = "commit" /\ InspectAndGoto(p, "saved")
          \/ pc[p] = "settle" /\ txn[p].mode = "recover" /\ Goto(p, "dispatch")
      BY <1>5 DEF Settle
    <2> QED
      BY <1>0, <2>1, InspectionShape, GotoShape, AheadByMode, AheadAdvances
  <1> QED
    BY <1>1, <1>2, <1>3, <1>4, <1>5

\* _commit_prepared_locked with its journal, and the late branch.
LEMMA CommitAdvances ==
    ASSUME StoreInv, NEW p \in Procs, Running(p),
           \/ AssertWritable(p) \/ WriteJournal(p) \/ CommitApplied(p)
           \/ ResolveLateExternalChange(p) \/ CommitReturns(p)
    PROVE  FartherOn(p)
  <1>0. TypeOK /\ ModeFollowed(p)
    BY DEF StoreInv, ProcessInv
  <1>1. CASE Refuse(p) \/ Return(p) \/ InspectAndRefuse(p)
    BY <1>0, <1>1, EndsAdvance
  <1>2. CASE AssertWritable(p) /\ ~InspectAndRefuse(p)
    <2>1. /\ pc[p] \in {"dispatch", "made"} /\ txn[p].mode = "none"
          /\ pc'[p] = "commit"
      BY <1>0, <1>2, InspectionShape DEF AssertWritable, Finds
    <2> QED
      BY <2>1, AheadByLabel, AheadByMode, AheadAdvances
  <1>3. CASE WriteJournal(p)
    <2>1. pc[p] = "commit" /\ pc'[p] = "apply"
      BY <1>0, <1>3, GotoShape DEF WriteJournal
    <2>2. txn'[p].mode = "commit"
      BY <1>0, <1>3, JournaledMode
    <2> QED
      BY <2>1, <2>2, AheadByMode, AheadAdvances
  <1>4. CASE CommitApplied(p) /\ ~Refuse(p)
    <2>1. pc[p] = "apply" /\ pc'[p] \in {"tasks", "hash"} /\ txn' = txn
      BY <1>0, <1>4, GotoShape DEF CommitApplied
    <2> QED
      BY <2>1, AheadWithin, AheadAdvances
  <1>5. CASE ResolveLateExternalChange(p) /\ ~Refuse(p) /\ ~InspectAndRefuse(p)
    <2>1. pc[p] = "late" /\ pc'[p] = "tasks" /\ txn' = txn
      BY <1>0, <1>5, GotoShape DEF ResolveLateExternalChange
    <2>2. txn'[p].mode = "commit"
      BY <1>0, <2>1 DEF ModeFollowed, Publishing, Inspecting
    <2> QED
      BY <2>1, <2>2, AheadByMode, AheadAdvances
  <1>6. CASE CommitReturns(p) /\ ~Return(p) /\ ~Refuse(p)
    <2>1. pc[p] = "saved" /\ pc'[p] = "finish"
      BY <1>0, <1>6, GotoShape DEF CommitReturns
    <2> QED
      BY <2>1, AheadByLabel, AheadAdvances
  <1> QED
    BY <1>1, <1>2, <1>3, <1>4, <1>5, <1>6

\* _write_committed_manifest_locked, of a commit, an initialization or an acceptance.
LEMMA ManifestAdvances ==
    ASSUME StoreInv, NEW p \in Procs, Running(p),
           \/ HashDocuments(p) \/ NoticeLateChange(p) \/ ValidateDocuments(p)
           \/ RehashDocuments(p) \/ PublishManifest(p)
    PROVE  FartherOn(p)
  <1>0. TypeOK /\ ModeFollowed(p)
    BY DEF StoreInv, ProcessInv
  <1>1. CASE Refuse(p)
    BY <1>0, <1>1, EndsAdvance
  <1>2. CASE HashDocuments(p) /\ ~Refuse(p)
    <2>1. CASE Goto(p, "inspect") /\ txn' = txn
      <3>1. pc[p] = "hash" /\ pc'[p] = "inspect"
        BY <1>0, <1>2, <2>1, GotoShape DEF HashDocuments
      <3> QED
        BY <2>1, <3>1, AheadWithin, AheadAdvances
    <2>2. CASE txn' = [txn EXCEPT ![p].snap = docs] /\ Goto(p, "validate")
      <3>1. pc[p] = "hash" /\ pc'[p] = "validate" /\ txn'[p].mode = txn[p].mode
        BY <1>0, <1>2, <2>2, GotoShape, SnapKeeps DEF HashDocuments
      <3> QED
        BY <3>1, AheadWithin, AheadAdvances
    <2> QED
      BY <1>2, <2>1, <2>2 DEF HashDocuments
  <1>3. CASE (ValidateDocuments(p) \/ RehashDocuments(p)) /\ ~Refuse(p)
    <2>1. /\ \/ pc[p] = "validate" /\ pc'[p] = "rehash"
             \/ pc[p] = "rehash" /\ pc'[p] = "publish"
          /\ txn' = txn
      BY <1>0, <1>3, GotoShape DEF ValidateDocuments, RehashDocuments
    <2> QED
      BY <2>1, AheadWithin, AheadAdvances
  <1>5. CASE NoticeLateChange(p)
    <2>1. pc[p] \in {"inspect", "made"} /\ txn[p].mode = "commit" /\ pc'[p] = "late"
      BY <1>0, <1>5, InspectionShape DEF NoticeLateChange, Finds
    <2> QED
      BY <2>1, AheadByMode, AheadAdvances
  <1>4. CASE PublishManifest(p)
    <2>1. /\ pc[p] = "publish"
          /\ txn' = [txn EXCEPT ![p] = [txn[p] EXCEPT !.snap = NoFiles,
                                                      !.emitted = txn[p].emitted + 1]]
          /\ pc'[p] = CASE txn[p].mode = "commit" -> "close"
                        [] txn[p].mode = "finish" -> "settle"
                        [] OTHER                  -> "receipt"
      BY <1>0, <1>4, GotoShape DEF PublishManifest
    <2>2. txn'[p].mode = txn[p].mode
      BY <1>0, <2>1, EmittedIs
    <2>3. CASE txn[p].mode = "commit"
      BY <2>1, <2>2, <2>3, AheadByMode, AheadAdvances
    <2>4. CASE txn[p].mode = "finish"
      <3>1. pc'[p] = "settle"
        BY <2>1, <2>4
      <3> QED
        BY <2>1, <2>2, <2>4, <3>1, AheadByMode, AheadAdvances
    <2>5. CASE txn[p].mode = "adopt"
      <3>1. pc'[p] = "receipt"
        BY <2>1, <2>5
      <3> QED
        BY <2>1, <2>2, <2>5, <3>1, AheadByMode, AheadAdvances
    <2> QED
      BY <1>0, <2>1, <2>3, <2>4, <2>5 DEF ModeFollowed, Publishing, Inspecting
  <1> QED
    BY <1>1, <1>2, <1>3, <1>4, <1>5

\* _ensure_sync_manifest_locked.
LEMMA FirstBaselineAdvances ==
    ASSUME StoreInv, NEW p \in Procs, Running(p), ValidateFirst(p) \/ EstablishBaseline(p)
    PROVE  FartherOn(p)
  <1>0. TypeOK /\ ModeFollowed(p)
    BY DEF StoreInv, ProcessInv
  <1>1. CASE Refuse(p)
    BY <1>0, <1>1, EndsAdvance
  <1>2. CASE ValidateFirst(p) /\ ~Refuse(p)
    <2> DEFINE mode == IF pc[p] = "finish" THEN "finish" ELSE txn[p].mode
    <2>1. /\ pc[p] \in {"dispatch", "inspect", "finish"} /\ Goto(p, "first")
          /\ txn' = [txn EXCEPT ![p].mode = mode]
      BY <1>2 DEF ValidateFirst
    <2>2. /\ pc[p] = "finish" => mode = "finish"
          /\ pc[p] = "dispatch" => mode = "none"
          /\ pc[p] = "inspect" => mode = txn[p].mode
      BY <1>0, SMT DEF ModeFollowed
    <2> HIDE DEF mode
    <2>3. pc'[p] = "first" /\ txn'[p].mode = mode
      BY <1>0, <2>1, GotoShape, ModeKeeps
    <2>4. CASE pc[p] = "finish"
      BY <2>2, <2>3, <2>4, AheadByMode, AheadAdvances
    <2>5. CASE pc[p] = "dispatch"
      BY <2>2, <2>3, <2>5, AheadByMode, AheadAdvances
    <2>6. CASE pc[p] = "inspect"
      BY <2>2, <2>3, <2>6, AheadWithin, AheadAdvances
    <2> QED
      BY <2>1, <2>4, <2>5, <2>6
  <1>3. CASE EstablishBaseline(p) /\ ~Refuse(p)
    <2>1. pc[p] = "first" /\ pc'[p] = "made" /\ txn' = txn
      BY <1>0, <1>3, GotoShape DEF EstablishBaseline
    <2> QED
      BY <2>1, AheadWithin, AheadAdvances
  <1> QED
    BY <1>1, <1>2, <1>3

\* initialize, load, server_lease, consistent_read and adopt_external_change.
LEMMA OperationsAdvance ==
    ASSUME StoreInv, NEW p \in Procs, Running(p),
           \/ ServerStarted(p) \/ InitializeFresh(p) \/ AdmitExisting(p)
           \/ FinishInitialization(p) \/ (\E d \in Docs : LoadDocument(p, d)) \/ FinishRead(p)
           \/ LoadInspected(p) \/ StatusShown(p)
           \/ ReviewAdoption(p) \/ ConfirmAdoption(p) \/ WriteReceipt(p)
    PROVE  FartherOn(p)
  <1>0. TypeOK /\ ModeFollowed(p)
    BY DEF StoreInv, ProcessInv
  <1>1. CASE Refuse(p) \/ Return(p) \/ InspectAndReturn(p) \/ InspectAndRefuse(p)
    BY <1>0, <1>1, EndsAdvance
  <1>2. CASE \/ ServerStarted(p) \/ FinishRead(p) \/ LoadInspected(p) \/ StatusShown(p)
    BY <1>1, <1>2 DEF ServerStarted, FinishRead, LoadInspected, StatusShown
  <1>3. ASSUME NEW d \in Docs, LoadDocument(p, d), ~Refuse(p), ~Return(p)
        PROVE  FartherOn(p)
    <2>1. pc[p] = "dispatch" /\ pc'[p] = "inspect" /\ txn' = txn
      BY <1>0, <1>3, GotoShape DEF LoadDocument
    <2>2. txn'[p].mode = "none"
      BY <1>0, <2>1 DEF ModeFollowed
    <2> QED
      BY <2>1, <2>2, AheadByMode, AheadAdvances
  <1>4. CASE InitializeFresh(p) \/ (AdmitExisting(p) /\ ~Refuse(p))
    <2>1. pc[p] = "dispatch" /\ pc'[p] \in {"commit", "finish"}
      BY <1>0, <1>4, GotoShape DEF InitializeFresh, AdmitExisting
    <2> QED
      BY <2>1, AheadByLabel, AheadAdvances
  <1>5. CASE FinishInitialization(p) /\ ~Refuse(p) /\ ~InspectAndReturn(p)
    <2>1. /\ pc[p] = "finish" /\ Goto(p, "hash")
          /\ txn' = [txn EXCEPT ![p].mode = "finish"]
      BY <1>5 DEF FinishInitialization
    <2>2. pc'[p] = "hash" /\ txn'[p].mode = "finish"
      BY <1>0, <2>1, GotoShape, ModeFields
    <2> QED
      BY <2>1, <2>2, AheadByMode, AheadAdvances
  <1>6. CASE ReviewAdoption(p) /\ ~InspectAndReturn(p) /\ ~InspectAndRefuse(p)
    <2>1. /\ pc[p] \in {"dispatch", "made"} /\ txn[p].mode = "none"
          /\ pc'[p] = "confirm"
      BY <1>0, <1>6, InspectionShape DEF ReviewAdoption, Finds
    <2> QED
      BY <2>1, AheadByLabel, AheadByMode, AheadAdvances
  <1>7. CASE ConfirmAdoption(p) /\ ~InspectAndRefuse(p)
    <2>1. /\ pc[p] = "confirm" /\ Goto(p, "hash")
          /\ txn' = [txn EXCEPT ![p].mode = "adopt"]
      BY <1>7 DEF ConfirmAdoption
    <2>2. pc'[p] = "hash" /\ txn'[p].mode = "adopt"
      BY <1>0, <2>1, GotoShape, ModeFields
    <2> QED
      BY <2>1, <2>2, AheadByMode, AheadAdvances
  <1>8. CASE WriteReceipt(p)
    <2>1. pc[p] = "receipt" /\ pc'[p] = "settle" /\ txn' = txn
      BY <1>0, <1>8, GotoShape DEF WriteReceipt
    <2>2. txn[p].mode = "adopt"
      BY <1>0, <2>1 DEF ModeFollowed, Publishing, Inspecting
    <2> QED
      BY <2>1, <2>2, AheadByMode, AheadAdvances
  <1> QED
    BY <1>1, <1>2, <1>3, <1>4, <1>5, <1>6, <1>7, <1>8

LEMMA StepAdvances ==
    ASSUME StoreInv, NEW p \in Procs, Step(p)
    PROVE  FartherOn(p)
  <1>1. Running(p)
    BY StepRuns
  <1> QED
    BY <1>1, RecoveryAdvances, TargetsAdvance, BaselinesAdvance, CommitAdvances,
       ManifestAdvances, FirstBaselineAdvances, OperationsAdvance DEF Step

\* The calls of a program are made between two transactions of its own.
LEMMA CallIsIdle ==
    ASSUME NEW p \in Procs, Call(p)
    PROVE  ~Running(p)
  BY DEF Call, Running, StartServer, Initialize, Load, AdoptExternalChange, SyncStatus,
         RetainLease, ReleaseLease, Exit, ConsistentRead, SaveMany, Enter

\* While one program is inside a transaction, the others have nothing to move.
LEMMA OthersStandStill ==
    ASSUME StoreInv, StoreInv', NEW p \in Procs, Running(p), NEW q \in Procs \ {p},
           Call(q) \/ Step(q) \/ Crash(q) \/ FileFails(q)
    PROVE  UNCHANGED <<pc[p], txn[p]>>
  <1>1. lease = p /\ lease # q /\ lease # NoProc
    BY RunningHolds, ProcsAssumption
  <1>2. ~Running(q)
    BY <1>1, RunningHolds
  <1>3. Exit(q)
    BY <1>1, <1>2, StepRuns, CallHolds DEF Crash, FileFails
  <1> QED
    BY <1>3 DEF Exit

\* No transaction goes back, for any number of programs, documents, edits and faults:
\* the branches of _recover_locked, _commit_prepared_locked, initialize and
\* adopt_external_change only lead on, and each pass over the targets leaves fewer.
THEOREM TransactionsAdvanceHolds == Spec => TransactionsAdvance
  <1> DEFINE Advances == \A p \in Procs :
                             Running(p) => FartherOn(p) \/ UNCHANGED <<pc[p], txn[p]>>
  <1>1. ASSUME StoreInv, StoreInv', [Next]_vars
        PROVE  Advances
    <2> SUFFICES ASSUME NEW p \in Procs, Running(p)
                 PROVE  FartherOn(p) \/ UNCHANGED <<pc[p], txn[p]>>
      OBVIOUS
    <2>1. CASE \E q \in Procs \ {p} : Call(q) \/ Step(q) \/ Crash(q) \/ FileFails(q)
      BY <1>1, <2>1, OthersStandStill
    <2>2. CASE Call(p) \/ Step(p)
      BY <1>1, <2>2, CallIsIdle, StepAdvances
    <2>3. CASE Crash(p) \/ FileFails(p)
      <3>1. pc'[p] = "idle"
        BY <1>1, <2>3, GotoShape DEF Crash, FileFails, StoreInv
      <3> QED
        BY <1>1, <3>1, EndAdvances DEF StoreInv
    <2>4. CASE External
      BY <2>4 DEF External, ExternalEdit
    <2>5. CASE UNCHANGED vars
      BY <2>5 DEF vars
    <2> QED
      BY <1>1, <2>1, <2>2, <2>3, <2>4, <2>5 DEF Next
  <1>2. StoreInv /\ StoreInv' /\ [Next]_vars => [Advances]_vars
    BY <1>1
  <1> QED
    BY <1>2, StoreInvariant, PTL DEF Spec, TransactionsAdvance

=============================================================================
