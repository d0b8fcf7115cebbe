------------------------ MODULE V4WriteSessionProofs ------------------------
(***************************************************************************)
(* The write session keeps its authority whole for any programs,           *)
(* artifacts, bodies, faults and external edits: the invariant of          *)
(* V4WriteSession, and that it implements AtomicAuthority.                 *)
(***************************************************************************)
EXTENDS V4WriteSession, TLAPS

-----------------------------------------------------------------------------
(* The values the steps assign are of the right type. *)

LEMMA Constants ==
    /\ NoProc \notin Procs
    /\ Ledger \notin Artifacts /\ Ledger \in Targets /\ Artifacts \subseteq Targets
    /\ Artifacts # {}
    /\ 0 \in Bodies /\ Absent \in Bodies /\ ExternalBodies \subseteq Bodies
    /\ Torn \notin Bodies
    /\ MaxCommits \in Nat /\ RawRace \in BOOLEAN
  <1>1. 0 \in 0 .. MaxCommits /\ 0 .. MaxCommits \subseteq Nat
    BY LimitsAssumption, SMT
  <1> QED
    BY <1>1, ProcessesAssumption, ArtifactsAssumption, ContentAssumption,
       LimitsAssumption, Zenon DEF Targets, Bodies, Own

LEMMA WritesAre ==
    ASSUME NEW w \in Writes
    PROVE  /\ DOMAIN w \in SUBSET Targets
           /\ \A t \in DOMAIN w : w[t] \in Bodies
  <1>1. PICK S \in SUBSET Targets : w \in [S -> Bodies]
    BY Zenon DEF Writes
  <1> QED
    BY <1>1

LEMMA WritesOf ==
    ASSUME NEW S \in SUBSET Targets, NEW w \in [S -> Bodies]
    PROVE  w \in Writes
  BY Zenon DEF Writes

LEMMA NoWritesType ==
    /\ NoWrites \in Writes
    /\ DOMAIN NoWrites = {}
    /\ NoWrites \notin Rosters
  <1>1. NoWrites \in [{} -> Bodies] /\ DOMAIN NoWrites = {}
    BY DEF NoWrites
  <1>2. NoWrites \in Writes
    BY <1>1, WritesOf
  <1>3. NoWrites \notin Rosters
    BY <1>1, Constants DEF Rosters
  <1> QED
    BY <1>1, <1>2, <1>3

LEMMA ManifestFields ==
    ASSUME NEW m \in Manifests
    PROVE  m.generation \in Nat /\ m.roster \in Rosters \cup {NoWrites}
  BY SMT DEF Manifests

LEMMA ManifestOf ==
    ASSUME NEW g \in Nat, NEW r \in Rosters \cup {NoWrites}
    PROVE  /\ Manifest(g, r) \in Manifests
           /\ Manifest(g, r).generation = g /\ Manifest(g, r).roster = r
  BY SMT DEF Manifest, Manifests

LEMMA NoManifestType ==
    /\ NoManifest \in Manifests
    /\ NoManifest.generation = 0 /\ NoManifest.roster = NoWrites
  BY ManifestOf DEF NoManifest

LEMMA JournalFields ==
    ASSUME NEW j \in Journals
    PROVE  /\ j.phase \in Phases /\ j.base \in Manifests /\ j.want \in Manifests
           /\ j.expect \in Writes /\ j.writes \in Writes
  BY SMT DEF Journals

LEMMA JournalPhase ==
    ASSUME NEW j \in Journals, NEW g \in Phases
    PROVE  LET k == [j EXCEPT !.phase = g]
           IN /\ k \in Journals
              /\ k.phase = g /\ k.base = j.base /\ k.want = j.want
              /\ k.expect = j.expect /\ k.writes = j.writes
  BY SMT DEF Journals

LEMMA NoJournalType ==
    /\ NoJournal \in Journals /\ NoJournal.phase = "none"
    /\ NoJournal.writes = NoWrites
  <1>1. NoJournal.phase = "none" /\ NoJournal.writes = NoWrites
    BY DEF NoJournal
  <1> QED
    BY <1>1, NoManifestType, NoWritesType, SMT DEF NoJournal, Journals, Phases

LEMMA MemFields ==
    ASSUME NEW m \in Mems
    PROVE  m.base \in Manifests /\ m.ledger \in Bodies /\ m.admitted \in BOOLEAN
  BY SMT DEF Mems

LEMMA UnboundType ==
    /\ Unbound \in Mems
    /\ Unbound.base = NoManifest /\ Unbound.ledger = Absent /\ ~Unbound.admitted
  <1>1. /\ Unbound.base = NoManifest /\ Unbound.ledger = Absent
        /\ Unbound.admitted = FALSE
    BY DEF Unbound
  <1> QED
    BY <1>1, NoManifestType, Constants, SMT DEF Unbound, Mems

LEMMA TxnFields ==
    ASSUME NEW x \in Txns
    PROVE  /\ x.op \in {"none", "load", "admit", "execute"}
           /\ x.base \in Manifests /\ x.ledger \in Bodies
           /\ x.writes \in Writes /\ x.expect \in Writes /\ x.want \in Manifests
           /\ x.goal \in Phases /\ x.todo \in SUBSET Targets
           /\ x.staged \in SUBSET Targets /\ x.target \in SUBSET Targets
  BY SMT DEF Txns

LEMMA NoTxnType ==
    /\ NoTxn \in Txns
    /\ NoTxn.op = "none" /\ NoTxn.goal = "none" /\ NoTxn.todo = {}
    /\ NoTxn.target = {} /\ NoTxn.base = NoManifest
  <1>1. /\ NoTxn.op = "none" /\ NoTxn.goal = "none" /\ NoTxn.todo = {}
        /\ NoTxn.target = {} /\ NoTxn.base = NoManifest
    BY DEF NoTxn
  <1> QED
    BY <1>1, NoManifestType, NoWritesType, Constants, SMT DEF NoTxn, Txns, Phases

-----------------------------------------------------------------------------
(* What each step does to a transaction, field by field. *)

\* The parts of a call no step of a session changes.
SameDraft(x, y) ==
    /\ y.op = x.op /\ y.writes = x.writes /\ y.expect = x.expect
    /\ y.want = x.want

LEMMA TxnOp ==
    ASSUME NEW x \in Txns, NEW op \in {"load", "admit"}
    PROVE  LET y == [x EXCEPT !.op = op]
           IN y \in Txns /\ y.op = op /\ y.goal = x.goal
  BY SMT DEF Txns

LEMMA TxnBase ==
    ASSUME NEW x \in Txns, NEW m \in Manifests
    PROVE  LET y == [x EXCEPT !.base = m]
           IN y \in Txns /\ y.op = x.op /\ y.base = m
  BY SMT DEF Txns

LEMMA TxnLedger ==
    ASSUME NEW x \in Txns, NEW l \in Bodies
    PROVE  LET y == [x EXCEPT !.ledger = l]
           IN y \in Txns /\ y.op = x.op /\ y.base = x.base /\ y.ledger = l
  BY SMT DEF Txns

LEMMA TxnGoal ==
    ASSUME NEW x \in Txns, NEW g \in Phases
    PROVE  LET y == [x EXCEPT !.goal = g]
           IN y \in Txns /\ SameDraft(x, y) /\ y.goal = g /\ y.todo = x.todo
  BY SMT DEF Txns, SameDraft

LEMMA TxnVerified ==
    ASSUME NEW x \in Txns, NEW S \in SUBSET Targets
    PROVE  LET y == [x EXCEPT !.goal = "applying", !.todo = S]
           IN y \in Txns /\ SameDraft(x, y) /\ y.goal = "applying" /\ y.todo = S
  <1> DEFINE y == [x EXCEPT !.goal = "applying", !.todo = S]
  <1>1. "applying" \in Phases
    BY DEF Phases
  <1>2. y \in Txns
    BY <1>1, Zenon DEF Txns
  <1>3. SameDraft(x, y) /\ y.goal = "applying" /\ y.todo = S
    BY SMT DEF Txns, SameDraft
  <1> QED
    BY <1>2, <1>3, Zenon

LEMMA TxnTodo ==
    ASSUME NEW x \in Txns, NEW S \in SUBSET Targets
    PROVE  LET y == [x EXCEPT !.todo = S]
           IN y \in Txns /\ SameDraft(x, y) /\ y.todo = S
  BY SMT DEF Txns, SameDraft

LEMMA TxnTarget ==
    ASSUME NEW x \in Txns, NEW S \in SUBSET Targets
    PROVE  LET y == [x EXCEPT !.target = S]
           IN y \in Txns /\ SameDraft(x, y) /\ y.todo = x.todo /\ y.target = S
  BY SMT DEF Txns, SameDraft

LEMMA TxnFilled ==
    ASSUME NEW x \in Txns, NEW S \in SUBSET Targets, NEW R \in SUBSET Targets
    PROVE  LET y == [x EXCEPT !.todo = S, !.staged = R, !.target = {}]
           IN y \in Txns /\ SameDraft(x, y) /\ y.todo = S /\ y.target = {}
  <1> DEFINE y == [x EXCEPT !.todo = S, !.staged = R, !.target = {}]
  <1>1. {} \in SUBSET Targets
    OBVIOUS
  <1>2. y \in Txns
    BY <1>1, Zenon DEF Txns
  <1>3. SameDraft(x, y) /\ y.todo = S /\ y.target = {}
    BY SMT DEF Txns, SameDraft
  <1> QED
    BY <1>2, <1>3, Zenon

LEMMA TxnCompared ==
    ASSUME NEW x \in Txns, NEW S \in SUBSET Targets, NEW R \in SUBSET Targets
    PROVE  LET y == [x EXCEPT !.todo = S, !.target = R]
           IN y \in Txns /\ SameDraft(x, y) /\ y.todo = S /\ y.target = R
  <1> DEFINE y == [x EXCEPT !.todo = S, !.target = R]
  <1>1. y \in Txns
    BY Zenon DEF Txns
  <1>2. SameDraft(x, y) /\ y.todo = S /\ y.target = R
    BY SMT DEF Txns, SameDraft
  <1> QED
    BY <1>1, <1>2, Zenon

LEMMA TxnUnstaged ==
    ASSUME NEW x \in Txns
    PROVE  LET y == [x EXCEPT !.staged = {}]
           IN y \in Txns /\ SameDraft(x, y) /\ y.todo = x.todo
  BY SMT DEF Txns, SameDraft

-----------------------------------------------------------------------------
(* Steps beside other processes. *)

Txn(p, r) == r \in Txns /\ txn' = [txn EXCEPT ![p] = r]

\* No other process moves.
Alone(p) ==
    \A q \in Procs \ {p} : pc'[q] = pc[q] /\ txn'[q] = txn[q] /\ mem'[q] = mem[q]
\* The lease is kept, taken or left as the labels say.
LeaseMoves(p) ==
    \/ lease' = lease /\ (pc'[p] \in Leased <=> pc[p] \in Leased)
    \/ lease = NoProc /\ lease' = p /\ pc'[p] \in Leased
    \/ lease' = Freed(p) /\ pc'[p] \notin Leased
Still == UNCHANGED <<files, author, stage, journal, manifest, recorded>>
\* A ledger that belongs to the manifest goes on doing so while it is in force.
Onward ==
    /\ used'.edits = used.edits
    /\ manifest.generation <= manifest'.generation
    /\ manifest'.generation = manifest.generation =>
          /\ manifest' = manifest /\ recorded' = recorded
          /\ \A l \in Bodies : LedgerOf(l) => LedgerOf(l)'

LEMMA StillIsOnward ==
    ASSUME TypeOK, Still, used'.edits = used.edits
    PROVE  Onward
  <1>1. manifest.generation \in Nat
    BY ManifestFields DEF TypeOK
  <1>2. \A l \in Bodies : LedgerOf(l) => LedgerOf(l)'
    BY DEF Still, LedgerOf, Pending, InWrites
  <1> QED
    BY <1>1, <1>2, SMT DEF Onward, Still

LEMMA LeaseKept ==
    ASSUME TypeOK, TypeOK', LeaseHeld, NEW p \in Procs, Alone(p), LeaseMoves(p)
    PROVE  LeaseHeld'
  BY Constants, SMT DEF TypeOK, LeaseHeld, Alone, LeaseMoves, Freed

\* What a process is bound to outlives every step that moves the authority on.
LEMMA BindingsKept ==
    ASSUME TypeOK, TypeOK', NEW q \in Procs, BindingsSound(q), Onward,
           manifest'.roster \in Rosters,
           mem'[q] = mem[q] \/ mem'[q] = Unbound,
           pc'[q] \in {"ledger", "physical"} =>
               pc'[q] = pc[q] /\ txn'[q] = txn[q]
    PROVE  BindingsSound(q)'
  <1>1. /\ manifest.generation \in Nat /\ manifest'.generation \in Nat
        /\ mem[q] \in Mems /\ txn[q] \in Txns
    BY ManifestFields DEF TypeOK
  <1>2. /\ mem[q].base.generation \in Nat /\ txn[q].base.generation \in Nat
        /\ mem[q].ledger \in Bodies /\ txn[q].ledger \in Bodies
    BY <1>1, MemFields, TxnFields, ManifestFields
  <1>3. \A g \in Nat, l \in Bodies : Binding(g, l) => Binding(g, l)'
    BY <1>1, SMT DEF Binding, Onward
  <1>4. pc'[q] = "ledger" => txn'[q].base.generation <= manifest'.generation
    BY <1>1, <1>2, SMT DEF BindingsSound, Onward
  <1>5. pc'[q] = "physical" => Binding(txn[q].base.generation, txn[q].ledger)'
    BY <1>2, <1>3 DEF BindingsSound
  <1>6. CASE mem'[q] = mem[q]
    <2>1. ASSUME mem'[q].base # NoManifest
          PROVE  /\ mem'[q].base.roster \in Rosters
                 /\ mem'[q].base.generation <= manifest'.generation
                 /\ ~mem'[q].admitted =>
                       Binding(mem[q].base.generation, mem[q].ledger)'
      <3>1. /\ mem[q].base.roster \in Rosters
            /\ mem[q].base.generation <= manifest.generation
            /\ ~mem[q].admitted => Binding(mem[q].base.generation, mem[q].ledger)
        BY <1>6, <2>1 DEF BindingsSound
      <3>2. ~mem[q].admitted => Binding(mem[q].base.generation, mem[q].ledger)'
        BY <1>1, <1>2, <1>6, <3>1, SMT
           DEF Onward, Binding, LedgerOf, Pending, InWrites
      <3> QED
        BY <1>1, <1>2, <1>6, <3>1, <3>2, SMT DEF Onward
    <2>2. (mem[q].base = manifest' /\ ~mem[q].admitted /\ used'.edits = 0)
              => mem[q].ledger = recorded'
      <3>1. mem[q].base.generation <= manifest.generation
        BY <1>1, NoManifestType, SMT DEF BindingsSound
      <3> QED
        BY <1>1, <1>2, <3>1, SMT DEF BindingsSound, Onward
    <2> QED
      BY <1>4, <1>5, <1>6, <2>1, <2>2 DEF BindingsSound
  <1>7. CASE mem'[q] = Unbound
    <2>1. Unbound.base = NoManifest /\ manifest' # NoManifest
      BY UnboundType, NoManifestType, NoWritesType
    <2> QED
      BY <1>4, <1>5, <1>7, <2>1 DEF BindingsSound
  <1> QED
    BY <1>6, <1>7

\* What is true of a process stays true beside the session, and beside any
\* process that leaves the files alone.
LEMMA OthersKept ==
    ASSUME WriteSessionInv, TypeOK', NEW p \in Procs, Alone(p), Onward,
           manifest'.roster \in Rosters, NEW q \in Procs \ {p},
           Still \/ pc[q] \notin Leased
    PROVE  ProcessSound(q)'
  <1>1. TypeOK /\ ProcessSound(q)
    BY DEF WriteSessionInv
  <1>2. pc'[q] = pc[q] /\ txn'[q] = txn[q] /\ mem'[q] = mem[q]
    BY DEF Alone
  <1>3. BindingsSound(q)'
    BY <1>1, <1>2, BindingsKept DEF ProcessSound
  <1>4. txn[q].want.generation \in Nat
    BY <1>1, TxnFields, ManifestFields DEF TypeOK
  <1>5. manifest.generation \in Nat /\ manifest'.generation \in Nat
    BY <1>1, ManifestFields DEF TypeOK
  <1>6. ASSUME Drafts(q)'
        PROVE  DraftSound(q)'
    <2>1. Drafts(q)
      BY <1>2, <1>6 DEF Drafts
    <2>2. DraftSound(q)
      BY <1>1, <2>1 DEF ProcessSound
    <2>3. \A t \in DOMAIN txn[q].expect : txn[q].expect[t] \in Bodies
      BY <1>1, TxnFields, WritesAre DEF TypeOK
    <2>4. /\ txn[q].todo = {}
          /\ txn[q].want.roster \in Rosters
          /\ DOMAIN txn[q].expect = DOMAIN txn[q].writes
          /\ ByArtifact(txn[q].writes) # {}
      BY <2>2 DEF DraftSound
    <2>5. txn[q].want.generation <= manifest'.generation + 1
      BY <1>4, <1>5, <2>2, SMT DEF DraftSound, Onward
    <2>6. ASSUME Ledger \in DOMAIN txn[q].writes,
                 txn[q].want.generation = manifest'.generation + 1
          PROVE  LedgerOf(txn[q].expect[Ledger])'
      <3>1. manifest'.generation = manifest.generation
        BY <1>4, <1>5, <2>2, <2>6, SMT DEF DraftSound, Onward
      <3>2. LedgerOf(txn[q].expect[Ledger])
        BY <2>2, <2>6, <3>1 DEF DraftSound
      <3> DEFINE l == txn[q].expect[Ledger]
      <3>3. l \in Bodies /\ txn'[q].expect[Ledger] = l
        BY <1>2, <2>3, <2>4, <2>6
      <3> QED
        BY <3>1, <3>2, <3>3, SMT DEF Onward, LedgerOf, Pending, InWrites
    <2> QED
      BY <1>2, <2>4, <2>5, <2>6, SMT DEF DraftSound, ByArtifact
  <1>7. SessionSound(q)'
    <2>1. CASE pc[q] \notin Leased
      BY <1>2, <2>1, SMT DEF SessionSound, Leased
    <2>2. CASE Still
      BY <1>1, <1>2, <2>2, SMT
         DEF ProcessSound, SessionSound, Still, Onward, Before, After, Applied,
             LedgerApplied, TransitionValid, RosterTransitionValid, Readable,
             Pending, InWrites, BySession
    <2> QED
      BY <2>1, <2>2
  <1>8. /\ pc'[q] = "idle" => txn'[q] = NoTxn
        /\ pc'[q] \in {"admit", "state", "ledger", "physical"} =>
              txn'[q].op # "execute"
    BY <1>1, <1>2 DEF ProcessSound
  <1> QED
    BY <1>3, <1>6, <1>7, <1>8 DEF ProcessSound

\* A step keeps the invariant if it keeps what it says of the files and of the
\* process itself.
LEMMA StepKeeps ==
    ASSUME WriteSessionInv, TypeOK', NEW p \in Procs, Alone(p), Onward,
           LeaseMoves(p), Still \/ pc[p] \in Leased,
           JournalSound', FilesSound', ProcessSound(p)'
    PROVE  WriteSessionInv'
  <1>1. LeaseHeld'
    BY LeaseKept DEF WriteSessionInv
  <1>2. manifest'.roster \in Rosters
    BY DEF JournalSound
  <1>3. ASSUME NEW q \in Procs \ {p}
        PROVE  ProcessSound(q)'
    <2>1. Still \/ pc[q] \notin Leased
      BY DEF WriteSessionInv, LeaseHeld
    <2> QED
      BY <1>2, <2>1, OthersKept
  <1>4. \A q \in Procs : ProcessSound(q)'
    BY <1>3
  <1> QED
    BY <1>1, <1>4 DEF WriteSessionInv

LEMMA StillKeeps ==
    ASSUME WriteSessionInv, TypeOK', NEW p \in Procs, Alone(p), Still,
           used'.edits = used.edits, LeaseMoves(p), ProcessSound(p)'
    PROVE  WriteSessionInv'
  <1>1. Onward
    BY StillIsOnward DEF WriteSessionInv
  <1>2. JournalSound'
    BY DEF WriteSessionInv, Still, JournalSound, Pending, Unambiguous, Published
  <1>3. FilesSound'
    BY SMT DEF WriteSessionInv, Still, FilesSound, FilesBefore, FilesAfter,
       LedgerLast, Pending, InWrites, BySession, Readable
  <1> QED
    BY <1>1, <1>2, <1>3, StepKeeps

\* A process that is between calls.
LEMMA IdleSound ==
    ASSUME TypeOK', NEW p \in Procs, pc'[p] = "idle", txn'[p] = NoTxn,
           BindingsSound(p)'
    PROVE  ProcessSound(p)'
  BY SMT DEF ProcessSound, Drafts, SessionSound

LEMMA PcMoves ==
    ASSUME TypeOK, NEW p \in Procs, NEW label \in Labels, Goto(p, label)
    PROVE  /\ pc' \in [Procs -> Labels] /\ pc'[p] = label
           /\ \A q \in Procs \ {p} : pc'[q] = pc[q]
  BY DEF TypeOK, Goto

LEMMA TxnMoves ==
    ASSUME TypeOK, NEW p \in Procs, NEW r, Txn(p, r)
    PROVE  /\ txn' \in [Procs -> Txns] /\ txn'[p] = r
           /\ \A q \in Procs \ {p} : txn'[q] = txn[q]
  BY DEF TypeOK, Txn

LEMMA MemMoves ==
    ASSUME TypeOK, NEW p \in Procs, NEW m \in Mems, mem' = [mem EXCEPT ![p] = m]
    PROVE  /\ mem' \in [Procs -> Mems] /\ mem'[p] = m
           /\ \A q \in Procs \ {p} : mem'[q] = mem[q]
  BY DEF TypeOK

LEMMA ProcessTypes ==
    ASSUME TypeOK, NEW p \in Procs
    PROVE  pc[p] \in Labels /\ txn[p] \in Txns /\ mem[p] \in Mems
  BY DEF TypeOK

LEMMA LabelStep ==
    ASSUME TypeOK, NEW p \in Procs, NEW label \in Labels, Goto(p, label),
           UNCHANGED <<txn, mem>>
    PROVE  /\ Alone(p)
           /\ pc' \in [Procs -> Labels] /\ txn' \in [Procs -> Txns]
           /\ mem' \in [Procs -> Mems]
           /\ pc'[p] = label /\ txn'[p] = txn[p] /\ mem'[p] = mem[p]
  BY PcMoves DEF Alone, TypeOK

LEMMA TxnStep ==
    ASSUME TypeOK, NEW p \in Procs, NEW label \in Labels, Goto(p, label),
           NEW r, Txn(p, r), UNCHANGED mem
    PROVE  /\ Alone(p)
           /\ pc' \in [Procs -> Labels] /\ txn' \in [Procs -> Txns]
           /\ mem' \in [Procs -> Mems]
           /\ pc'[p] = label /\ txn'[p] = r /\ mem'[p] = mem[p]
  BY PcMoves, TxnMoves DEF Alone, TypeOK

LEMMA MemStep ==
    ASSUME TypeOK, NEW p \in Procs, NEW label \in Labels, Goto(p, label),
           NEW r, Txn(p, r), NEW m \in Mems, mem' = [mem EXCEPT ![p] = m]
    PROVE  /\ Alone(p)
           /\ pc' \in [Procs -> Labels] /\ txn' \in [Procs -> Txns]
           /\ mem' \in [Procs -> Mems]
           /\ pc'[p] = label /\ txn'[p] = r /\ mem'[p] = m
  BY PcMoves, TxnMoves, MemMoves DEF Alone, TypeOK

\* An exception leaves the process between calls and the lease free.
LEMMA LeaveEffects ==
    ASSUME TypeOK, NEW p \in Procs, Leave(p)
    PROVE  /\ Alone(p) /\ LeaseMoves(p)
           /\ pc' \in [Procs -> Labels] /\ txn' \in [Procs -> Txns]
           /\ mem' \in [Procs -> Mems] /\ lease' \in Procs \cup {NoProc}
           /\ pc'[p] = "idle" /\ txn'[p] = NoTxn /\ mem'[p] = mem[p]
  <1>1. "idle" \in Labels /\ "idle" \notin Leased
    BY DEF Labels, Leased
  <1>2. Goto(p, "idle") /\ Txn(p, NoTxn) /\ UNCHANGED mem /\ lease' = Freed(p)
    BY NoTxnType DEF Leave, Txn
  <1>3. lease' \in Procs \cup {NoProc}
    BY <1>2 DEF TypeOK, Freed
  <1> QED
    BY <1>1, <1>2, <1>3, TxnStep DEF LeaseMoves

LEMMA RefuseKeeps ==
    ASSUME WriteSessionInv, NEW p \in Procs, Refuse(p)
    PROVE  WriteSessionInv'
  <1>1. TypeOK /\ Leave(p) /\ Still /\ UNCHANGED <<jstage, used>>
    BY DEF WriteSessionInv, Refuse, Leave, Still
  <1>2. /\ Alone(p) /\ LeaseMoves(p)
        /\ pc' \in [Procs -> Labels] /\ txn' \in [Procs -> Txns]
        /\ mem' \in [Procs -> Mems] /\ lease' \in Procs \cup {NoProc}
        /\ pc'[p] = "idle" /\ txn'[p] = NoTxn /\ mem'[p] = mem[p]
    BY <1>1, LeaveEffects
  <1>3. TypeOK'
    BY <1>1, <1>2 DEF TypeOK, Still
  <1>4. ProcessSound(p)'
    <2>1. manifest'.roster \in Rosters
      BY <1>1 DEF WriteSessionInv, JournalSound, Still
    <2>2. BindingsSound(p)'
      BY <1>1, <1>2, <1>3, <2>1, StillIsOnward, BindingsKept
         DEF WriteSessionInv, ProcessSound
    <2> QED
      BY <1>2, <1>3, <2>2, IdleSound
  <1> QED
    BY <1>1, <1>2, <1>3, <1>4, StillKeeps

\* The steps of a process that change nothing but itself: what is left to show
\* is what is true of it at its new label.
LEMMA StillStep ==
    ASSUME WriteSessionInv, NEW p \in Procs, Alone(p), Still,
           used'.edits = used.edits, LeaseMoves(p), TypeOK',
           mem'[p] = mem[p] \/ mem'[p] = Unbound,
           pc'[p] \notin {"ledger", "physical"},
           pc'[p] = "idle" => txn'[p] = NoTxn,
           pc'[p] \in {"admit", "state"} => txn'[p].op # "execute",
           Drafts(p)' => DraftSound(p)',
           SessionSound(p)'
    PROVE  WriteSessionInv'
  <1>1. manifest'.roster \in Rosters
    BY DEF WriteSessionInv, JournalSound, Still
  <1>2. BindingsSound(p)'
    BY <1>1, StillIsOnward, BindingsKept DEF WriteSessionInv, ProcessSound
  <1>3. ProcessSound(p)'
    BY <1>2, SMT DEF ProcessSound
  <1> QED
    BY <1>3, StillKeeps

\* A proposal is as good as it was when its process reached the lease.
LEMMA DraftKept ==
    ASSUME WriteSessionInv, NEW p \in Procs, Still, Drafts(p),
           SameDraft(txn[p], txn'[p]), txn'[p].todo = txn[p].todo
    PROVE  DraftSound(p)'
  <1>1. DraftSound(p)
    BY DEF WriteSessionInv, ProcessSound
  <1> QED
    BY <1>1, SMT DEF DraftSound, SameDraft, Still, LedgerOf, Pending, InWrites,
       ByArtifact

-----------------------------------------------------------------------------
(* Binding to a baseline and proposing. *)

LEMMA LoadBaselineKeeps ==
    ASSUME WriteSessionInv, NEW p \in Procs, LoadBaseline(p)
    PROVE  WriteSessionInv'
  <1> DEFINE r == [txn[p] EXCEPT !.op = "load"]
  <1>1. TypeOK /\ Goto(p, "lock") /\ txn' = [txn EXCEPT ![p] = r]
        /\ Still /\ UNCHANGED <<jstage, lease, mem, used>> /\ pc[p] = "idle"
    BY DEF WriteSessionInv, LoadBaseline, Begin, Still, disk, runtime
  <1>2. r \in Txns /\ r.op = "load"
    BY <1>1, ProcessTypes, TxnOp
  <1> HIDE DEF r
  <1>3. "lock" \in Labels
    BY DEF Labels
  <1>4. /\ Alone(p)
        /\ pc' \in [Procs -> Labels] /\ txn' \in [Procs -> Txns]
        /\ mem' \in [Procs -> Mems]
        /\ pc'[p] = "lock" /\ txn'[p] = r /\ mem'[p] = mem[p]
    BY <1>1, <1>2, <1>3, TxnStep DEF Txn
  <1>5. TypeOK'
    BY <1>1, <1>4 DEF TypeOK, Still
  <1>6. LeaseMoves(p)
    BY <1>1, <1>4 DEF LeaseMoves, Leased
  <1>7. ~Drafts(p)' /\ SessionSound(p)'
    BY <1>2, <1>4, SMT DEF Drafts, SessionSound
  <1> QED
    BY <1>1, <1>4, <1>5, <1>6, <1>7, StillStep

LEMMA AdmitKeeps ==
    ASSUME WriteSessionInv, NEW p \in Procs, Admit(p)
    PROVE  WriteSessionInv'
  <1> DEFINE r == [txn[p] EXCEPT !.op = "admit"]
  <1>1. TypeOK /\ Goto(p, "admit") /\ txn' = [txn EXCEPT ![p] = r]
        /\ mem' = [mem EXCEPT ![p] = Unbound]
        /\ Still /\ UNCHANGED <<jstage, lease, used>> /\ pc[p] = "idle"
    BY DEF WriteSessionInv, Admit, Begin, Still, disk, runtime
  <1>2. r \in Txns /\ r.op = "admit"
    BY <1>1, ProcessTypes, TxnOp
  <1> HIDE DEF r
  <1>3. "admit" \in Labels
    BY DEF Labels
  <1>4. /\ Alone(p)
        /\ pc' \in [Procs -> Labels] /\ txn' \in [Procs -> Txns]
        /\ mem' \in [Procs -> Mems]
        /\ pc'[p] = "admit" /\ txn'[p] = r /\ mem'[p] = Unbound
    BY <1>1, <1>2, <1>3, UnboundType, MemStep DEF Txn
  <1>5. TypeOK'
    BY <1>1, <1>4 DEF TypeOK, Still
  <1>6. LeaseMoves(p)
    BY <1>1, <1>4 DEF LeaseMoves, Leased
  <1>7. ~Drafts(p)' /\ SessionSound(p)'
    BY <1>2, <1>4, SMT DEF Drafts, SessionSound
  <1> QED
    BY <1>1, <1>2, <1>4, <1>5, <1>6, <1>7, StillStep

LEMMA AdmitReadRepositoryKeeps ==
    ASSUME WriteSessionInv, NEW p \in Procs, AdmitReadRepository(p)
    PROVE  WriteSessionInv'
  <1>1. CASE Refuse(p)
    BY <1>1, RefuseKeeps
  <1>2. CASE ~Refuse(p)
    <2> DEFINE label == IF Pending THEN "lock" ELSE "state"
    <2>1. TypeOK /\ Goto(p, label) /\ pc[p] = "admit"
          /\ Still /\ UNCHANGED <<jstage, lease, txn, mem, used>>
      BY <1>2 DEF WriteSessionInv, AdmitReadRepository, Still, disk, runtime
    <2>2. label \in {"lock", "state"} /\ label \in Labels
      BY DEF Labels
    <2> HIDE DEF label
    <2>3. /\ Alone(p)
          /\ pc' \in [Procs -> Labels] /\ txn' \in [Procs -> Txns]
          /\ mem' \in [Procs -> Mems]
          /\ pc'[p] = label /\ txn'[p] = txn[p] /\ mem'[p] = mem[p]
      BY <2>1, <2>2, LabelStep
    <2>4. TypeOK'
      BY <2>1, <2>3 DEF TypeOK, Still
    <2>5. LeaseMoves(p)
      BY <2>1, <2>2, <2>3 DEF LeaseMoves, Leased
    <2>6. txn[p].op # "execute"
      BY <2>1 DEF WriteSessionInv, ProcessSound
    <2>7. ~Drafts(p)' /\ SessionSound(p)'
      BY <2>2, <2>3, <2>6, SMT DEF Drafts, SessionSound
    <2> QED
      BY <2>1, <2>2, <2>3, <2>4, <2>5, <2>6, <2>7, StillStep
  <1> QED
    BY <1>1, <1>2

\* A step that reads, and writes down what it read.
LEMMA ReadRuntimeStateKeeps ==
    ASSUME WriteSessionInv, NEW p \in Procs, ReadRuntimeState(p)
    PROVE  WriteSessionInv'
  <1> DEFINE r == [txn[p] EXCEPT !.base = manifest]
  <1>1. TypeOK /\ Goto(p, "ledger") /\ txn' = [txn EXCEPT ![p] = r]
        /\ Still /\ UNCHANGED <<jstage, lease, mem, used>> /\ pc[p] = "state"
        /\ ProcessSound(p)
    BY DEF WriteSessionInv, ReadRuntimeState, Still, disk, runtime
  <1>2. r \in Txns /\ r.op = txn[p].op /\ r.base = manifest
    BY <1>1, ProcessTypes, TxnBase DEF TypeOK
  <1> HIDE DEF r
  <1>3. "ledger" \in Labels
    BY DEF Labels
  <1>4. /\ Alone(p)
        /\ pc' \in [Procs -> Labels] /\ txn' \in [Procs -> Txns]
        /\ mem' \in [Procs -> Mems]
        /\ pc'[p] = "ledger" /\ txn'[p] = r /\ mem'[p] = mem[p]
    BY <1>1, <1>2, <1>3, TxnStep DEF Txn
  <1>5. TypeOK'
    BY <1>1, <1>4 DEF TypeOK, Still
  <1>6. LeaseMoves(p)
    BY <1>1, <1>4 DEF LeaseMoves, Leased
  <1>7. BindingsSound(p)'
    <2>1. manifest.generation <= manifest.generation
      BY <1>1, ManifestFields, SMT DEF TypeOK
    <2> QED
      BY <1>1, <1>2, <1>4, <2>1, SMT
         DEF ProcessSound, BindingsSound, Binding, LedgerOf, Pending, InWrites, Still
  <1>8. r.op # "execute"
    BY <1>1, <1>2 DEF ProcessSound
  <1>9. ProcessSound(p)'
    BY <1>4, <1>7, <1>8, SMT DEF ProcessSound, Drafts, SessionSound
  <1> QED
    BY <1>1, <1>4, <1>5, <1>6, <1>9, StillKeeps

\* The ledger found beside the manifest in force is its own, or its successor's.
LEMMA LedgerFound ==
    ASSUME WriteSessionInv
    PROVE  LedgerOf(files[Ledger])
  BY SMT DEF WriteSessionInv, FilesSound, FilesBefore, FilesAfter, LedgerOf, InWrites

LEMMA ReadLedgerKeeps ==
    ASSUME WriteSessionInv, NEW p \in Procs, ReadLedger(p)
    PROVE  WriteSessionInv'
  <1> DEFINE r == [txn[p] EXCEPT !.ledger = files[Ledger]]
  <1>1. TypeOK /\ Goto(p, "physical") /\ txn' = [txn EXCEPT ![p] = r]
        /\ Still /\ UNCHANGED <<jstage, lease, mem, used>> /\ pc[p] = "ledger"
        /\ ProcessSound(p)
    BY DEF WriteSessionInv, ReadLedger, Still, disk, runtime
  <1>2. /\ r \in Txns /\ r.op = txn[p].op /\ r.base = txn[p].base
        /\ r.ledger = files[Ledger]
    BY <1>1, ProcessTypes, TxnLedger, Constants DEF TypeOK
  <1> HIDE DEF r
  <1>3. "physical" \in Labels
    BY DEF Labels
  <1>4. /\ Alone(p)
        /\ pc' \in [Procs -> Labels] /\ txn' \in [Procs -> Txns]
        /\ mem' \in [Procs -> Mems]
        /\ pc'[p] = "physical" /\ txn'[p] = r /\ mem'[p] = mem[p]
    BY <1>1, <1>2, <1>3, TxnStep DEF Txn
  <1>5. TypeOK'
    BY <1>1, <1>4 DEF TypeOK, Still
  <1>6. LeaseMoves(p)
    BY <1>1, <1>4 DEF LeaseMoves, Leased
  <1>7. BindingsSound(p)'
    <2>1. txn[p].base.generation <= manifest.generation
      BY <1>1 DEF ProcessSound, BindingsSound
    <2>2. LedgerOf(files[Ledger])
      BY LedgerFound
    <2> QED
      BY <1>1, <1>2, <1>4, <2>1, <2>2, SMT
         DEF ProcessSound, BindingsSound, Binding, LedgerOf, Pending, InWrites, Still
  <1>8. r.op # "execute"
    BY <1>1, <1>2 DEF ProcessSound
  <1>9. ProcessSound(p)'
    BY <1>4, <1>7, <1>8, SMT DEF ProcessSound, Drafts, SessionSound
  <1> QED
    BY <1>1, <1>4, <1>5, <1>6, <1>9, StillKeeps

\* A reader that finds the manifest's artifacts as the manifest names them found
\* its ledger before, whatever the session beside it has done meanwhile.
LEMMA BoundLedger ==
    ASSUME WriteSessionInv, ActualIs(manifest), used.edits = 0,
           NEW l \in Bodies, LedgerOf(l)
    PROVE  l = recorded
  <1>1. SUFFICES ASSUME l # recorded PROVE FALSE
    OBVIOUS
  <1>2. /\ Pending /\ manifest # journal.want /\ InWrites
        /\ l = journal.writes[Ledger] /\ files[Ledger] = l
    BY <1>1 DEF LedgerOf
  <1>3. \A a \in ByArtifact(journal.writes) : files[a] = journal.writes[a]
    BY <1>1, <1>2 DEF WriteSessionInv, FilesSound, FilesBefore, LedgerLast
  <1>4. journal \in Journals /\ JournalSound
    BY DEF WriteSessionInv, TypeOK
  <1>5. DOMAIN journal.writes \in SUBSET Targets
    BY <1>4, JournalFields, WritesAre
  <1>6. PICK a \in ByArtifact(journal.writes) : TRUE
    BY <1>2, <1>4 DEF JournalSound
  <1>7. a \in Artifacts
    BY <1>5 DEF ByArtifact, Targets
  <1>8. manifest = journal.base
    BY <1>2, <1>4 DEF JournalSound, Unambiguous
  <1>9. /\ journal.base.roster[a] # journal.want.roster[a]
        /\ journal.want.roster[a] = journal.writes[a]
    BY <1>2, <1>4 DEF JournalSound
  <1>10. files[a] = manifest.roster[a]
    BY <1>7 DEF ActualIs, Authority
  <1> QED
    BY <1>3, <1>8, <1>9, <1>10

LEMMA ReadPhysicalKeeps ==
    ASSUME WriteSessionInv, NEW p \in Procs, ReadPhysical(p)
    PROVE  WriteSessionInv'
  <1>1. CASE Refuse(p)
    BY <1>1, RefuseKeeps
  <1>2. CASE ~Refuse(p)
    <2> DEFINE m == [base |-> txn[p].base, ledger |-> txn[p].ledger,
                     admitted |-> txn[p].op = "admit"]
    <2>1. /\ TypeOK /\ Goto(p, "idle") /\ txn' = [txn EXCEPT ![p] = NoTxn]
          /\ mem' = [mem EXCEPT ![p] = m]
          /\ Still /\ UNCHANGED <<jstage, lease, used>> /\ pc[p] = "physical"
          /\ ProcessSound(p) /\ ActualIs(txn[p].base)
      BY <1>2 DEF WriteSessionInv, ReadPhysical, Still, disk, runtime
    <2>2. /\ m.base = txn[p].base /\ m.ledger = txn[p].ledger
      OBVIOUS
    <2>3. txn[p].base \in Manifests /\ txn[p].ledger \in Bodies
      BY <2>1, ProcessTypes, TxnFields
    <2>4. m \in Mems
      BY <2>3, SMT DEF Mems
    <2> HIDE DEF m
    <2>5. "idle" \in Labels
      BY DEF Labels
    <2>6. /\ Alone(p)
          /\ pc' \in [Procs -> Labels] /\ txn' \in [Procs -> Txns]
          /\ mem' \in [Procs -> Mems]
          /\ pc'[p] = "idle" /\ txn'[p] = NoTxn /\ mem'[p] = m
      BY <2>1, <2>4, <2>5, NoTxnType, MemStep DEF Txn
    <2>7. TypeOK'
      BY <2>1, <2>6 DEF TypeOK, Still
    <2>8. LeaseMoves(p)
      BY <2>1, <2>6 DEF LeaseMoves, Leased
    <2>9. Binding(txn[p].base.generation, txn[p].ledger)
      BY <2>1 DEF ProcessSound, BindingsSound
    <2>10. txn[p].base.roster \in Rosters
      BY <2>1, Constants DEF ActualIs, Authority, TypeOK, Rosters, Targets
    <2>11. (txn[p].base = manifest /\ used.edits = 0) => txn[p].ledger = recorded
      BY <2>1, <2>3, <2>9, BoundLedger DEF Binding
    <2>12. BindingsSound(p)'
      BY <2>1, <2>2, <2>6, <2>9, <2>10, <2>11, SMT
         DEF BindingsSound, Binding, LedgerOf, Pending, InWrites, Still
    <2>13. ProcessSound(p)'
      BY <2>6, <2>7, <2>12, IdleSound
    <2> QED
      BY <2>1, <2>6, <2>7, <2>8, <2>13, StillKeeps
  <1> QED
    BY <1>1, <1>2

\* A proposal is built from what its process is bound to.
LEMMA ProposeKeeps ==
    ASSUME WriteSessionInv, NEW p \in Procs, NEW writes \in Proposals(p),
           Propose(p, writes)
    PROVE  WriteSessionInv'
  <1> DEFINE e == [t \in DOMAIN writes |->
                       IF t = Ledger THEN mem[p].ledger ELSE Seen(p)[t]]
             w == Manifest(mem[p].base.generation + 1, Overlay(Authority, writes))
             r == [txn[p] EXCEPT !.op = "execute", !.writes = writes,
                                 !.expect = e, !.want = w]
             m == IF mem[p].admitted THEN mem[p] ELSE Unbound
             label == IF mem[p].admitted THEN "fresh" ELSE "lock"
  <1>1. /\ TypeOK /\ ProcessSound(p) /\ Goto(p, label)
        /\ pc[p] = "idle" /\ mem[p].base # NoManifest
        /\ used.commits < MaxCommits
        /\ txn' = [txn EXCEPT ![p] = r] /\ mem' = [mem EXCEPT ![p] = m]
        /\ used' = [used EXCEPT !.commits = @ + 1]
        /\ Still /\ UNCHANGED <<jstage, lease>>
    BY Zenon DEF WriteSessionInv, Propose, Still, disk, runtime
  <1>2. /\ mem[p].base \in Manifests /\ mem[p].ledger \in Bodies
        /\ mem[p].base.generation \in Nat /\ mem[p].base.roster \in Rosters
        /\ mem[p].base.generation <= manifest.generation
        /\ manifest.generation \in Nat
    BY <1>1, ProcessTypes, MemFields, ManifestFields
       DEF ProcessSound, BindingsSound, TypeOK
  <1>3. used.commits + 1 \in Bodies
    BY <1>1, Constants, SMT DEF TypeOK, Bodies, Own
  <1>4. PICK S \in SUBSET Targets :
             /\ S \cap Artifacts # {} /\ writes \in [S -> {used.commits + 1, Absent}]
             /\ mem[p].admitted => S \subseteq Artifacts
    <2> DEFINE within == IF mem[p].admitted THEN Artifacts ELSE Targets
    <2>1. PICK S \in {R \in SUBSET within : R \cap Artifacts # {}} :
               writes \in [S -> {used.commits + 1, Absent}]
      BY Zenon DEF Proposals
    <2> QED
      BY <2>1, Constants
  <1>5. /\ DOMAIN writes \in SUBSET Targets
        /\ writes \in [DOMAIN writes -> Bodies]
    BY <1>3, <1>4, Constants DEF Targets
  <1>6. writes \in Writes
    BY <1>5, WritesOf
  <1>7. Authority \in Rosters
    BY <1>1, Constants DEF Authority, TypeOK, Rosters, Targets
  <1>8. Seen(p) \in Rosters
    BY <1>2, <1>7 DEF Seen
  <1>9. e \in Writes
    <2>1. e \in [DOMAIN writes -> Bodies]
      BY <1>2, <1>5, <1>8 DEF Rosters, Targets
    <2> QED
      BY <1>5, <2>1, WritesOf
  <1>10. Overlay(Authority, writes) \in Rosters
    BY <1>5, <1>7 DEF Overlay, Rosters
  <1>11. /\ w \in Manifests /\ w.roster \in Rosters
         /\ w.generation = mem[p].base.generation + 1
    BY <1>2, <1>10, ManifestOf
  <1>12. /\ DOMAIN e = DOMAIN writes
         /\ Ledger \in DOMAIN writes => e[Ledger] = mem[p].ledger
    OBVIOUS
  <1> HIDE DEF e, w
  <1>13. /\ r \in Txns /\ r.op = "execute" /\ r.writes = writes /\ r.expect = e
         /\ r.want = w /\ r.todo = {} /\ r.goal = "none"
    <2>1. txn[p] \in Txns /\ txn[p] = NoTxn
      BY <1>1, ProcessTypes DEF ProcessSound
    <2>2. "execute" \in {"none", "load", "admit", "execute"}
      OBVIOUS
    <2>3. r \in Txns
      BY <1>6, <1>9, <1>11, <2>1, <2>2, Zenon DEF Txns
    <2>4. /\ r.op = "execute" /\ r.writes = writes /\ r.expect = e
          /\ r.want = w /\ r.todo = txn[p].todo /\ r.goal = txn[p].goal
      BY <2>1, SMT DEF Txns
    <2> QED
      BY <2>1, <2>3, <2>4, NoTxnType, Zenon
  <1>14. /\ m \in Mems /\ (m = mem[p] \/ m = Unbound)
         /\ label \in {"fresh", "lock"} /\ label \in Labels
    BY <1>1, ProcessTypes, UnboundType DEF Labels
  <1> HIDE DEF r, m, label
  <1>15. /\ Alone(p)
         /\ pc' \in [Procs -> Labels] /\ txn' \in [Procs -> Txns]
         /\ mem' \in [Procs -> Mems]
         /\ pc'[p] = label /\ txn'[p] = r /\ mem'[p] = m
    BY <1>1, <1>13, <1>14, MemStep DEF Txn
  <1>16. used' \in [commits : Nat, edits : Nat, faults : Nat]
         /\ used'.edits = used.edits
    BY <1>1, SMT DEF TypeOK
  <1>17. TypeOK'
    BY <1>1, <1>15, <1>16 DEF TypeOK, Still
  <1>18. LeaseMoves(p)
    BY <1>1, <1>14, <1>15 DEF LeaseMoves, Leased
  <1>19. DraftSound(p)'
    <2>1. ByArtifact(writes) # {}
      BY <1>4, Constants DEF ByArtifact
    <2>2. w.generation <= manifest.generation + 1
      BY <1>2, <1>11, SMT
    <2>3. ASSUME Ledger \in DOMAIN writes, w.generation = manifest.generation + 1
          PROVE  LedgerOf(e[Ledger])
      <3>1. ~mem[p].admitted
        BY <1>4, <2>3, Constants
      <3>2. Binding(mem[p].base.generation, mem[p].ledger)
        BY <1>1, <3>1 DEF ProcessSound, BindingsSound
      <3>3. mem[p].base.generation = manifest.generation
        BY <1>2, <1>11, <2>3, SMT
      <3> QED
        BY <1>12, <2>3, <3>2, <3>3 DEF Binding
    <2> QED
      BY <1>1, <1>11, <1>12, <1>13, <1>15, <2>1, <2>2, <2>3, SMT
         DEF DraftSound, Still, LedgerOf, Pending, InWrites, ByArtifact
  <1>20. SessionSound(p)'
    BY <1>14, <1>15, SMT DEF SessionSound
  <1> QED
    BY <1>1, <1>14, <1>15, <1>16, <1>17, <1>18, <1>19, <1>20, StillStep

-----------------------------------------------------------------------------
(* The steps of a session that leave the files alone. *)

\* A step to a label before or inside a session.
Onto(p, label) ==
    /\ Goto(p, label)
    /\ label \in Labels
    /\ label \notin {"idle", "admit", "state", "ledger", "physical"}
    /\ \/ lease' = lease /\ (label \in Leased <=> pc[p] \in Leased)
       \/ lease = NoProc /\ lease' = p /\ label \in Leased

LEMMA StillTxnStep ==
    ASSUME WriteSessionInv, NEW p \in Procs, NEW label, Onto(p, label),
           NEW r, Txn(p, r), Still, jstage' \in BOOLEAN, UNCHANGED <<mem, used>>,
           (pc'[p] = label /\ txn'[p] = r) =>
               (Drafts(p)' => DraftSound(p)') /\ SessionSound(p)'
    PROVE  WriteSessionInv'
  <1>1. TypeOK /\ Goto(p, label) /\ label \in Labels
    BY DEF WriteSessionInv, Onto
  <1>2. /\ Alone(p)
        /\ pc' \in [Procs -> Labels] /\ txn' \in [Procs -> Txns]
        /\ mem' \in [Procs -> Mems]
        /\ pc'[p] = label /\ txn'[p] = r /\ mem'[p] = mem[p]
    BY <1>1, TxnStep
  <1>3. TypeOK'
    BY <1>1, <1>2 DEF TypeOK, Still, Onto
  <1>4. LeaseMoves(p)
    BY <1>2 DEF LeaseMoves, Onto
  <1> QED
    BY <1>2, <1>3, <1>4, StillStep DEF Onto

LEMMA StillLabelStep ==
    ASSUME WriteSessionInv, NEW p \in Procs, NEW label, Onto(p, label),
           Still, jstage' \in BOOLEAN, UNCHANGED <<txn, mem, used>>,
           pc'[p] = label => (Drafts(p)' => Drafts(p)) /\ SessionSound(p)'
    PROVE  WriteSessionInv'
  <1>1. Txn(p, txn[p])
    BY ProcessTypes DEF Txn, WriteSessionInv, TypeOK
  <1>2. Drafts(p) => DraftSound(p)'
    BY DraftKept DEF SameDraft
  <1> QED
    BY <1>1, <1>2, StillTxnStep

LEMMA SessionFacts ==
    ASSUME WriteSessionInv, NEW p \in Procs
    PROVE  /\ TypeOK /\ JournalSound /\ FilesSound
           /\ pc[p] \in Labels /\ txn[p] \in Txns /\ mem[p] \in Mems
           /\ SessionSound(p) /\ (Drafts(p) => DraftSound(p))
           /\ BindingsSound(p)
           /\ journal \in Journals /\ DOMAIN journal.writes \in SUBSET Targets
           /\ manifest \in Manifests /\ jstage \in BOOLEAN
           /\ (pc[p] \in Leased <=> lease = p)
  <1>1. journal \in Journals
    BY DEF WriteSessionInv, TypeOK
  <1>2. DOMAIN journal.writes \in SUBSET Targets
    BY <1>1, JournalFields, WritesAre
  <1> QED
    BY <1>1, <1>2, ProcessTypes DEF WriteSessionInv, ProcessSound, TypeOK, LeaseHeld

\* Where a session is does not change while the files and its draft do not.
LEMMA StillPhrases ==
    ASSUME NEW p \in Procs, Still, SameDraft(txn[p], txn'[p])
    PROVE  /\ Pending' <=> Pending
           /\ Readable' <=> Readable
           /\ TransitionValid(p)' <=> TransitionValid(p)
           /\ Before(p)' <=> Before(p)
           /\ After(p)' <=> After(p)
           /\ LedgerApplied' <=> LedgerApplied
  <1>1. (Pending' <=> Pending) /\ (Readable' <=> Readable)
    BY DEF Still, Pending, Readable
  <1>2. TransitionValid(p)' <=> TransitionValid(p)
    BY SMT DEF Still, SameDraft, TransitionValid, RosterTransitionValid
  <1>3. LedgerApplied' <=> LedgerApplied
    BY DEF Still, LedgerApplied, InWrites
  <1> QED
    BY <1>1, <1>2, <1>3, SMT DEF Still, SameDraft, Before, After

LEMMA CheckAdmissionFreshKeeps ==
    ASSUME WriteSessionInv, NEW p \in Procs, CheckAdmissionFresh(p)
    PROVE  WriteSessionInv'
  <1>1. CASE Refuse(p)
    BY <1>1, RefuseKeeps
  <1>2. CASE ~Refuse(p)
    <2>1. Goto(p, "lock") /\ pc[p] = "fresh" /\ Still
          /\ UNCHANGED <<jstage, lease, txn, mem, used>>
      BY <1>2 DEF CheckAdmissionFresh, Still, disk, runtime
    <2>2. Onto(p, "lock")
      BY <2>1 DEF Onto, Labels, Leased
    <2>3. pc'[p] = "lock" => (Drafts(p)' => Drafts(p)) /\ SessionSound(p)'
      BY <2>1, SMT DEF Drafts, SessionSound
    <2> QED
      BY <2>1, <2>2, <2>3, SessionFacts, StillLabelStep
  <1> QED
    BY <1>1, <1>2

LEMMA AcquireLeaseKeeps ==
    ASSUME WriteSessionInv, NEW p \in Procs, AcquireLease(p)
    PROVE  WriteSessionInv'
  <1>1. CASE Refuse(p)
    BY <1>1, RefuseKeeps
  <1>2. CASE ~Refuse(p)
    <2>1. Goto(p, "open") /\ pc[p] = "lock" /\ Still /\ lease = NoProc /\ lease' = p
          /\ UNCHANGED <<jstage, txn, mem, used>>
      BY <1>2 DEF AcquireLease, Still, disk, runtime
    <2>2. Onto(p, "open")
      BY <2>1 DEF Onto, Labels, Leased
    <2>3. pc'[p] = "open" => (Drafts(p)' => Drafts(p)) /\ SessionSound(p)'
      BY <2>1, SMT DEF Drafts, SessionSound
    <2> QED
      BY <2>1, <2>2, <2>3, SessionFacts, StillLabelStep
  <1> QED
    BY <1>1, <1>2

LEMMA OpenExecutionKeeps ==
    ASSUME WriteSessionInv, NEW p \in Procs, OpenExecution(p)
    PROVE  WriteSessionInv'
  <1>1. CASE Refuse(p)
    BY <1>1, RefuseKeeps
  <1>2. CASE ~Refuse(p)
    <2> DEFINE r == [txn[p] EXCEPT !.goal = "prepared"]
    <2>1. Goto(p, "journal") /\ pc[p] = "open" /\ txn[p].op = "execute" /\ Still
          /\ Admissible(p) /\ txn' = [txn EXCEPT ![p] = r]
          /\ UNCHANGED <<jstage, lease, mem, used>>
      BY <1>2 DEF OpenExecution, Still, disk, runtime
    <2>2. /\ r \in Txns /\ SameDraft(txn[p], r) /\ r.goal = "prepared"
          /\ r.todo = txn[p].todo
      BY SessionFacts, TxnGoal DEF Phases
    <2> HIDE DEF r
    <2>3. Onto(p, "journal")
      BY <2>1 DEF Onto, Labels, Leased
    <2>4. Drafts(p)
      BY <2>1 DEF Drafts
    <2>5. txn'[p] = r => DraftSound(p)'
      BY <2>1, <2>2, <2>4, DraftKept
    <2>6. ASSUME pc'[p] = "journal", txn'[p] = r
          PROVE  SessionSound(p)'
      <3>1. ~Pending' /\ TransitionValid(p)'
        BY <2>1, <2>2, <2>6, SMT DEF Admissible, TransitionValid,
           RosterTransitionValid, SameDraft, Still, Pending
      <3> QED
        BY <2>1, <2>2, <2>6, <3>1, SMT DEF SessionSound, SameDraft
    <2> QED
      BY <2>1, <2>2, <2>3, <2>5, <2>6, SessionFacts, StillTxnStep DEF Txn
  <1> QED
    BY <1>1, <1>2

LEMMA OpenRecoveryKeeps ==
    ASSUME WriteSessionInv, NEW p \in Procs, OpenRecovery(p)
    PROVE  WriteSessionInv'
  <1>1. CASE Refuse(p)
    BY <1>1, RefuseKeeps
  <1>2. CASE ~Refuse(p)
    <2> DEFINE label == IF ~Pending THEN "done"
                        ELSE IF manifest = journal.want THEN "actual"
                        ELSE "verify"
    <2>1. Goto(p, label) /\ pc[p] = "open" /\ txn[p].op # "execute" /\ Still
          /\ UNCHANGED <<jstage, lease, txn, mem, used>>
      BY <1>2 DEF OpenRecovery, Still, disk, runtime
    <2>2. /\ label \in {"done", "actual", "verify"}
          /\ label = "done" <=> ~Pending
          /\ label = "actual" <=> (Pending /\ manifest = journal.want)
      OBVIOUS
    <2> HIDE DEF label
    <2>3. Onto(p, label)
      BY <2>1, <2>2 DEF Onto, Labels, Leased
    <2>4. ASSUME pc'[p] = label
          PROVE  ~Drafts(p)' /\ SessionSound(p)'
      BY <2>1, <2>2, <2>4, SMT DEF SessionSound, Before, Still, Pending, Drafts
    <2> QED
      BY <2>1, <2>3, <2>4, SessionFacts, StillLabelStep
  <1> QED
    BY <1>1, <1>2

LEMMA StageJournalKeeps ==
    ASSUME WriteSessionInv, NEW p \in Procs, StageJournal(p)
    PROVE  WriteSessionInv'
  <1>1. CASE Refuse(p)
    BY <1>1, RefuseKeeps
  <1>2. CASE ~Refuse(p)
    <2>1. Goto(p, "rename") /\ pc[p] = "journal" /\ Still /\ jstage' \in BOOLEAN
          /\ UNCHANGED <<lease, txn, mem, used>>
      BY <1>2 DEF StageJournal, Still
    <2>2. Onto(p, "rename")
      BY <2>1 DEF Onto, Labels, Leased
    <2>3. ASSUME pc'[p] = "rename"
          PROVE  (Drafts(p)' => Drafts(p)) /\ SessionSound(p)'
      <3>1. /\ (Pending' <=> Pending) /\ (TransitionValid(p)' <=> TransitionValid(p))
            /\ (Before(p)' <=> Before(p)) /\ (After(p)' <=> After(p))
        BY <2>1, StillPhrases DEF SameDraft
      <3>2. Drafts(p)' => Drafts(p)
        BY <2>1, <2>3 DEF Drafts
      <3>3. \/ /\ txn[p].goal = "prepared" /\ txn[p].op = "execute"
               /\ ~Pending /\ TransitionValid(p)
            \/ /\ txn[p].goal = "applying" /\ Before(p)
               /\ txn[p].todo \subseteq DOMAIN journal.writes
            \/ /\ txn[p].goal \in {"manifest-published", "generation-published"}
               /\ After(p)
        BY <2>1, SessionFacts DEF SessionSound
      <3>4. txn'[p] = txn[p] /\ journal' = journal
        BY <2>1 DEF Still
      <3>5. SessionSound(p)'
        BY <2>3, <3>1, <3>3, <3>4, SMT DEF SessionSound
      <3> QED
        BY <3>2, <3>5
    <2> QED
      BY <2>1, <2>2, <2>3, StillLabelStep
  <1> QED
    BY <1>1, <1>2

LEMMA VerifyRecoveryStateKeeps ==
    ASSUME WriteSessionInv, NEW p \in Procs, VerifyRecoveryState(p)
    PROVE  WriteSessionInv'
  <1>1. CASE Refuse(p)
    BY <1>1, RefuseKeeps
  <1>2. CASE ~Refuse(p)
    <2> DEFINE S == DOMAIN journal.writes
               r == [txn[p] EXCEPT !.goal = "applying", !.todo = S]
               label == IF journal.phase = "prepared" THEN "journal" ELSE "stage"
    <2>1. Goto(p, label) /\ pc[p] = "verify" /\ Still
          /\ txn' = [txn EXCEPT ![p] = r]
          /\ UNCHANGED <<jstage, lease, mem, used>>
      BY <1>2 DEF VerifyRecoveryState, Still, disk, runtime
    <2>2. /\ r \in Txns /\ SameDraft(txn[p], r) /\ r.goal = "applying"
          /\ r.todo = S
      BY SessionFacts, TxnVerified
    <2>3. label \in {"journal", "stage"} /\ S = DOMAIN journal.writes
      OBVIOUS
    <2> HIDE DEF r, label, S
    <2>4. Onto(p, label)
      BY <2>1, <2>3 DEF Onto, Labels, Leased
    <2>5. Before(p)
      BY <2>1, SessionFacts DEF SessionSound
    <2>6. ASSUME pc'[p] = label, txn'[p] = r
          PROVE  ~Drafts(p)' /\ SessionSound(p)'
      BY <2>1, <2>2, <2>3, <2>5, <2>6, SMT
         DEF Drafts, SessionSound, Before, Still, Pending, SameDraft
    <2> QED
      BY <2>1, <2>2, <2>4, <2>6, SessionFacts, StillTxnStep DEF Txn
  <1> QED
    BY <1>1, <1>2

LEMMA StageUnneededKeeps ==
    ASSUME WriteSessionInv, NEW p \in Procs, NEW t \in Targets, StageUnneeded(p, t)
    PROVE  WriteSessionInv'
  <1> DEFINE S == txn[p].todo \ {t}
             r == [txn[p] EXCEPT !.todo = S]
  <1>1. pc[p] = "stage" /\ pc' = pc /\ Still
        /\ txn' = [txn EXCEPT ![p] = r] /\ UNCHANGED <<jstage, lease, mem, used>>
    BY DEF StageUnneeded, Still, disk, runtime
  <1>2. S \in SUBSET Targets /\ S \subseteq txn[p].todo
    BY SessionFacts, TxnFields
  <1>3. r \in Txns /\ SameDraft(txn[p], r) /\ r.todo = S
    BY <1>2, SessionFacts, TxnTodo
  <1> HIDE DEF S, r
  <1>4. Goto(p, "stage") /\ Onto(p, "stage")
    BY <1>1, SessionFacts DEF Goto, Onto, Labels, Leased, TypeOK
  <1>5. Before(p) /\ txn[p].todo \subseteq DOMAIN journal.writes
    BY <1>1, SessionFacts DEF SessionSound
  <1>6. ASSUME pc'[p] = "stage", txn'[p] = r
        PROVE  ~Drafts(p)' /\ SessionSound(p)'
    <2>1. Before(p)' /\ journal' = journal
      BY <1>1, <1>3, <1>5, <1>6, StillPhrases DEF Still
    <2> QED
      BY <1>2, <1>3, <1>5, <1>6, <2>1, SMT DEF Drafts, SessionSound
  <1> QED
    BY <1>1, <1>3, <1>4, <1>6, SessionFacts, StillTxnStep DEF Txn

LEMMA TargetsStagedKeeps ==
    ASSUME WriteSessionInv, NEW p \in Procs, TargetsStaged(p)
    PROVE  WriteSessionInv'
  <1> DEFINE S == DOMAIN journal.writes
             r == [txn[p] EXCEPT !.todo = S]
  <1>1. pc[p] = "stage" /\ Goto(p, "apply") /\ Still
        /\ txn' = [txn EXCEPT ![p] = r] /\ UNCHANGED <<jstage, lease, mem, used>>
    BY DEF TargetsStaged, Still, disk, runtime
  <1>2. S \in SUBSET Targets /\ S = DOMAIN journal.writes
    BY SessionFacts
  <1>3. r \in Txns /\ SameDraft(txn[p], r) /\ r.todo = S
    BY <1>2, SessionFacts, TxnTodo
  <1> HIDE DEF S, r
  <1>4. Onto(p, "apply")
    BY <1>1 DEF Onto, Labels, Leased
  <1>5. Before(p)
    BY <1>1, SessionFacts DEF SessionSound
  <1>6. ASSUME pc'[p] = "apply", txn'[p] = r
        PROVE  ~Drafts(p)' /\ SessionSound(p)'
    <2>1. Before(p)' /\ journal' = journal
      BY <1>1, <1>3, <1>5, <1>6, StillPhrases DEF Still
    <2> QED
      BY <1>2, <1>3, <1>6, <2>1, SMT DEF Drafts, SessionSound, Applied
  <1> QED
    BY <1>1, <1>3, <1>4, <1>6, SessionFacts, StillTxnStep DEF Txn

LEMMA TargetAppliedKeeps ==
    ASSUME WriteSessionInv, NEW p \in Procs, NEW t \in Targets, TargetApplied(p, t)
    PROVE  WriteSessionInv'
  <1> DEFINE S == txn[p].todo \ {t}
             r == [txn[p] EXCEPT !.todo = S]
  <1>1. pc[p] = "apply" /\ pc' = pc /\ Still /\ files[t] = journal.writes[t]
        /\ txn' = [txn EXCEPT ![p] = r] /\ UNCHANGED <<jstage, lease, mem, used>>
    BY DEF TargetApplied, Still, disk, runtime
  <1>2. S \in SUBSET Targets /\ S = txn[p].todo \ {t}
    BY SessionFacts, TxnFields
  <1>3. r \in Txns /\ SameDraft(txn[p], r) /\ r.todo = S
    BY <1>2, SessionFacts, TxnTodo
  <1> HIDE DEF S, r
  <1>4. Goto(p, "apply") /\ Onto(p, "apply")
    BY <1>1, SessionFacts DEF Goto, Onto, Labels, Leased, TypeOK
  <1>5. /\ Before(p) /\ txn[p].todo \subseteq DOMAIN journal.writes
        /\ Applied(txn[p].todo)
    BY <1>1, SessionFacts DEF SessionSound
  <1>6. ASSUME pc'[p] = "apply", txn'[p] = r
        PROVE  ~Drafts(p)' /\ SessionSound(p)'
    <2>1. /\ Before(p)' /\ journal' = journal /\ files' = files
          /\ used' = used
      BY <1>1, <1>3, <1>5, <1>6, StillPhrases DEF Still
    <2>2. Applied(txn[p].todo)'
      BY <1>1, <1>2, <1>3, <1>5, <1>6, <2>1, SMT DEF Applied
    <2> QED
      BY <1>2, <1>3, <1>5, <1>6, <2>1, <2>2, SMT DEF Drafts, SessionSound
  <1> QED
    BY <1>1, <1>3, <1>4, <1>6, SessionFacts, StillTxnStep DEF Txn

LEMMA VerifyAuthorityKeeps ==
    ASSUME WriteSessionInv, NEW p \in Procs, VerifyAuthority(p)
    PROVE  WriteSessionInv'
  <1>1. CASE Refuse(p)
    BY <1>1, RefuseKeeps
  <1>2. CASE ~Refuse(p)
    <2>1. pc[p] = "actual" /\ Still /\ ActualIs(journal.want)
          /\ UNCHANGED <<jstage, lease, mem, used>>
      BY <1>2 DEF VerifyAuthority, Still, disk, runtime
    <2>2. CASE manifest # journal.want
      <3>1. Goto(p, "manifest") /\ UNCHANGED txn
        BY <1>2, <2>2 DEF VerifyAuthority
      <3>2. Onto(p, "manifest")
        BY <2>1, <3>1 DEF Onto, Labels, Leased
      <3>3. Before(p) /\ LedgerApplied
        BY <2>1, <2>2, SessionFacts DEF SessionSound
      <3>4. Readable /\ \A a \in Artifacts : files[a] = journal.want.roster[a]
        BY <2>1 DEF ActualIs, Authority
      <3>5. ASSUME pc'[p] = "manifest"
            PROVE  ~Drafts(p)' /\ SessionSound(p)'
        <4>1. /\ Before(p)' /\ LedgerApplied' /\ Readable'
              /\ journal' = journal /\ files' = files
          BY <2>1, <3>1, <3>3, <3>4, StillPhrases DEF Still, SameDraft
        <4> QED
          BY <3>4, <3>5, <4>1, SMT DEF Drafts, SessionSound
      <3> QED
        BY <2>1, <3>1, <3>2, <3>5, SessionFacts, StillLabelStep
    <2>3. CASE manifest = journal.want
      <3>1. /\ Pending /\ txn[p].op # "execute"
        BY <2>1, <2>3, SessionFacts DEF SessionSound, Before
      <3>2. After(p)
        BY <2>1, <2>3, <3>1 DEF After, ActualIs
      <3>3. CASE journal.phase = "generation-published"
        <4>1. Goto(p, "remove") /\ txn' = txn
          BY <1>2, <2>3, <3>3 DEF VerifyAuthority, Advance
        <4>2. Onto(p, "remove")
          BY <2>1, <4>1 DEF Onto, Labels, Leased
        <4>3. ASSUME pc'[p] = "remove"
              PROVE  ~Drafts(p)' /\ SessionSound(p)'
          <5>1. After(p)'
            BY <2>1, <3>2, <4>1, StillPhrases DEF SameDraft
          <5> QED
            BY <4>3, <5>1, SMT DEF Drafts, SessionSound
        <4> QED
          BY <2>1, <4>1, <4>2, <4>3, SessionFacts, StillLabelStep
      <3>4. CASE journal.phase # "generation-published"
        <4> DEFINE g == IF journal.phase = "manifest-published"
                        THEN "generation-published" ELSE "manifest-published"
                   r == [txn[p] EXCEPT !.goal = g]
        <4>1. Goto(p, "journal") /\ txn' = [txn EXCEPT ![p] = r]
          BY <1>2, <2>3, <3>4 DEF VerifyAuthority, Advance
        <4>2. g \in Phases /\ g \in {"manifest-published", "generation-published"}
          BY DEF Phases
        <4> HIDE DEF g
        <4>3. r \in Txns /\ SameDraft(txn[p], r) /\ r.goal = g
          BY <4>2, SessionFacts, TxnGoal
        <4> HIDE DEF r
        <4>4. Onto(p, "journal")
          BY <2>1, <4>1 DEF Onto, Labels, Leased
        <4>5. ASSUME pc'[p] = "journal", txn'[p] = r
              PROVE  ~Drafts(p)' /\ SessionSound(p)'
          <5>1. After(p)'
            BY <2>1, <3>2, <4>3, <4>5, StillPhrases
          <5> QED
            BY <4>2, <4>3, <4>5, <5>1, SMT DEF Drafts, SessionSound
        <4> QED
          BY <2>1, <4>1, <4>3, <4>4, <4>5, SessionFacts, StillTxnStep DEF Txn
      <3> QED
        BY <3>3, <3>4
    <2> QED
      BY <2>2, <2>3
  <1> QED
    BY <1>1, <1>2

LEMMA ReturnKeeps ==
    ASSUME WriteSessionInv, NEW p \in Procs, Return(p)
    PROVE  WriteSessionInv'
  <1>1. /\ pc[p] = "done" /\ Still /\ UNCHANGED <<jstage, used>>
        /\ lease' = Freed(p) /\ TypeOK /\ ProcessSound(p)
    BY DEF WriteSessionInv, Return, Still, disk, runtime
  <1>2. lease' \in Procs \cup {NoProc}
    BY <1>1 DEF TypeOK, Freed
  <1>3. CASE txn[p].op # "execute"
    <2>1. Goto(p, "state") /\ UNCHANGED <<txn, mem>>
      BY <1>3 DEF Return
    <2>2. /\ Alone(p)
          /\ pc' \in [Procs -> Labels] /\ txn' \in [Procs -> Txns]
          /\ mem' \in [Procs -> Mems]
          /\ pc'[p] = "state" /\ txn'[p] = txn[p] /\ mem'[p] = mem[p]
      BY <1>1, <2>1, LabelStep DEF Labels
    <2>3. TypeOK'
      BY <1>1, <1>2, <2>2 DEF TypeOK, Still
    <2>4. LeaseMoves(p)
      BY <1>1, <2>2 DEF LeaseMoves, Leased
    <2>5. ~Drafts(p)' /\ SessionSound(p)'
      BY <2>2, SMT DEF Drafts, SessionSound
    <2> QED
      BY <1>1, <1>3, <2>2, <2>3, <2>4, <2>5, StillStep
  <1>4. CASE txn[p].op = "execute"
    <2> DEFINE m == IF mem[p].admitted
                    THEN [mem[p] EXCEPT !.base = txn[p].want] ELSE mem[p]
    <2>1. Goto(p, "idle") /\ txn' = [txn EXCEPT ![p] = NoTxn]
          /\ mem' = [mem EXCEPT ![p] = m]
      BY <1>1, <1>4 DEF Return, TypeOK
    <2>2. manifest = txn[p].want /\ manifest.roster \in Rosters
      BY <1>1, <1>4, SessionFacts DEF SessionSound, JournalSound
    <2>3. m \in Mems /\ (mem[p].admitted => m.base = manifest /\ m.admitted)
          /\ (~mem[p].admitted => m = mem[p])
      BY <2>2, SessionFacts, SMT DEF Mems
    <2> HIDE DEF m
    <2>4. /\ Alone(p)
          /\ pc' \in [Procs -> Labels] /\ txn' \in [Procs -> Txns]
          /\ mem' \in [Procs -> Mems]
          /\ pc'[p] = "idle" /\ txn'[p] = NoTxn /\ mem'[p] = m
      BY <1>1, <2>1, <2>3, NoTxnType, MemStep DEF Txn, Labels
    <2>5. TypeOK'
      BY <1>1, <1>2, <2>4 DEF TypeOK, Still
    <2>6. LeaseMoves(p)
      BY <1>1, <2>4 DEF LeaseMoves, Leased
    <2>7. BindingsSound(p)'
      <3>1. CASE mem[p].admitted
        <4>1. manifest.generation <= manifest.generation
          BY SessionFacts, ManifestFields, SMT
        <4> QED
          BY <1>1, <2>2, <2>3, <2>4, <3>1, <4>1, SMT DEF BindingsSound, Still
      <3>2. CASE ~mem[p].admitted
        BY <1>1, <2>2, <2>3, <2>4, <2>5, <3>2, StillIsOnward, BindingsKept
           DEF ProcessSound, Still
      <3> QED
        BY <3>1, <3>2
    <2>8. ProcessSound(p)'
      BY <2>4, <2>5, <2>7, IdleSound
    <2> QED
      BY <1>1, <2>4, <2>5, <2>6, <2>8, StillKeeps
  <1> QED
    BY <1>3, <1>4

-----------------------------------------------------------------------------
(* The steps of a session that move staged files. *)

StagesOnly == UNCHANGED <<files, author, journal, manifest, recorded>>

\* Staged files come and go while a proposal is not yet in force.
LEMMA StagesMove ==
    ASSUME WriteSessionInv, NEW p \in Procs, Before(p), StagesOnly,
           used'.edits = used.edits,
           stage'[Ledger] # Absent =>
               \/ stage[Ledger] # Absent
               \/ InWrites /\ files[Ledger] # journal.writes[Ledger]
    PROVE  Onward /\ JournalSound' /\ FilesSound'
  <1>1. Pending /\ manifest # journal.want /\ FilesBefore
    BY SessionFacts DEF Before, FilesSound
  <1>2. manifest.generation \in Nat
    BY SessionFacts, ManifestFields
  <1>3. Onward
    BY <1>2, SMT DEF Onward, StagesOnly, LedgerOf, Pending, InWrites
  <1>4. JournalSound'
    BY SessionFacts DEF StagesOnly, JournalSound, Pending, Unambiguous, Published
  <1>5. FilesSound'
    BY <1>1, SMT DEF FilesSound, FilesBefore, LedgerLast, StagesOnly, Pending,
       InWrites, BySession
  <1> QED
    BY <1>3, <1>4, <1>5

LEMMA StagesPhrases ==
    ASSUME NEW p \in Procs, StagesOnly, SameDraft(txn[p], txn'[p]), Before(p)
    PROVE  Before(p)' /\ journal' = journal /\ files' = files
  BY SMT DEF StagesOnly, SameDraft, Before, Pending

\* What Leave does to a process that had a proposal in hand.
LEMMA LeaveWithStages ==
    ASSUME WriteSessionInv, NEW p \in Procs, Leave(p), pc[p] \in Leased, Before(p),
           journal' = journal, jstage' \in BOOLEAN,
           used' \in [commits : Nat, edits : Nat, faults : Nat],
           used'.edits = used.edits,
           stage' \in [Targets -> Bodies \cup {Torn}],
           stage'[Ledger] \in {stage[Ledger], Absent}
    PROVE  WriteSessionInv'
  <1>1. TypeOK /\ StagesOnly
    BY DEF WriteSessionInv, Leave, StagesOnly
  <1>2. /\ Alone(p) /\ LeaseMoves(p)
        /\ pc' \in [Procs -> Labels] /\ txn' \in [Procs -> Txns]
        /\ mem' \in [Procs -> Mems] /\ lease' \in Procs \cup {NoProc}
        /\ pc'[p] = "idle" /\ txn'[p] = NoTxn /\ mem'[p] = mem[p]
    BY <1>1, LeaveEffects
  <1>3. TypeOK'
    BY <1>1, <1>2 DEF TypeOK, StagesOnly
  <1>4. Onward /\ JournalSound' /\ FilesSound'
    BY <1>1, StagesMove
  <1>5. BindingsSound(p)'
    BY <1>1, <1>2, <1>3, <1>4, SessionFacts, BindingsKept DEF JournalSound
  <1>6. ProcessSound(p)'
    BY <1>2, <1>3, <1>5, IdleSound
  <1> QED
    BY <1>2, <1>3, <1>4, <1>6, StepKeeps

LEMMA StagesLeft ==
    ASSUME TypeOK, NEW p \in Procs
    PROVE  /\ WithoutStages(p) \in [Targets -> Bodies \cup {Torn}]
           /\ WithoutStages(p)[Ledger] \in {stage[Ledger], Absent}
  BY Constants DEF WithoutStages, TypeOK

LEMMA RefuseAndCleanUpKeeps ==
    ASSUME WriteSessionInv, NEW p \in Procs, RefuseAndCleanUp(p),
           pc[p] \in Leased, Before(p)
    PROVE  WriteSessionInv'
  <1>1. Leave(p) /\ stage' = WithoutStages(p) /\ UNCHANGED <<journal, jstage, used>>
    BY DEF RefuseAndCleanUp
  <1>2. used' \in [commits : Nat, edits : Nat, faults : Nat] /\ jstage' \in BOOLEAN
    BY <1>1 DEF WriteSessionInv, TypeOK
  <1> QED
    BY <1>1, <1>2, SessionFacts, StagesLeft, LeaveWithStages

DiskTypes ==
    /\ files \in [Targets -> Bodies]
    /\ author \in [Targets -> {"session", "external"}]
    /\ stage \in [Targets -> Bodies \cup {Torn}]
    /\ journal \in Journals
    /\ jstage \in BOOLEAN
    /\ manifest \in Manifests
    /\ recorded \in Bodies

\* A step of the session that moves the files.
LEMMA SessionStep ==
    ASSUME WriteSessionInv, NEW p \in Procs, pc[p] \in Leased,
           NEW label \in Labels, label \in Leased, Goto(p, label),
           NEW r, Txn(p, r), UNCHANGED <<lease, mem, used>>,
           DiskTypes', Onward, JournalSound', FilesSound',
           (pc'[p] = label /\ txn'[p] = r) => ~Drafts(p)' /\ SessionSound(p)'
    PROVE  WriteSessionInv'
  <1>1. TypeOK
    BY DEF WriteSessionInv
  <1>2. /\ Alone(p)
        /\ pc' \in [Procs -> Labels] /\ txn' \in [Procs -> Txns]
        /\ mem' \in [Procs -> Mems]
        /\ pc'[p] = label /\ txn'[p] = r /\ mem'[p] = mem[p]
    BY <1>1, TxnStep
  <1>3. TypeOK'
    BY <1>1, <1>2 DEF TypeOK, DiskTypes
  <1>4. LeaseMoves(p)
    BY <1>2 DEF LeaseMoves
  <1>5. label \notin {"idle", "admit", "state", "ledger", "physical"}
    BY DEF Leased
  <1>6. BindingsSound(p)'
    BY <1>1, <1>2, <1>3, <1>5, SessionFacts, BindingsKept DEF JournalSound
  <1>7. ProcessSound(p)'
    BY <1>2, <1>5, <1>6 DEF ProcessSound
  <1> QED
    BY <1>2, <1>3, <1>4, <1>7, StepKeeps

LEMMA StagesStep ==
    ASSUME WriteSessionInv, NEW p \in Procs, pc[p] \in Leased, Before(p),
           NEW label \in Labels, label \in Leased, Goto(p, label),
           NEW r, Txn(p, r), StagesOnly, UNCHANGED <<jstage, lease, mem, used>>,
           stage' \in [Targets -> Bodies \cup {Torn}],
           stage'[Ledger] # Absent =>
               \/ stage[Ledger] # Absent
               \/ InWrites /\ files[Ledger] # journal.writes[Ledger],
           (pc'[p] = label /\ txn'[p] = r) => ~Drafts(p)' /\ SessionSound(p)'
    PROVE  WriteSessionInv'
  <1>1. Onward /\ JournalSound' /\ FilesSound'
    BY StagesMove
  <1>2. DiskTypes'
    BY DEF WriteSessionInv, TypeOK, DiskTypes, StagesOnly
  <1> QED
    BY <1>1, <1>2, SessionStep

LEMMA OpenStageKeeps ==
    ASSUME WriteSessionInv, NEW p \in Procs, NEW t \in Targets, OpenStage(p, t)
    PROVE  WriteSessionInv'
  <1>1. CASE Refuse(p)
    BY <1>1, RefuseKeeps
  <1>2. CASE ~Refuse(p)
    <2> DEFINE r == [txn[p] EXCEPT !.target = {t}]
    <2>1. /\ pc[p] = "stage" /\ Goto(p, "fill") /\ txn' = [txn EXCEPT ![p] = r]
          /\ StagesOnly /\ UNCHANGED <<jstage, lease, mem, used>>
          /\ stage' = [stage EXCEPT ![t] = Torn]
          /\ t \in txn[p].todo /\ journal.writes[t] # files[t]
      BY <1>2, SMT DEF OpenStage, StagesOnly, runtime, Turn
    <2>2. r \in Txns /\ SameDraft(txn[p], r) /\ r.todo = txn[p].todo /\ r.target = {t}
      BY SessionFacts, TxnTarget
    <2> HIDE DEF r
    <2>3. /\ Before(p) /\ txn[p].todo \subseteq DOMAIN journal.writes
      BY <2>1, SessionFacts DEF SessionSound
    <2>4. /\ stage' \in [Targets -> Bodies \cup {Torn}]
          /\ stage'[Ledger] # Absent =>
               \/ stage[Ledger] # Absent
               \/ InWrites /\ files[Ledger] # journal.writes[Ledger]
      <3>1. stage \in [Targets -> Bodies \cup {Torn}]
        BY SessionFacts DEF TypeOK
      <3> QED
        BY <2>1, <2>3, <3>1, Constants DEF InWrites
    <2>5. ASSUME pc'[p] = "fill", txn'[p] = r
          PROVE  ~Drafts(p)' /\ SessionSound(p)'
      <3>1. Before(p)' /\ journal' = journal /\ files' = files
        BY <2>1, <2>2, <2>3, <2>5, StagesPhrases
      <3> QED
        BY <2>1, <2>2, <2>3, <2>5, <3>1, SMT DEF Drafts, SessionSound
    <2>6. pc[p] \in Leased /\ "fill" \in Leased /\ "fill" \in Labels
      BY <2>1 DEF Leased, Labels
    <2> QED
      BY <2>1, <2>2, <2>3, <2>4, <2>5, <2>6, StagesStep DEF Txn
  <1> QED
    BY <1>1, <1>2

LEMMA FillStageKeeps ==
    ASSUME WriteSessionInv, NEW p \in Procs, FillStage(p)
    PROVE  WriteSessionInv'
  <1> DEFINE S == txn[p].todo \ txn[p].target
             R == txn[p].staged \cup txn[p].target
             r == [txn[p] EXCEPT !.todo = S, !.staged = R, !.target = {}]
  <1>1. /\ pc[p] = "fill" /\ Goto(p, "stage") /\ txn' = [txn EXCEPT ![p] = r]
        /\ StagesOnly /\ UNCHANGED <<jstage, lease, mem, used>>
        /\ stage' = [t \in Targets |-> IF t \in txn[p].target
                                       THEN journal.writes[t] ELSE stage[t]]
    BY DEF FillStage, StagesOnly, runtime
  <1>2. S \in SUBSET Targets /\ R \in SUBSET Targets /\ S \subseteq txn[p].todo
    BY SessionFacts, TxnFields
  <1>3. r \in Txns /\ SameDraft(txn[p], r) /\ r.todo = S
    <2>1. txn[p] \in Txns /\ {} \in SUBSET Targets
      BY SessionFacts
    <2> HIDE DEF S, R
    <2>2. r \in Txns
      BY <1>2, <2>1, Zenon DEF Txns
    <2>3. SameDraft(txn[p], r) /\ r.todo = S
      BY <2>1, SMT DEF Txns, SameDraft
    <2> QED
      BY <2>2, <2>3
  <1> HIDE DEF S, R, r
  <1>4. /\ Before(p) /\ txn[p].todo \subseteq DOMAIN journal.writes
        /\ txn[p].target \subseteq DOMAIN journal.writes
        /\ Ledger \in txn[p].target => files[Ledger] # journal.writes[Ledger]
    BY <1>1, SessionFacts DEF SessionSound
  <1>5. /\ stage' \in [Targets -> Bodies \cup {Torn}]
        /\ stage'[Ledger] # Absent =>
               \/ stage[Ledger] # Absent
               \/ InWrites /\ files[Ledger] # journal.writes[Ledger]
    <2>1. stage \in [Targets -> Bodies \cup {Torn}]
      BY SessionFacts DEF TypeOK
    <2>2. \A t \in txn[p].target : journal.writes[t] \in Bodies
      BY <1>4, SessionFacts, JournalFields, WritesAre
    <2> QED
      BY <1>1, <1>4, <2>1, <2>2, Constants DEF InWrites
  <1>6. ASSUME pc'[p] = "stage", txn'[p] = r
        PROVE  ~Drafts(p)' /\ SessionSound(p)'
    <2>1. Before(p)' /\ journal' = journal /\ files' = files
      BY <1>1, <1>3, <1>4, <1>6, StagesPhrases
    <2> QED
      BY <1>2, <1>3, <1>4, <1>6, <2>1, SMT DEF Drafts, SessionSound
  <1>7. pc[p] \in Leased /\ "stage" \in Leased /\ "stage" \in Labels
    BY <1>1 DEF Leased, Labels
  <1> QED
    BY <1>1, <1>3, <1>4, <1>5, <1>6, <1>7, StagesStep DEF Txn

LEMMA TargetsAppliedKeeps ==
    ASSUME WriteSessionInv, NEW p \in Procs, TargetsApplied(p)
    PROVE  WriteSessionInv'
  <1> DEFINE r == [txn[p] EXCEPT !.staged = {}]
  <1>1. /\ pc[p] = "apply" /\ Goto(p, "actual") /\ txn' = [txn EXCEPT ![p] = r]
        /\ StagesOnly /\ UNCHANGED <<jstage, lease, mem, used>>
        /\ stage' = WithoutStages(p) /\ txn[p].todo = {}
    BY DEF TargetsApplied, StagesOnly, runtime
  <1>2. r \in Txns /\ SameDraft(txn[p], r)
    BY SessionFacts, TxnUnstaged
  <1> HIDE DEF r
  <1>3. Before(p) /\ Applied({})
    BY <1>1, SessionFacts DEF SessionSound
  <1>4. LedgerApplied
    BY <1>3 DEF LedgerApplied, Applied, InWrites
  <1>5. /\ stage' \in [Targets -> Bodies \cup {Torn}]
        /\ stage'[Ledger] # Absent => stage[Ledger] # Absent
    BY <1>1, SessionFacts, StagesLeft
  <1>6. ASSUME pc'[p] = "actual", txn'[p] = r
        PROVE  ~Drafts(p)' /\ SessionSound(p)'
    <2>1. Before(p)' /\ journal' = journal /\ files' = files
      BY <1>1, <1>2, <1>3, <1>6, StagesPhrases
    <2>2. LedgerApplied'
      BY <1>4, <2>1 DEF LedgerApplied, InWrites
    <2> QED
      BY <1>2, <1>6, <2>1, <2>2, SMT DEF Drafts, SessionSound
  <1>7. pc[p] \in Leased /\ "actual" \in Leased /\ "actual" \in Labels
    BY <1>1 DEF Leased, Labels
  <1> QED
    BY <1>1, <1>2, <1>3, <1>5, <1>6, <1>7, StagesStep DEF Txn

LEMMA CompareTargetKeeps ==
    ASSUME WriteSessionInv, NEW p \in Procs, NEW t \in Targets, CompareTarget(p, t)
    PROVE  WriteSessionInv'
  <1>1. pc[p] = "apply" /\ Turn(p, t) /\ pc[p] \in Leased
    BY DEF CompareTarget, Leased
  <1>2. /\ Before(p) /\ txn[p].todo \subseteq DOMAIN journal.writes
        /\ Applied(txn[p].todo)
    BY <1>1, SessionFacts DEF SessionSound
  <1>3. CASE RefuseAndCleanUp(p)
    BY <1>1, <1>2, <1>3, RefuseAndCleanUpKeeps
  <1>4. CASE ~RefuseAndCleanUp(p)
    <2> DEFINE S == txn[p].todo \ {t}
               T == {t}
               r == [txn[p] EXCEPT !.todo = S, !.target = T]
    <2>1. /\ Goto(p, "replace") /\ txn' = [txn EXCEPT ![p] = r]
          /\ Still /\ UNCHANGED <<jstage, lease, mem, used>>
          /\ files[t] = journal.expect[t]
      BY <1>4, SMT DEF CompareTarget, Still, disk, runtime, Replaceable
    <2>2. S \in SUBSET Targets /\ S = txn[p].todo \ {t} /\ T \in SUBSET Targets
      BY SessionFacts, TxnFields
    <2>3. /\ t \in txn[p].todo /\ (t = Ledger => S = {})
      BY <1>1 DEF Turn
    <2>4. r \in Txns /\ SameDraft(txn[p], r) /\ r.todo = S /\ r.target = T
      <3>1. txn[p] \in Txns
        BY SessionFacts
      <3> HIDE DEF S, T
      <3>2. r \in Txns
        BY <2>2, <3>1, Zenon DEF Txns
      <3>3. SameDraft(txn[p], r) /\ r.todo = S /\ r.target = T
        BY <3>1, SMT DEF Txns, SameDraft
      <3> QED
        BY <3>2, <3>3
    <2>5. T = {t}
      OBVIOUS
    <2> HIDE DEF r, S, T
    <2>6. Onto(p, "replace")
      BY <1>1, <2>1 DEF Onto, Labels, Leased
    <2>7. ASSUME pc'[p] = "replace", txn'[p] = r
          PROVE  ~Drafts(p)' /\ SessionSound(p)'
      <3>1. /\ Before(p)' /\ journal' = journal /\ files' = files
            /\ used' = used
        BY <1>2, <2>1, <2>4, <2>7, StillPhrases DEF Still
      <3>2. S \cup T = txn[p].todo
        BY <2>2, <2>3, <2>5
      <3>3. Applied(txn[p].todo \cup txn[p].target)'
        BY <1>2, <2>4, <2>7, <3>1, <3>2, SMT DEF Applied
      <3> QED
        BY <1>2, <2>1, <2>2, <2>3, <2>4, <2>5, <2>7, <3>1, <3>3, SMT
           DEF Drafts, SessionSound
    <2> QED
      BY <2>1, <2>4, <2>6, <2>7, SessionFacts, StillTxnStep DEF Txn
  <1> QED
    BY <1>3, <1>4

LEMMA VerifyReplacementKeeps ==
    ASSUME WriteSessionInv, NEW p \in Procs, VerifyReplacement(p)
    PROVE  WriteSessionInv'
  <1>1. pc[p] = "reverify" /\ pc[p] \in Leased
    BY DEF VerifyReplacement, Leased
  <1>2. /\ Before(p) /\ txn[p].todo \subseteq DOMAIN journal.writes
        /\ Applied(txn[p].todo)
    BY <1>1, SessionFacts DEF SessionSound
  <1>3. CASE RefuseAndCleanUp(p)
    BY <1>1, <1>2, <1>3, RefuseAndCleanUpKeeps
  <1>4. CASE ~RefuseAndCleanUp(p)
    <2>1. Goto(p, "apply") /\ Still /\ UNCHANGED <<jstage, lease, txn, mem, used>>
      BY <1>4 DEF VerifyReplacement, Still, disk, runtime
    <2>2. Onto(p, "apply")
      BY <1>1, <2>1 DEF Onto, Labels, Leased
    <2>3. ASSUME pc'[p] = "apply"
          PROVE  ~Drafts(p)' /\ SessionSound(p)'
      <3>1. /\ Before(p)' /\ journal' = journal /\ files' = files
            /\ used' = used /\ txn' = txn
        BY <1>2, <2>1, StillPhrases DEF Still, SameDraft
      <3>2. Applied(txn[p].todo)'
        BY <1>2, <3>1 DEF Applied
      <3> QED
        BY <1>2, <2>3, <3>1, <3>2, SMT DEF Drafts, SessionSound
    <2> QED
      BY <2>1, <2>2, <2>3, SessionFacts, StillLabelStep
  <1> QED
    BY <1>3, <1>4

-----------------------------------------------------------------------------
(* The steps of a session that move the journal, the targets and the manifest. *)

\* A journal takes up where the proposal was checked.
LEMMA FirstJournalKeeps ==
    ASSUME WriteSessionInv, NEW p \in Procs, PublishJournal(p),
           txn[p].goal = "prepared"
    PROVE  WriteSessionInv'
  <1> DEFINE r == [txn[p] EXCEPT !.goal = "applying"]
  <1>1. /\ pc[p] = "rename" /\ Goto(p, "journal") /\ txn' = [txn EXCEPT ![p] = r]
        /\ jstage' = FALSE
        /\ UNCHANGED <<files, author, stage, manifest, recorded, lease, mem, used>>
        /\ journal' = [phase |-> "prepared", base |-> manifest,
                       want |-> txn[p].want, expect |-> txn[p].expect,
                       writes |-> txn[p].writes]
    BY DEF PublishJournal, Advance
  <1>2. r \in Txns /\ SameDraft(txn[p], r) /\ r.goal = "applying" /\ r.todo = txn[p].todo
    BY SessionFacts, TxnGoal DEF Phases
  <1> HIDE DEF r
  <1>3. txn[p].op = "execute" /\ ~Pending /\ TransitionValid(p)
    BY <1>1, SessionFacts DEF SessionSound, After
  <1>4. Drafts(p) /\ DraftSound(p)
    BY <1>1, <1>3, SessionFacts DEF Drafts
  <1>5. journal' \in Journals
    <2>1. /\ manifest \in Manifests /\ txn[p].want \in Manifests
          /\ txn[p].expect \in Writes /\ txn[p].writes \in Writes
      BY SessionFacts, TxnFields
    <2>2. "prepared" \in Phases
      BY DEF Phases
    <2> QED
      BY <1>1, <2>1, <2>2, Zenon DEF Journals
  <1>6. /\ journal'.phase = "prepared" /\ journal'.base = manifest
        /\ journal'.want = txn[p].want /\ journal'.expect = txn[p].expect
        /\ journal'.writes = txn[p].writes
    BY <1>1
  <1>7. DiskTypes'
    BY <1>1, <1>5 DEF WriteSessionInv, TypeOK, DiskTypes
  <1>8. manifest.generation \in Nat /\ txn[p].want.generation \in Nat
    BY SessionFacts, TxnFields, ManifestFields
  <1>9. manifest' # journal'.want /\ Pending'
    BY <1>1, <1>3, <1>6, <1>8, SMT DEF TransitionValid, Pending
  <1>10. JournalSound'
    <2>1. manifest'.roster \in Rosters
      BY <1>1, SessionFacts DEF JournalSound
    <2>2. Unambiguous'
      BY <1>1, <1>6 DEF Unambiguous, Published
    <2>3. /\ journal'.want.roster \in Rosters
          /\ DOMAIN journal'.expect = DOMAIN journal'.writes
          /\ ByArtifact(txn[p].writes) # {}
      BY <1>4, <1>6 DEF DraftSound
    <2>4. /\ txn[p].want.generation = manifest.generation + 1
          /\ {a \in Artifacts : manifest.roster[a] # txn[p].want.roster[a]}
                = ByArtifact(txn[p].writes)
          /\ \A a \in ByArtifact(txn[p].writes) :
                /\ manifest.roster[a] = txn[p].expect[a]
                /\ txn[p].want.roster[a] = txn[p].writes[a]
      BY <1>3 DEF TransitionValid, RosterTransitionValid, ByArtifact
    <2> QED
      BY <1>6, <1>9, <2>1, <2>2, <2>3, <2>4 DEF JournalSound, ByArtifact
  <1>11. Onward
    BY <1>1, <1>3, <1>8, SMT DEF Onward, LedgerOf
  <1>12. FilesSound'
    <2>1. FilesAfter
      BY <1>3, SessionFacts DEF FilesSound
    <2>2. Ledger \in DOMAIN txn[p].writes => txn[p].expect[Ledger] = recorded
      BY <1>3, <1>4 DEF DraftSound, TransitionValid, LedgerOf
    <2>3. FilesBefore'
      BY <1>1, <1>6, <2>1, <2>2, SMT DEF FilesAfter, FilesBefore, LedgerLast,
         InWrites, BySession
    <2> QED
      BY <1>9, <2>3 DEF FilesSound
  <1>13. ASSUME pc'[p] = "journal", txn'[p] = r
         PROVE  ~Drafts(p)' /\ SessionSound(p)'
    <2>1. Before(p)'
      BY <1>2, <1>6, <1>9, <1>13 DEF Before, SameDraft
    <2>2. r.todo = {}
      BY <1>2, <1>4 DEF DraftSound
    <2> QED
      BY <1>2, <1>13, <2>1, <2>2, SMT DEF Drafts, SessionSound
  <1>14. pc[p] \in Leased /\ "journal" \in Leased /\ "journal" \in Labels
    BY <1>1 DEF Leased, Labels
  <1> QED
    BY <1>1, <1>2, <1>7, <1>10, <1>11, <1>12, <1>13, <1>14, SessionStep DEF Txn

\* A later phase of the same journal.
PhaseMoves(g) ==
    /\ journal' = [journal EXCEPT !.phase = g]
    /\ jstage' = FALSE
    /\ UNCHANGED <<files, author, stage, manifest, recorded, used>>

LEMMA PhaseKeeps ==
    ASSUME WriteSessionInv, NEW g \in Phases \ {"none"}, PhaseMoves(g), Pending,
           g \in {"manifest-published", "generation-published"} =>
               manifest = journal.want
    PROVE  /\ DiskTypes' /\ Onward /\ JournalSound' /\ FilesSound'
           /\ journal'.want = journal.want /\ journal'.writes = journal.writes
           /\ Pending'
  <1>1. /\ journal' \in Journals
        /\ journal'.phase = g /\ journal'.base = journal.base
        /\ journal'.want = journal.want /\ journal'.expect = journal.expect
        /\ journal'.writes = journal.writes
    BY SessionFacts, JournalPhase DEF PhaseMoves, WriteSessionInv, TypeOK
  <1>2. DiskTypes'
    BY <1>1 DEF WriteSessionInv, TypeOK, DiskTypes, PhaseMoves
  <1>3. Pending'
    BY <1>1 DEF Pending
  <1>4. manifest.generation \in Nat
    BY ManifestFields DEF WriteSessionInv, TypeOK
  <1>5. Onward
    BY <1>1, <1>3, <1>4, SMT DEF Onward, PhaseMoves, LedgerOf, InWrites
  <1>6. JournalSound'
    <2>1. Unambiguous'
      BY <1>1, SMT DEF WriteSessionInv, JournalSound, Unambiguous, Published, PhaseMoves
    <2> QED
      BY <1>1, <1>3, <2>1 DEF WriteSessionInv, JournalSound, PhaseMoves, ByArtifact
  <1>7. FilesSound'
    BY <1>1, <1>3, SMT DEF WriteSessionInv, FilesSound, FilesBefore, FilesAfter,
       LedgerLast, PhaseMoves, InWrites, BySession, Readable
  <1> QED
    BY <1>1, <1>2, <1>3, <1>5, <1>6, <1>7

LEMMA LaterJournalKeeps ==
    ASSUME WriteSessionInv, NEW p \in Procs, PublishJournal(p),
           txn[p].goal # "prepared"
    PROVE  WriteSessionInv'
  <1> DEFINE g == txn[p].goal
  <1>1. /\ pc[p] = "rename" /\ PhaseMoves(g) /\ UNCHANGED <<lease, mem>>
    BY DEF PublishJournal, PhaseMoves
  <1>2. \/ g = "applying" /\ Before(p) /\ txn[p].todo \subseteq DOMAIN journal.writes
        \/ g \in {"manifest-published", "generation-published"} /\ After(p)
    BY <1>1, SessionFacts DEF SessionSound
  <1>3. pc[p] \in Leased
    BY <1>1 DEF Leased
  <1>4. g \in Phases \ {"none"}
    BY <1>2 DEF Phases
  <1>5. Pending /\ (g \in {"manifest-published", "generation-published"} =>
                       manifest = journal.want)
    BY <1>2 DEF Before, After
  <1>6. /\ DiskTypes' /\ Onward /\ JournalSound' /\ FilesSound'
        /\ journal'.want = journal.want /\ journal'.writes = journal.writes
        /\ Pending' /\ manifest' = manifest /\ stage' = stage
    BY <1>1, <1>4, <1>5, PhaseKeeps DEF PhaseMoves
  <1>7. CASE g = "manifest-published"
    <2> DEFINE r == [txn[p] EXCEPT !.goal = "generation-published"]
    <2>1. Goto(p, "journal") /\ txn' = [txn EXCEPT ![p] = r]
      BY <1>7 DEF PublishJournal, Advance
    <2>2. r \in Txns /\ SameDraft(txn[p], r) /\ r.goal = "generation-published"
      BY SessionFacts, TxnGoal DEF Phases
    <2> HIDE DEF r
    <2>3. ASSUME pc'[p] = "journal", txn'[p] = r
          PROVE  ~Drafts(p)' /\ SessionSound(p)'
      <3>1. After(p)'
        BY <1>2, <1>6, <1>7, <2>2, <2>3, SMT DEF After, SameDraft, Readable
      <3> QED
        BY <2>2, <2>3, <3>1, SMT DEF Drafts, SessionSound
    <2>4. "journal" \in Leased /\ "journal" \in Labels
      BY DEF Leased, Labels
    <2> QED
      BY <1>1, <1>3, <1>6, <2>1, <2>2, <2>3, <2>4, SessionStep DEF Txn, PhaseMoves
  <1>8. CASE g # "manifest-published"
    <2> DEFINE label == IF g = "generation-published" THEN "remove"
                        ELSE IF txn[p].op = "execute" THEN "verify" ELSE "stage"
    <2>1. Goto(p, label) /\ txn' = txn
      BY <1>8 DEF PublishJournal
    <2>2. Txn(p, txn[p])
      BY <2>1, SessionFacts DEF Txn, TypeOK
    <2>3. /\ label \in Leased /\ label \in Labels
          /\ g = "applying" => label \in {"verify", "stage"}
          /\ g = "generation-published" => label = "remove"
      BY DEF Leased, Labels
    <2> HIDE DEF label
    <2>4. ASSUME pc'[p] = label, txn'[p] = txn[p]
          PROVE  ~Drafts(p)' /\ SessionSound(p)'
      <3>1. CASE g = "applying"
        <4>1. Before(p)'
          BY <1>2, <1>6, <2>4, <3>1, SMT DEF Before
        <4> QED
          BY <1>2, <1>6, <2>3, <2>4, <3>1, <4>1, SMT DEF Drafts, SessionSound
      <3>2. CASE g = "generation-published"
        <4>1. After(p)'
          BY <1>2, <1>6, <2>4, <3>2, SMT DEF After, Readable
        <4> QED
          BY <2>3, <2>4, <3>2, <4>1, SMT DEF Drafts, SessionSound
      <3> QED
        BY <1>2, <1>8, <3>1, <3>2
    <2> QED
      BY <1>1, <1>3, <1>6, <2>1, <2>2, <2>3, <2>4, SessionStep DEF PhaseMoves
  <1> QED
    BY <1>7, <1>8

LEMMA PublishJournalKeeps ==
    ASSUME WriteSessionInv, NEW p \in Procs, PublishJournal(p)
    PROVE  WriteSessionInv'
  BY FirstJournalKeeps, LaterJournalKeeps

\* A target is replaced only by what the journal holds, the ledger last.
LEMMA ReplaceTargetKeeps ==
    ASSUME WriteSessionInv, NEW p \in Procs, ReplaceTarget(p)
    PROVE  WriteSessionInv'
  <1> DEFINE r == [txn[p] EXCEPT !.target = {}]
             T == txn[p].target
  <1>1. /\ pc[p] = "replace" /\ Goto(p, "reverify") /\ txn' = [txn EXCEPT ![p] = r]
        /\ files' = [t \in Targets |-> IF t \in T THEN journal.writes[t] ELSE files[t]]
        /\ author' = [t \in Targets |-> IF t \in T THEN "session" ELSE author[t]]
        /\ stage' = [t \in Targets |-> IF t \in T THEN Absent ELSE stage[t]]
        /\ UNCHANGED <<journal, jstage, manifest, recorded, lease, mem, used>>
    BY DEF ReplaceTarget, runtime
  <1>2. r \in Txns /\ SameDraft(txn[p], r) /\ r.todo = txn[p].todo
    BY SessionFacts, TxnTarget
  <1> HIDE DEF r
  <1>3. /\ Before(p) /\ T \subseteq DOMAIN journal.writes
        /\ txn[p].todo \subseteq DOMAIN journal.writes
        /\ Applied(txn[p].todo \cup T)
        /\ Ledger \in T => txn[p].todo = {}
    BY <1>1, SessionFacts DEF SessionSound
  <1>4. \A t \in T : journal.writes[t] \in Bodies
    BY <1>3, SessionFacts, JournalFields, WritesAre
  <1>5. /\ files \in [Targets -> Bodies]
        /\ author \in [Targets -> {"session", "external"}]
        /\ stage \in [Targets -> Bodies \cup {Torn}]
    BY SessionFacts DEF TypeOK
  <1>6. DiskTypes'
    BY <1>1, <1>4, <1>5, Constants DEF WriteSessionInv, TypeOK, DiskTypes
  <1>7. Pending /\ manifest # journal.want /\ FilesBefore /\ JournalSound
    BY <1>3, SessionFacts DEF Before, FilesSound
  <1>8. /\ \A t \in T : files'[t] = journal.writes[t] /\ stage'[t] = Absent
        /\ \A t \in Targets \ T : /\ files'[t] = files[t] /\ stage'[t] = stage[t]
                                  /\ author'[t] = author[t]
    BY <1>1, <1>3, SessionFacts
  <1>9. ByArtifact(journal.writes) \subseteq Artifacts
    BY SessionFacts DEF ByArtifact, Targets
  <1>10. JournalSound'
    BY <1>1, SessionFacts DEF JournalSound, Pending, Unambiguous, Published
  <1>11. Onward
    <2>1. manifest.generation \in Nat
      BY SessionFacts, ManifestFields
    <2>2. ASSUME NEW l \in Bodies, LedgerOf(l)
          PROVE  LedgerOf(l)'
      BY <1>1, <1>7, <1>8, <2>2, Constants DEF LedgerOf, Pending, InWrites
    <2> QED
      BY <1>1, <2>1, <2>2, SMT DEF Onward
  <1>12. FilesBefore'
    <2>1. InWrites' =>
             /\ journal'.expect[Ledger] = recorded'
             /\ files'[Ledger] \in {recorded', journal'.writes[Ledger]}
             /\ stage'[Ledger] # Absent => files'[Ledger] # journal'.writes[Ledger]
      BY <1>1, <1>7, <1>8, Constants DEF FilesBefore, InWrites
    <2>2. ~InWrites' => files'[Ledger] = recorded' /\ stage'[Ledger] = Absent
      BY <1>1, <1>3, <1>7, <1>8, Constants DEF FilesBefore, InWrites
    <2>3. ASSUME NEW a \in Artifacts, BySession(a)'
          PROVE  files'[a] \in {journal.base.roster[a], journal.want.roster[a]}
      <3>1. CASE a \in T
        <4>1. a \in ByArtifact(journal.writes)
          BY <1>3, <3>1, Constants DEF ByArtifact
        <4> QED
          BY <1>7, <1>8, <3>1, <4>1 DEF JournalSound
      <3>2. CASE a \notin T
        <4>1. files'[a] = files[a] /\ author'[a] = author[a]
          BY <1>8, <3>2, Constants
        <4> QED
          BY <1>7, <2>3, <4>1 DEF FilesBefore, BySession
      <3> QED
        BY <3>1, <3>2
    <2>4. ASSUME InWrites, files'[Ledger] # recorded, used.edits = 0,
                 NEW a \in ByArtifact(journal.writes)
          PROVE  files'[a] = journal.writes[a]
      <3>1. a \in Targets /\ a \in DOMAIN journal.writes
        BY SessionFacts DEF ByArtifact
      <3>2. CASE Ledger \in T
        BY <1>3, <1>8, <2>4, <3>1, <3>2, SMT DEF Applied
      <3>3. CASE Ledger \notin T
        <4>1. files[Ledger] # recorded
          BY <1>8, <2>4, <3>3, Constants
        <4>2. files[a] = journal.writes[a]
          BY <1>7, <2>4, <4>1 DEF FilesBefore, LedgerLast
        <4> QED
          BY <1>8, <3>1, <4>2
      <3> QED
        BY <3>2, <3>3
    <2>5. LedgerLast'
      BY <1>1, <2>4, SMT DEF LedgerLast, InWrites, ByArtifact
    <2> QED
      BY <1>1, <2>1, <2>2, <2>3, <2>5 DEF FilesBefore
  <1>13. FilesSound'
    BY <1>1, <1>7, <1>12, SMT DEF FilesSound, Pending
  <1>14. ASSUME pc'[p] = "reverify", txn'[p] = r
         PROVE  ~Drafts(p)' /\ SessionSound(p)'
    <2>1. Before(p)'
      BY <1>1, <1>2, <1>3, <1>14, SMT DEF Before, SameDraft, Pending
    <2>2. ASSUME NEW t \in DOMAIN journal.writes \ txn[p].todo,
                 t = Ledger \/ used.edits = 0
          PROVE  files'[t] = journal.writes[t]
      BY <1>3, <1>8, <2>2, SessionFacts DEF Applied
    <2>3. Applied(txn[p].todo)'
      BY <1>1, <1>2, <1>14, <2>2, SMT DEF Applied
    <2> QED
      BY <1>1, <1>2, <1>3, <1>14, <2>1, <2>3, SMT DEF Drafts, SessionSound
  <1>15. pc[p] \in Leased /\ "reverify" \in Leased /\ "reverify" \in Labels
    BY <1>1 DEF Leased, Labels
  <1> QED
    BY <1>1, <1>2, <1>6, <1>10, <1>11, <1>13, <1>14, <1>15, SessionStep DEF Txn

\* The proposal is in force once its manifest is.
LEMMA PublishManifestKeeps ==
    ASSUME WriteSessionInv, NEW p \in Procs, PublishManifest(p)
    PROVE  WriteSessionInv'
  <1> DEFINE r == [txn[p] EXCEPT !.goal = "manifest-published"]
  <1>1. /\ pc[p] = "manifest" /\ Goto(p, "journal") /\ txn' = [txn EXCEPT ![p] = r]
        /\ manifest = journal.base /\ manifest' = journal.want
        /\ recorded' = IF Ledger \in DOMAIN journal.writes
                       THEN journal.writes[Ledger] ELSE recorded
        /\ UNCHANGED <<files, author, stage, journal, jstage, lease, mem, used>>
    BY DEF PublishManifest, Advance
  <1>2. r \in Txns /\ SameDraft(txn[p], r) /\ r.goal = "manifest-published"
    BY SessionFacts, TxnGoal DEF Phases
  <1> HIDE DEF r
  <1>3. /\ Before(p) /\ LedgerApplied /\ Readable
        /\ \A a \in Artifacts : BySession(a) => files[a] = journal.want.roster[a]
    BY <1>1, SessionFacts DEF SessionSound
  <1>4. Pending /\ manifest # journal.want /\ FilesBefore /\ JournalSound
    BY <1>3, SessionFacts DEF Before, FilesSound
  <1>5. /\ journal.base \in Manifests /\ journal.want \in Manifests
        /\ InWrites => journal.writes[Ledger] \in Bodies
    BY SessionFacts, JournalFields, WritesAre DEF InWrites
  <1>6. DiskTypes'
    BY <1>1, <1>5 DEF WriteSessionInv, TypeOK, DiskTypes, InWrites
  <1>7. JournalSound'
    <2>1. Unambiguous'
      BY <1>1 DEF Unambiguous
    <2> QED
      BY <1>1, <1>4, <2>1 DEF JournalSound, Pending
  <1>8. Onward
    <2>1. /\ manifest.generation \in Nat
          /\ manifest'.generation = manifest.generation + 1
      BY <1>1, <1>4, SessionFacts, ManifestFields DEF JournalSound
    <2> QED
      BY <1>1, <2>1, SMT DEF Onward
  <1>9. FilesSound'
    <2>1. files[Ledger] = recorded'
      BY <1>1, <1>3, <1>4 DEF LedgerApplied, FilesBefore, InWrites
    <2>2. stage[Ledger] = Absent
      BY <1>3, <1>4 DEF LedgerApplied, FilesBefore
    <2> QED
      BY <1>1, <1>3, <1>4, <2>1, <2>2, SMT
         DEF FilesSound, FilesAfter, Pending, InWrites, BySession
  <1>10. ASSUME pc'[p] = "journal", txn'[p] = r
         PROVE  ~Drafts(p)' /\ SessionSound(p)'
    <2>1. After(p)'
      BY <1>1, <1>2, <1>3, <1>10, SMT DEF Before, After, SameDraft, Pending, Readable
    <2> QED
      BY <1>2, <1>10, <2>1, SMT DEF Drafts, SessionSound
  <1>11. pc[p] \in Leased /\ "journal" \in Leased /\ "journal" \in Labels
    BY <1>1 DEF Leased, Labels
  <1> QED
    BY <1>1, <1>2, <1>6, <1>7, <1>8, <1>9, <1>10, <1>11, SessionStep DEF Txn

LEMMA RemoveJournalKeeps ==
    ASSUME WriteSessionInv, NEW p \in Procs, RemoveJournal(p)
    PROVE  WriteSessionInv'
  <1>1. /\ pc[p] = "remove" /\ Goto(p, "done") /\ journal' = NoJournal
        /\ UNCHANGED <<files, author, stage, jstage, manifest, recorded, lease,
                       txn, mem, used>>
    BY DEF RemoveJournal
  <1>2. Txn(p, txn[p])
    BY <1>1, SessionFacts DEF Txn, TypeOK
  <1>3. After(p)
    BY <1>1, SessionFacts DEF SessionSound
  <1>4. Pending /\ manifest = journal.want /\ Readable /\ FilesAfter
    BY <1>3, SessionFacts DEF After, FilesSound
  <1>5. ~Pending'
    BY <1>1, NoJournalType DEF Pending
  <1>6. DiskTypes'
    BY <1>1, NoJournalType DEF WriteSessionInv, TypeOK, DiskTypes
  <1>7. JournalSound'
    BY <1>1, <1>5, SessionFacts DEF JournalSound
  <1>8. Onward
    <2>1. manifest.generation \in Nat
      BY SessionFacts, ManifestFields
    <2>2. \A l \in Bodies : LedgerOf(l) => LedgerOf(l)'
      BY <1>1, <1>4 DEF LedgerOf
    <2> QED
      BY <1>1, <2>1, <2>2, SMT DEF Onward
  <1>9. FilesSound'
    BY <1>1, <1>4, <1>5, SMT DEF FilesSound, FilesAfter, Readable, BySession
  <1>10. ASSUME pc'[p] = "done", txn'[p] = txn[p]
         PROVE  ~Drafts(p)' /\ SessionSound(p)'
    <2>1. txn[p].op = "execute" =>
             /\ manifest = txn[p].want
             /\ Ledger \in DOMAIN txn[p].writes => recorded = txn[p].writes[Ledger]
      BY <1>3, <1>4 DEF After, FilesAfter, InWrites
    <2> QED
      BY <1>1, <1>5, <1>10, <2>1, SMT DEF Drafts, SessionSound
  <1>11. pc[p] \in Leased /\ "done" \in Leased /\ "done" \in Labels
    BY <1>1 DEF Leased, Labels
  <1> QED
    BY <1>1, <1>2, <1>6, <1>7, <1>8, <1>9, <1>10, <1>11, SessionStep

-----------------------------------------------------------------------------
(* Faults and external writers. *)

LEMMA Faulted ==
    ASSUME TypeOK, used' = [used EXCEPT !.faults = @ + 1]
    PROVE  /\ used' \in [commits : Nat, edits : Nat, faults : Nat]
           /\ used'.edits = used.edits
  BY SMT DEF TypeOK

LEMMA CrashKeeps ==
    ASSUME WriteSessionInv, NEW p \in Procs, Crash(p)
    PROVE  WriteSessionInv'
  <1>1. /\ TypeOK /\ Goto(p, "idle") /\ txn' = [txn EXCEPT ![p] = NoTxn]
        /\ mem' = [mem EXCEPT ![p] = Unbound] /\ lease' = Freed(p)
        /\ used' = [used EXCEPT !.faults = @ + 1]
        /\ Still /\ UNCHANGED jstage
    BY DEF WriteSessionInv, Crash, Still, disk, runtime
  <1>2. /\ used' \in [commits : Nat, edits : Nat, faults : Nat]
        /\ used'.edits = used.edits
    BY <1>1, Faulted
  <1>3. /\ Alone(p)
        /\ pc' \in [Procs -> Labels] /\ txn' \in [Procs -> Txns]
        /\ mem' \in [Procs -> Mems]
        /\ pc'[p] = "idle" /\ txn'[p] = NoTxn /\ mem'[p] = Unbound
    BY <1>1, NoTxnType, UnboundType, MemStep DEF Txn, Labels
  <1>4. lease' \in Procs \cup {NoProc}
    BY <1>1 DEF TypeOK, Freed
  <1>5. TypeOK'
    BY <1>1, <1>2, <1>3, <1>4 DEF TypeOK, Still
  <1>6. LeaseMoves(p)
    BY <1>1, <1>3 DEF LeaseMoves, Leased
  <1>7. ~Drafts(p)' /\ SessionSound(p)'
    BY <1>3, SMT DEF Drafts, SessionSound
  <1> QED
    BY <1>1, <1>2, <1>3, <1>5, <1>6, <1>7, StillStep

LEMMA FileFailsKeeps ==
    ASSUME WriteSessionInv, NEW p \in Procs, FileFails(p)
    PROVE  WriteSessionInv'
  <1>1. /\ TypeOK /\ Leave(p) /\ journal' = journal
        /\ used' = [used EXCEPT !.faults = @ + 1]
    BY DEF WriteSessionInv, FileFails
  <1>2. /\ used' \in [commits : Nat, edits : Nat, faults : Nat]
        /\ used'.edits = used.edits
    BY <1>1, Faulted
  <1>3. CASE pc[p] \in {"fill", "replace"}
    <2>1. pc[p] \in Leased /\ Before(p)
      BY <1>3, SessionFacts DEF SessionSound, Leased
    <2>2. stage \in [Targets -> Bodies \cup {Torn}] /\ jstage \in BOOLEAN
      BY <1>1 DEF TypeOK
    <2>3. /\ jstage' = jstage
          /\ \/ stage' = WithoutStages(p)
             \/ stage' = [t \in Targets |-> IF t \in txn[p].target
                                            THEN Absent ELSE stage[t]]
      BY <1>3 DEF FileFails
    <2>4. /\ stage' \in [Targets -> Bodies \cup {Torn}]
          /\ stage'[Ledger] \in {stage[Ledger], Absent}
      BY <1>1, <2>2, <2>3, StagesLeft, Constants
    <2> QED
      BY <1>1, <1>2, <2>1, <2>2, <2>3, <2>4, LeaveWithStages
  <1>4. CASE pc[p] \notin {"fill", "replace"}
    <2>1. stage' = stage /\ jstage' \in BOOLEAN
      BY <1>1, <1>4 DEF FileFails, TypeOK
    <2>2. Still
      BY <1>1, <2>1 DEF Still, Leave
    <2>3. /\ Alone(p) /\ LeaseMoves(p)
          /\ pc' \in [Procs -> Labels] /\ txn' \in [Procs -> Txns]
          /\ mem' \in [Procs -> Mems] /\ lease' \in Procs \cup {NoProc}
          /\ pc'[p] = "idle" /\ txn'[p] = NoTxn /\ mem'[p] = mem[p]
      BY <1>1, LeaveEffects
    <2>4. TypeOK'
      BY <1>1, <1>2, <2>1, <2>2, <2>3 DEF TypeOK, Still
    <2>5. ~Drafts(p)' /\ SessionSound(p)'
      BY <2>3, SMT DEF Drafts, SessionSound
    <2> QED
      BY <1>2, <2>2, <2>3, <2>4, <2>5, StillStep
  <1> QED
    BY <1>3, <1>4

\* What an external writer may change is not a session's to promise.
LEMMA ExternalEditKeeps ==
    ASSUME WriteSessionInv, NEW a \in Artifacts,
           NEW body \in ExternalBodies \cup {Absent, manifest.roster[a]},
           ExternalEdit(a, body)
    PROVE  WriteSessionInv'
  <1>1. /\ files' = [files EXCEPT ![a] = body]
        /\ author' = [author EXCEPT ![a] = "external"]
        /\ used' = [used EXCEPT !.edits = @ + 1]
        /\ UNCHANGED <<stage, journal, jstage, manifest, recorded, lease, pc, txn, mem>>
        /\ ~RawRace => ~Replacing(a)
    BY DEF ExternalEdit, runtime
  <1>2. TypeOK /\ JournalSound /\ FilesSound
    BY DEF WriteSessionInv
  <1>3. body \in Bodies
    BY <1>2, Constants DEF JournalSound, Rosters
  <1>4. /\ used' \in [commits : Nat, edits : Nat, faults : Nat]
        /\ used'.edits # 0
    BY <1>1, <1>2, SMT DEF TypeOK
  <1>5. /\ \A t \in Targets \ {a} : files'[t] = files[t] /\ author'[t] = author[t]
        /\ author'[a] = "external" /\ files'[Ledger] = files[Ledger]
        /\ files' \in [Targets -> Bodies]
        /\ author' \in [Targets -> {"session", "external"}]
    BY <1>1, <1>2, <1>3, Constants DEF TypeOK
  <1>6. TypeOK'
    BY <1>1, <1>2, <1>4, <1>5 DEF TypeOK
  <1>7. LeaseHeld'
    BY <1>1 DEF WriteSessionInv, LeaseHeld
  <1>8. JournalSound'
    BY <1>1, <1>2 DEF JournalSound, Pending, Unambiguous, Published
  <1>9. \A b \in Artifacts : BySession(b)' => BySession(b) /\ files'[b] = files[b]
    BY <1>5, Constants DEF BySession
  <1>10. FilesSound'
    <2>1. LedgerLast'
      BY <1>4 DEF LedgerLast
    <2> QED
      BY <1>1, <1>2, <1>5, <1>9, <2>1, SMT
         DEF FilesSound, FilesBefore, FilesAfter, Pending, InWrites, Readable
  <1>11. ASSUME NEW p \in Procs
         PROVE  ProcessSound(p)'
    <2>1. ProcessSound(p) /\ txn[p] \in Txns
      BY <1>2, ProcessTypes DEF WriteSessionInv
    <2>2. BindingsSound(p)'
      BY <1>1, <1>4, <1>5, <2>1, SMT
         DEF ProcessSound, BindingsSound, Binding, LedgerOf, Pending, InWrites
    <2>3. Drafts(p)' => DraftSound(p)'
      BY <1>1, <1>5, <2>1, SMT
         DEF ProcessSound, Drafts, DraftSound, LedgerOf, Pending, InWrites, ByArtifact
    <2>4. SessionSound(p)'
      <3>1. /\ Pending' <=> Pending
            /\ Readable' <=> Readable
            /\ TransitionValid(p)' <=> TransitionValid(p)
            /\ LedgerApplied' <=> LedgerApplied
        BY <1>1, <1>5, SMT DEF Pending, Readable, TransitionValid,
           RosterTransitionValid, LedgerApplied, InWrites
      <3>2. (Before(p)' <=> Before(p)) /\ (After(p)' <=> After(p))
        BY <1>1, <3>1 DEF Before, After
      <3>3. /\ txn[p].todo \in SUBSET Targets /\ txn[p].target \in SUBSET Targets
            /\ txn[p].todo \cup txn[p].target \in SUBSET Targets
        BY <2>1, TxnFields
      <3>4. /\ Applied(txn[p].todo) => Applied(txn[p].todo)'
            /\ Applied(txn[p].todo \cup txn[p].target)
                  => Applied(txn[p].todo \cup txn[p].target)'
        BY <1>1, <1>4, <1>5, SMT DEF Applied
      <3>5. ASSUME pc[p] = "replace", ~RawRace
            PROVE  \A t \in txn[p].target : files'[t] = files[t]
        BY <1>1, <1>5, <3>3, <3>5 DEF Replacing
      <3> QED
        BY <1>1, <1>5, <1>9, <2>1, <3>1, <3>2, <3>4, <3>5, SMT
           DEF ProcessSound, SessionSound
    <2> QED
      BY <1>1, <2>1, <2>2, <2>3, <2>4 DEF ProcessSound
  <1> QED
    BY <1>6, <1>7, <1>8, <1>10, <1>11 DEF WriteSessionInv

-----------------------------------------------------------------------------
(* The invariant. *)

LEMMA InitEstablishes ==
    ASSUME Init
    PROVE  WriteSessionInv
  <1>1. [a \in Artifacts |-> 0] \in Rosters
    BY Constants DEF Rosters
  <1>2. /\ manifest \in Manifests /\ manifest.roster = [a \in Artifacts |-> 0]
    BY <1>1, ManifestOf DEF Init
  <1>3. TypeOK
    BY <1>2, NoJournalType, NoTxnType, UnboundType, Constants
       DEF Init, TypeOK, Labels
  <1>4. /\ \A p \in Procs : pc[p] = "idle" /\ txn[p] = NoTxn /\ mem[p] = Unbound
        /\ lease = NoProc /\ ~Pending /\ journal = NoJournal
        /\ \A t \in Targets : files[t] = 0 /\ stage[t] = Absent
        /\ recorded = 0
    BY NoJournalType DEF Init, Pending
  <1>5. LeaseHeld
    BY <1>4, Constants DEF LeaseHeld, Leased
  <1>6. JournalSound
    BY <1>1, <1>2, <1>4 DEF JournalSound
  <1>7. FilesSound
    BY <1>2, <1>4, Constants DEF FilesSound, FilesAfter, Readable
  <1>8. ASSUME NEW p \in Procs
        PROVE  ProcessSound(p)
    <2>1. manifest # NoManifest
      BY <1>1, <1>2, NoManifestType, NoWritesType
    <2>2. BindingsSound(p)
      BY <1>4, <2>1, UnboundType DEF BindingsSound
    <2>3. ~Drafts(p) /\ SessionSound(p)
      BY <1>4, SMT DEF Drafts, SessionSound
    <2> QED
      BY <1>4, <2>2, <2>3 DEF ProcessSound
  <1> QED
    BY <1>3, <1>5, <1>6, <1>7, <1>8 DEF WriteSessionInv

LEMMA StepsKeep ==
    ASSUME WriteSessionInv, NEW p \in Procs, Step(p)
    PROVE  WriteSessionInv'
  <1>1. CASE AdmitReadRepository(p)
    BY <1>1, AdmitReadRepositoryKeeps
  <1>2. CASE ReadRuntimeState(p)
    BY <1>2, ReadRuntimeStateKeeps
  <1>3. CASE ReadLedger(p)
    BY <1>3, ReadLedgerKeeps
  <1>4. CASE ReadPhysical(p)
    BY <1>4, ReadPhysicalKeeps
  <1>5. CASE CheckAdmissionFresh(p)
    BY <1>5, CheckAdmissionFreshKeeps
  <1>6. CASE AcquireLease(p)
    BY <1>6, AcquireLeaseKeeps
  <1>7. CASE OpenExecution(p)
    BY <1>7, OpenExecutionKeeps
  <1>8. CASE OpenRecovery(p)
    BY <1>8, OpenRecoveryKeeps
  <1>9. CASE StageJournal(p)
    BY <1>9, StageJournalKeeps
  <1>10. CASE PublishJournal(p)
    BY <1>10, PublishJournalKeeps
  <1>11. CASE VerifyRecoveryState(p)
    BY <1>11, VerifyRecoveryStateKeeps
  <1>12. CASE \E t \in Targets : StageUnneeded(p, t) \/ OpenStage(p, t)
    BY <1>12, StageUnneededKeeps, OpenStageKeeps
  <1>13. CASE FillStage(p)
    BY <1>13, FillStageKeeps
  <1>14. CASE TargetsStaged(p)
    BY <1>14, TargetsStagedKeeps
  <1>15. CASE \E t \in Targets : TargetApplied(p, t) \/ CompareTarget(p, t)
    BY <1>15, TargetAppliedKeeps, CompareTargetKeeps
  <1>16. CASE ReplaceTarget(p)
    BY <1>16, ReplaceTargetKeeps
  <1>17. CASE VerifyReplacement(p)
    BY <1>17, VerifyReplacementKeeps
  <1>18. CASE TargetsApplied(p)
    BY <1>18, TargetsAppliedKeeps
  <1>19. CASE VerifyAuthority(p)
    BY <1>19, VerifyAuthorityKeeps
  <1>20. CASE PublishManifest(p)
    BY <1>20, PublishManifestKeeps
  <1>21. CASE RemoveJournal(p)
    BY <1>21, RemoveJournalKeeps
  <1>22. CASE Return(p)
    BY <1>22, ReturnKeeps
  <1> QED
    BY <1>1, <1>2, <1>3, <1>4, <1>5, <1>6, <1>7, <1>8, <1>9, <1>10, <1>11, <1>12,
       <1>13, <1>14, <1>15, <1>16, <1>17, <1>18, <1>19, <1>20, <1>21, <1>22
       DEF Step

LEMMA NextKeeps ==
    ASSUME WriteSessionInv, [Next]_vars
    PROVE  WriteSessionInv'
  <1>1. ASSUME NEW p \in Procs, Call(p)
        PROVE  WriteSessionInv'
    BY <1>1, LoadBaselineKeeps, AdmitKeeps, ProposeKeeps DEF Call
  <1>2. ASSUME External
        PROVE  WriteSessionInv'
    BY <1>2, ExternalEditKeeps DEF External
  <1>3. ASSUME UNCHANGED vars
        PROVE  WriteSessionInv'
    <2>1. /\ Still /\ UNCHANGED <<jstage, lease, pc, txn, mem, used>>
          /\ TypeOK /\ LeaseHeld /\ JournalSound /\ FilesSound
          /\ \A p \in Procs : ProcessSound(p)
      BY <1>3 DEF vars, disk, runtime, Still, WriteSessionInv
    <2>2. TypeOK'
      BY <2>1 DEF TypeOK, Still
    <2>3. LeaseHeld'
      BY <2>1 DEF LeaseHeld
    <2>4. JournalSound'
      BY <2>1 DEF Still, JournalSound, Pending, Unambiguous, Published
    <2>5. FilesSound'
      BY <2>1, SMT DEF Still, FilesSound, FilesBefore, FilesAfter,
         LedgerLast, Pending, InWrites, BySession, Readable
    <2>6. ASSUME NEW p \in Procs
          PROVE  ProcessSound(p)'
      <3>1. Alone(p) /\ Onward
        BY <2>1, StillIsOnward DEF Alone
      <3>2. BindingsSound(p)'
        BY <2>1, <2>2, <3>1, BindingsKept DEF ProcessSound, JournalSound, Still
      <3>3. Drafts(p)' => DraftSound(p)'
        BY <2>1, DraftKept DEF Drafts, SameDraft
      <3>4. SessionSound(p)'
        BY <2>1, SMT
           DEF ProcessSound, SessionSound, Still, Before, After, Applied,
               LedgerApplied, TransitionValid, RosterTransitionValid, Readable,
               Pending, InWrites, BySession
      <3> QED
        BY <2>1, <3>2, <3>3, <3>4 DEF ProcessSound
    <2> QED
      BY <2>2, <2>3, <2>4, <2>5, <2>6 DEF WriteSessionInv
  <1> QED
    BY <1>1, <1>2, <1>3, StepsKeep, CrashKeeps, FileFailsKeeps DEF Next

\* What every step of every process, fault and external writer keeps.
THEOREM WriteSessionInvariant == Spec => []WriteSessionInv
  <1>1. Init => WriteSessionInv
    BY InitEstablishes
  <1>2. WriteSessionInv /\ [Next]_vars => WriteSessionInv'
    BY NextKeeps
  <1> QED
    BY <1>1, <1>2, PTL DEF Spec

\* Every variable has its type.
THEOREM SessionTypeCorrect == Spec => []TypeOK
  <1>1. WriteSessionInv => TypeOK
    BY DEF WriteSessionInv
  <1> QED
    BY <1>1, WriteSessionInvariant, PTL

-----------------------------------------------------------------------------
(* What the invariant says of the operations. *)

\* No mutation appears in part as a committed generation (execute_write_session,
\* _recover_locked).
THEOREM NoPartialGenerationHolds == Spec => []NoPartialGeneration
  <1>1. WriteSessionInv => NoPartialGeneration
    BY DEF WriteSessionInv, FilesSound, FilesAfter, NoPartialGeneration, BySession
  <1> QED
    BY <1>1, WriteSessionInvariant, PTL

\* The ledger holds the answers of exactly the operations in force.
THEOREM LedgerIsExactHolds == Spec => []LedgerIsExact
  <1>1. WriteSessionInv => LedgerIsExact
    BY DEF WriteSessionInv, FilesSound, FilesAfter, LedgerIsExact
  <1> QED
    BY <1>1, WriteSessionInvariant, PTL

\* A command looks for replays in the ledger of the manifest it is bound to
\* (V4TaskRepository._load).
THEOREM ReplaysFromItsLedgerHolds == Spec => []ReplaysFromItsLedger
  <1>1. ASSUME WriteSessionInv, NEW p \in Procs, mem[p].base = manifest,
               ~mem[p].admitted, ~Pending \/ used.edits = 0
        PROVE  mem[p].ledger = recorded
    <2>1. BindingsSound(p) /\ JournalSound
      BY <1>1, SessionFacts
    <2>2. CASE used.edits = 0
      BY <1>1, <2>1, <2>2 DEF BindingsSound
    <2>3. CASE ~Pending
      <3>1. mem[p].base # NoManifest
        BY <1>1, <2>1, NoManifestType, NoWritesType DEF JournalSound
      <3>2. Binding(mem[p].base.generation, mem[p].ledger)
        BY <1>1, <2>1, <3>1 DEF BindingsSound
      <3> QED
        BY <1>1, <2>3, <3>2 DEF Binding, LedgerOf
    <2> QED
      BY <1>1, <2>2, <2>3
  <1>2. WriteSessionInv => ReplaysFromItsLedger
    BY <1>1 DEF ReplaysFromItsLedger
  <1> QED
    BY <1>2, WriteSessionInvariant, PTL

\* An operation is only ever prepared from the ledger in force.
THEOREM LedgerExpectedInForceHolds == Spec => []LedgerExpectedInForce
  <1>1. ASSUME WriteSessionInv, Pending, manifest = journal.base, InWrites
        PROVE  journal.expect[Ledger] = recorded
    <2>1. JournalSound /\ FilesSound /\ journal \in Journals
      BY <1>1 DEF WriteSessionInv, TypeOK
    <2>2. journal.want.generation # journal.base.generation
      BY <1>1, <2>1, JournalFields, ManifestFields, SMT DEF JournalSound
    <2>3. manifest # journal.want
      BY <1>1, <2>2
    <2> QED
      BY <1>1, <2>1, <2>3 DEF FilesSound, FilesBefore
  <1>2. WriteSessionInv => LedgerExpectedInForce
    BY <1>1 DEF LedgerExpectedInForce, InWrites
  <1> QED
    BY <1>2, WriteSessionInvariant, PTL

\* A recovery never meets an ambiguous manifest.
THEOREM RecoveryUnambiguousHolds == Spec => []RecoveryUnambiguous
  <1>1. WriteSessionInv => RecoveryUnambiguous
    BY DEF WriteSessionInv, JournalSound, RecoveryUnambiguous
  <1> QED
    BY <1>1, WriteSessionInvariant, PTL

\* No staged file outlives its operation.
THEOREM NoResidueHolds == Spec => []NoResidue
  <1>1. WriteSessionInv => NoResidue
    BY DEF WriteSessionInv, FilesSound, FilesAfter, Readable, NoResidue, Targets
  <1> QED
    BY <1>1, WriteSessionInvariant, PTL

\* An operation reported as committed is in force.
THEOREM ReportedIsInForceHolds == Spec => []ReportedIsInForce
  <1>1. ASSUME WriteSessionInv, NEW p \in Procs, pc[p] = "done",
               txn[p].op = "execute"
        PROVE  /\ ~Pending
               /\ manifest = txn[p].want
               /\ Ledger \in DOMAIN txn[p].writes =>
                     files[Ledger] = txn[p].writes[Ledger]
    <2>1. SessionSound(p) /\ FilesSound
      BY <1>1, SessionFacts
    <2>2. /\ ~Pending
          /\ manifest = txn[p].want
          /\ Ledger \in DOMAIN txn[p].writes => recorded = txn[p].writes[Ledger]
      BY <1>1, <2>1, SMT DEF SessionSound
    <2>3. files[Ledger] = recorded
      BY <2>1, <2>2 DEF FilesSound, FilesAfter
    <2> QED
      BY <2>2, <2>3
  <1>2. WriteSessionInv => ReportedIsInForce
    BY <1>1 DEF ReportedIsInForce
  <1> QED
    BY <1>2, WriteSessionInvariant, PTL

\* Where no external writer acts between a target's comparison and its
\* replacement, no replacement overwrites foreign bytes (TARGET_CAS_MISMATCH).
THEOREM ForeignPreservedHolds ==
    ASSUME ~RawRace
    PROVE  Spec => ForeignPreserved
  <1> DEFINE Kept == \A p \in Procs : \A t \in txn[p].target :
                         (pc[p] = "replace" /\ files'[t] # files[t])
                             => files[t] = journal.expect[t]
  <1>1. ASSUME WriteSessionInv, NEW p \in Procs, pc[p] = "replace",
               NEW t \in txn[p].target
        PROVE  files[t] = journal.expect[t]
    BY <1>1, SessionFacts DEF SessionSound
  <1>2. WriteSessionInv /\ [Next]_vars => [Kept]_vars
    BY <1>1
  <1> QED
    BY <1>2, WriteSessionInvariant, PTL DEF Spec, ForeignPreserved

-----------------------------------------------------------------------------
(* The write session implements AtomicAuthority. *)

Content == [t \in Targets |-> IF t = Ledger THEN recorded ELSE manifest.roster[t]]
Effective == Pending /\ manifest = journal.want

LEMMA InitRefined ==
    ASSUME Init
    PROVE  Promise!Init
  <1>1. WriteSessionInv
    BY InitEstablishes
  <1>2. manifest.generation = 0 /\ journal = NoJournal
    <2>1. manifest.generation = 0
      BY DEF Init, Manifest
    <2> QED
      BY <2>1 DEF Init
  <1>3. journal.writes = Promise!Nothing /\ ~Pending
    BY <1>2, NoJournalType DEF Pending, NoWrites, Promise!Nothing
  <1>4. Content \in [Targets -> Bodies]
    BY <1>1 DEF WriteSessionInv, TypeOK, JournalSound, Rosters, Content, Targets
  <1> QED
    BY <1>2, <1>3, <1>4 DEF Promise!Init, Content

\* Nothing of the promise moves while the journal, the manifest and the recorded
\* ledger do not.
LEMMA PromiseStutters ==
    ASSUME journal'.writes = journal.writes, journal'.want = journal.want,
           Pending' <=> Pending, UNCHANGED <<manifest, recorded>>
    PROVE  UNCHANGED Promise!vars
  BY DEF Promise!vars, Pending

LEMMA PublishJournalRefined ==
    ASSUME WriteSessionInv, NEW p \in Procs, PublishJournal(p)
    PROVE  [Promise!Next]_Promise!vars
  <1>1. pc[p] = "rename" /\ UNCHANGED <<manifest, recorded>>
    BY DEF PublishJournal
  <1>2. CASE txn[p].goal = "prepared"
    <2>1. ~Pending /\ TransitionValid(p) /\ DraftSound(p) /\ JournalSound
      BY <1>1, <1>2, SessionFacts DEF SessionSound, Drafts
    <2>2. journal'.writes = txn[p].writes /\ journal'.want = txn[p].want
      BY <1>2 DEF PublishJournal
    <2>3. journal.writes = Promise!Nothing
      BY <2>1, NoJournalType DEF JournalSound, NoWrites, Promise!Nothing
    <2>4. txn[p].writes \in Promise!Operations
      <3>1. txn[p].writes \in Writes
        BY SessionFacts, TxnFields
      <3>2. DOMAIN txn[p].writes # {}
        BY <2>1 DEF DraftSound, ByArtifact
      <3>3. txn[p].writes # Promise!Nothing
        BY <3>2 DEF Promise!Nothing
      <3> QED
        BY <3>1, <3>3, Zenon DEF Writes, Promise!Operations
    <2>5. manifest # txn[p].want
      <3>1. manifest.generation \in Nat
        BY SessionFacts, ManifestFields
      <3> QED
        BY <2>1, <3>1, SMT DEF TransitionValid
    <2>6. Promise!Prepare
      BY <1>1, <2>1, <2>2, <2>3, <2>4, <2>5, SMT DEF Promise!Prepare, Pending
    <2> QED
      BY <2>6 DEF Promise!Next
  <1>3. CASE txn[p].goal # "prepared"
    <2>1. Pending /\ txn[p].goal \in Phases \ {"none"}
      BY <1>1, <1>3, SessionFacts DEF SessionSound, Before, After, Phases
    <2>2. journal' = [journal EXCEPT !.phase = txn[p].goal]
      BY <1>3 DEF PublishJournal
    <2>3. /\ journal'.writes = journal.writes /\ journal'.want = journal.want
          /\ journal'.phase = txn[p].goal
      BY <2>1, <2>2, SessionFacts, JournalPhase
    <2>4. Pending'
      BY <2>1, <2>3 DEF Pending
    <2> QED
      BY <1>1, <2>1, <2>3, <2>4, PromiseStutters
  <1> QED
    BY <1>2, <1>3

LEMMA PublishManifestRefined ==
    ASSUME WriteSessionInv, NEW p \in Procs, PublishManifest(p)
    PROVE  Promise!TakeEffect
  <1>1. /\ pc[p] = "manifest" /\ manifest = journal.base /\ manifest' = journal.want
        /\ recorded' = IF Ledger \in DOMAIN journal.writes
                       THEN journal.writes[Ledger] ELSE recorded
        /\ UNCHANGED journal
    BY DEF PublishManifest
  <1>2. Pending /\ manifest # journal.want /\ JournalSound
    BY <1>1, SessionFacts DEF SessionSound, Before
  <1>3. journal.writes # Promise!Nothing
    BY <1>2 DEF JournalSound, ByArtifact, Promise!Nothing
  <1>4. ASSUME NEW t \in Targets
        PROVE  Content'[t] = IF t \in DOMAIN journal.writes
                             THEN journal.writes[t] ELSE Content[t]
    <2>1. CASE t = Ledger
      BY <1>1, <2>1, Constants DEF Content
    <2>2. CASE t # Ledger
      <3>1. t \in Artifacts
        BY <2>2 DEF Targets
      <3>2. Content'[t] = journal.want.roster[t] /\ Content[t] = journal.base.roster[t]
        BY <1>1, <2>2 DEF Content
      <3> QED
        BY <1>2, <2>2, <3>1, <3>2 DEF JournalSound, ByArtifact
    <2> QED
      BY <2>1, <2>2
  <1>5. Content' = [t \in Targets |-> IF t \in DOMAIN journal.writes
                                      THEN journal.writes[t] ELSE Content[t]]
    BY <1>4 DEF Content
  <1>6. manifest'.generation = manifest.generation + 1
    BY <1>1, <1>2 DEF JournalSound
  <1> QED
    BY <1>1, <1>2, <1>3, <1>5, <1>6 DEF Promise!TakeEffect, Content, Pending

LEMMA RemoveJournalRefined ==
    ASSUME WriteSessionInv, NEW p \in Procs, RemoveJournal(p)
    PROVE  Promise!Finish
  <1>1. pc[p] = "remove" /\ journal' = NoJournal /\ UNCHANGED <<manifest, recorded>>
    BY DEF RemoveJournal
  <1>2. Pending /\ manifest = journal.want
    BY <1>1, SessionFacts DEF SessionSound, After
  <1>3. ~Pending' /\ journal'.writes = Promise!Nothing
    BY <1>1, NoJournalType DEF Pending, NoWrites, Promise!Nothing
  <1> QED
    BY <1>1, <1>2, <1>3 DEF Promise!Finish

LEMMA OtherStepsStutter ==
    ASSUME NEW p \in Procs, Step(p),
           ~PublishJournal(p), ~PublishManifest(p), ~RemoveJournal(p)
    PROVE  UNCHANGED <<journal, manifest, recorded>>
  <1>1. ASSUME Refuse(p) \/ RefuseAndCleanUp(p)
        PROVE  UNCHANGED <<journal, manifest, recorded>>
    BY <1>1 DEF Refuse, RefuseAndCleanUp, Leave
  <1>2. ASSUME \/ AdmitReadRepository(p) \/ ReadRuntimeState(p) \/ ReadLedger(p)
               \/ ReadPhysical(p) \/ CheckAdmissionFresh(p) \/ AcquireLease(p)
               \/ OpenExecution(p) \/ OpenRecovery(p)
        PROVE  UNCHANGED <<journal, manifest, recorded>>
    BY <1>1, <1>2 DEF AdmitReadRepository, ReadRuntimeState, ReadLedger, ReadPhysical,
       CheckAdmissionFresh, AcquireLease, OpenExecution, OpenRecovery, disk, runtime
  <1>3. ASSUME \/ StageJournal(p) \/ VerifyRecoveryState(p)
               \/ \E t \in Targets : StageUnneeded(p, t) \/ OpenStage(p, t)
               \/ FillStage(p) \/ TargetsStaged(p)
        PROVE  UNCHANGED <<journal, manifest, recorded>>
    BY <1>1, <1>3 DEF StageJournal, VerifyRecoveryState, StageUnneeded, OpenStage,
       FillStage, TargetsStaged, disk, runtime
  <1>4. ASSUME \/ \E t \in Targets : TargetApplied(p, t) \/ CompareTarget(p, t)
               \/ ReplaceTarget(p) \/ VerifyReplacement(p) \/ TargetsApplied(p)
               \/ VerifyAuthority(p) \/ Return(p)
        PROVE  UNCHANGED <<journal, manifest, recorded>>
    BY <1>1, <1>4 DEF TargetApplied, CompareTarget, ReplaceTarget, VerifyReplacement,
       TargetsApplied, VerifyAuthority, Return, disk, runtime
  <1> QED
    BY <1>2, <1>3, <1>4 DEF Step

LEMMA NextRefined ==
    ASSUME WriteSessionInv, [Next]_vars
    PROVE  [Promise!Next]_Promise!vars
  <1>1. CASE UNCHANGED <<journal, manifest, recorded>>
    BY <1>1, PromiseStutters DEF Pending
  <1>2. ASSUME NEW p \in Procs, Step(p)
        PROVE  [Promise!Next]_Promise!vars
    BY <1>1, <1>2, PublishJournalRefined, PublishManifestRefined,
       RemoveJournalRefined, OtherStepsStutter DEF Promise!Next
  <1>3. ASSUME NEW p \in Procs, Call(p) \/ Crash(p) \/ FileFails(p)
        PROVE  UNCHANGED <<journal, manifest, recorded>>
    BY <1>3 DEF Call, LoadBaseline, Admit, Begin, Propose, Crash, FileFails, Leave,
       disk, runtime
  <1>4. ASSUME External
        PROVE  UNCHANGED <<journal, manifest, recorded>>
    BY <1>4 DEF External, ExternalEdit, runtime
  <1>5. ASSUME UNCHANGED vars
        PROVE  UNCHANGED <<journal, manifest, recorded>>
    BY <1>5 DEF vars, disk, runtime
  <1> QED
    BY <1>1, <1>2, <1>3, <1>4, <1>5 DEF Next

\* Every behaviour of the write session is one of AtomicAuthority: an operation
\* that was prepared takes effect whole, once, and is over only then.
THEOREM ImplementsAtomicAuthorityHolds == Spec => ImplementsAtomicAuthority
  <1>1. Init => Promise!Init
    BY InitRefined
  <1>2. WriteSessionInv /\ [Next]_vars => [Promise!Next]_Promise!vars
    BY NextRefined
  <1> QED
    BY <1>1, <1>2, WriteSessionInvariant, PTL
       DEF Spec, ImplementsAtomicAuthority, Promise!Spec

=============================================================================
