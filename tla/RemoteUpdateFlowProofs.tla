------------------------ MODULE RemoteUpdateFlowProofs ------------------------
(***************************************************************************)
(* The managed update for any flows, plans, operations, faults and         *)
(* reconnects: the invariant of RemoteUpdateFlow, what the journal, the    *)
(* session record and the registry hold at every moment, and that the      *)
(* update implements ManagedUpdate.                                        *)
(***************************************************************************)
EXTENDS RemoteUpdateFlow, TLAPS

-----------------------------------------------------------------------------
(* The run order, identities and states of a flow. *)

LEMMA OrderIs ==
    /\ Len(Order) = 7
    /\ \A i \in 1 .. 7 : /\ Order[i] = "prepare" <=> i = 2
                         /\ Order[i] = "stop" <=> i = 3
                         /\ Order[i] = "backup" <=> i = 4
                         /\ Order[i] = "preview" <=> i = 1
                         /\ Order[i] = "probe" <=> i = 5
                         /\ Order[i] = "activate" <=> i = 6
                         /\ Order[i] = "verify" <=> i = 7
  <1>1. /\ Order[1] = "preview" /\ Order[2] = "prepare" /\ Order[3] = "stop"
        /\ Order[4] = "backup" /\ Order[5] = "probe" /\ Order[6] = "activate"
        /\ Order[7] = "verify"
    BY DEF Order
  <1>2. Len(Order) = 7
    BY SMT DEF Order
  <1> QED
    BY <1>1, <1>2, SMT

LEMMA PositionAt ==
    ASSUME NEW stage, NEW n \in 1 .. 7, \A i \in 1 .. 7 : Order[i] = stage <=> i = n
    PROVE  Position(stage) = n - 1
  <1> DEFINE Is(i) == Order[i] = stage
  <1>1. n \in 1 .. 7 /\ Is(n)
    OBVIOUS
  <1>2. /\ (CHOOSE i \in 1 .. 7 : Is(i)) \in 1 .. 7
        /\ Is(CHOOSE i \in 1 .. 7 : Is(i))
    BY <1>1, Zenon
  <1>3. (CHOOSE i \in 1 .. 7 : Is(i)) = n
    BY <1>2, Zenon
  <1> QED
    BY <1>3, OrderIs, SMT DEF Position

LEMMA PositionIs ==
    /\ Position("preview") = 0 /\ Position("prepare") = 1 /\ Position("stop") = 2
    /\ Position("backup") = 3 /\ Position("probe") = 4 /\ Position("activate") = 5
    /\ Position("verify") = 6
  <1>1. Position("preview") = 0 /\ Position("prepare") = 1
    BY PositionAt, OrderIs, SMT
  <1>2. Position("stop") = 2 /\ Position("backup") = 3
    BY PositionAt, OrderIs, SMT
  <1>3. Position("probe") = 4 /\ Position("activate") = 5
    BY PositionAt, OrderIs, SMT
  <1>4. Position("verify") = 6
    BY PositionAt, OrderIs, SMT
  <1> QED
    BY <1>1, <1>2, <1>3, <1>4

LEMMA StageIs ==
    /\ StageOf("prepare") = "prepare" /\ StageOf("stop") = "stop"
    /\ StageOf("backup") = "backup" /\ StageOf("restore") = "backup"
    /\ \A k \in LocalKinds : StageOf(k) = "activate"
  BY SMT DEF StageOf, LocalKinds

LEMMA KindsAre ==
    /\ OpKinds = {"stop", "backup", "prepare", "restore", "issue", "confirm", "rollback",
                  "pending", "confirmed", "none"}
    /\ RemoteKinds = {"stop", "backup", "prepare", "restore"}
    /\ LocalKinds = {"issue", "confirm", "rollback"}
    /\ AnchorKinds = {"pending", "confirmed"}
  BY Zenon DEF OpKinds, RemoteKinds, LocalKinds, AnchorKinds

LEMMA IdsAre == Ids \subseteq Nat /\ 0 \notin Ids /\ Ids \subseteq 0 .. MaxOps
  BY LimitsAssumption, SMT DEF Ids

LEMMA OpIs ==
    ASSUME NEW kind \in OpKinds, NEW id \in 0 .. MaxOps, NEW kept \in BOOLEAN
    PROVE  /\ Op(kind, id, kept) \in AnyOp
           /\ Op(kind, id, kept).kind = kind /\ Op(kind, id, kept).id = id
           /\ Op(kind, id, kept).kept = kept
  BY SMT DEF Op, AnyOp

LEMMA NoOpIs == NoOp \in AnyOp /\ NoOp.kind = "none" /\ NoOp.id = 0 /\ Ref(NoOp) = <<"none", 0>>
  BY LimitsAssumption, KindsAre, SMT DEF NoOp, Op, AnyOp, Ref

LEMMA RefIs ==
    ASSUME NEW o \in AnyOp, NEW q \in AnyOp
    PROVE  /\ Ref(o) \in Refs
           /\ Ref(o) = Ref(q) <=> o.kind = q.kind /\ o.id = q.id
  BY SMT DEF Ref, AnyOp, Refs

LEMMA PlacesAre ==
    Places = {"call", "wait", "bound", "marked", "prepared", "moved", "restoring",
              "none", "idle", "resume", "hook"}
  BY Zenon DEF Places, Calling

Stages == {"run", "unknown", "failed", "ready", "cancelled"}

LEMMA BlankIs ==
    /\ Blank \in FlowStates
    /\ Blank.at = "none" /\ Blank.pending = NoOp /\ Blank.anchor = NoOp /\ Blank.act = 0
    /\ Blank.index = 0 /\ Blank.backup = FALSE /\ Blank.uncertain = FALSE
    /\ Blank.owed = {}
  <1>1. Blank \in FlowStates
    BY NoOpIs, PlacesAre, OrderIs, LimitsAssumption, SMT DEF Blank, FlowStates, Codes
  <1> QED
    BY <1>1, SMT DEF Blank

LEMMA StateType ==
    ASSUME NEW s \in FlowStates
    PROVE  /\ s.at \in Places /\ s.stage \in Stages /\ s.code \in Codes
           /\ s.index \in 0 .. 7 /\ s.act \in 0 .. MaxOps /\ s.kept \in BOOLEAN
           /\ s.pending \in AnyOp /\ s.anchor \in AnyOp /\ s.uncertain \in BOOLEAN
           /\ s.owed \subseteq {"prepared", "source"} /\ s.backup \in BOOLEAN
           /\ s.staged \in 0 .. MaxOps
  BY OrderIs, SMT DEF FlowStates, Stages

\* One field of a flow changes: the state keeps its type.
LEMMA FieldSet ==
    ASSUME NEW s \in FlowStates
    PROVE  /\ \A x \in Places : [s EXCEPT !.at = x] \in FlowStates
           /\ \A x \in Stages : [s EXCEPT !.stage = x] \in FlowStates
           /\ \A x \in Codes : [s EXCEPT !.code = x] \in FlowStates
           /\ \A x \in 0 .. 7 : [s EXCEPT !.index = x] \in FlowStates
           /\ \A x \in 0 .. MaxOps : [s EXCEPT !.act = x] \in FlowStates
           /\ \A x \in BOOLEAN : [s EXCEPT !.kept = x] \in FlowStates
           /\ \A x \in BOOLEAN : [s EXCEPT !.restored = x] \in FlowStates
           /\ \A x \in BOOLEAN : [s EXCEPT !.backup = x] \in FlowStates
           /\ \A x \in Plans : [s EXCEPT !.plan = x] \in FlowStates
           /\ \A x \in AnyOp : [s EXCEPT !.pending = x] \in FlowStates
           /\ \A x \in AnyOp : [s EXCEPT !.anchor = x] \in FlowStates
           /\ \A x \in BOOLEAN : [s EXCEPT !.uncertain = x] \in FlowStates
           /\ \A x \in 0 .. MaxOps : [s EXCEPT !.staged = x] \in FlowStates
           /\ \A x \in BOOLEAN : [s EXCEPT !.source = x] \in FlowStates
           /\ \A x \in SUBSET {"prepared", "source"} : [s EXCEPT !.owed = x] \in FlowStates
  <1> USE OrderIs DEF FlowStates, Stages
  <1>1. \A x \in Places : [s EXCEPT !.at = x] \in FlowStates
    BY SMT
  <1>2. \A x \in Stages : [s EXCEPT !.stage = x] \in FlowStates
    BY SMT
  <1>3. \A x \in Codes : [s EXCEPT !.code = x] \in FlowStates
    BY SMT
  <1>4. \A x \in 0 .. 7 : [s EXCEPT !.index = x] \in FlowStates
    BY SMT
  <1>5. \A x \in 0 .. MaxOps : [s EXCEPT !.act = x] \in FlowStates
    BY SMT
  <1>6. \A x \in BOOLEAN : [s EXCEPT !.kept = x] \in FlowStates
    BY SMT
  <1>7. \A x \in BOOLEAN : [s EXCEPT !.restored = x] \in FlowStates
    BY SMT
  <1>8. \A x \in BOOLEAN : [s EXCEPT !.backup = x] \in FlowStates
    BY SMT
  <1>9. \A x \in Plans : [s EXCEPT !.plan = x] \in FlowStates
    BY SMT
  <1>10. \A x \in AnyOp : [s EXCEPT !.pending = x] \in FlowStates
    BY SMT
  <1>11. \A x \in AnyOp : [s EXCEPT !.anchor = x] \in FlowStates
    BY SMT
  <1>12. \A x \in BOOLEAN : [s EXCEPT !.uncertain = x] \in FlowStates
    BY SMT
  <1>13. \A x \in 0 .. MaxOps : [s EXCEPT !.staged = x] \in FlowStates
    BY SMT
  <1>14. \A x \in BOOLEAN : [s EXCEPT !.source = x] \in FlowStates
    BY SMT
  <1>15. \A x \in SUBSET {"prepared", "source"} : [s EXCEPT !.owed = x] \in FlowStates
    BY SMT
  <1> HIDE DEF FlowStates, Stages
  <1> QED
    BY <1>1, <1>2, <1>3, <1>4, <1>5, <1>6, <1>7, <1>8, <1>9, <1>10, <1>11, <1>12, <1>13,
       <1>14, <1>15, Zenon

SessionStates ==
    [state : {"absent", "open", "retired"}, prepared : BOOLEAN, source : BOOLEAN]
Journals == [pending : AnyOp, anchor : AnyOp, fresh : SUBSET Flows]
Receipts == {"none", "prepared", "pending", "confirmed", "restored"}
Bindings == {"none", "bound", "issued"}
Registries ==
    [selected : 0 .. MaxOps, receipts : [Ids -> Receipts], bindings : [Ids -> Bindings]]
Remotes ==
    [owner : {"alive", "exited", "released"}, stopper : 0 .. MaxOps,
     out : SUBSET Refs, placed : 0 .. MaxOps, archives : SUBSET Ids, restores : SUBSET Ids]
Uses == [faults : 0 .. MaxFaults, reconnects : 0 .. MaxReconnects]
Histories ==
    [open : SUBSET Refs, moot : SUBSET Refs, overtaken : BOOLEAN, whole : BOOLEAN]

LEMMA TypeIs ==
    TypeOK <=> /\ flow \in [Flows -> FlowStates] /\ published \in Flows \cup {NoFlow}
               /\ host \in {"down", "serving", "open", "ready"} /\ runtime \in 0 .. MaxOps
               /\ journal \in Journals /\ session \in SessionStates
               /\ registry \in Registries /\ remote \in Remotes
               /\ nextId \in 1 .. MaxOps + 1 /\ used \in Uses /\ history \in Histories
  BY Zenon DEF TypeOK, Journals, SessionStates, Receipts, Bindings, Registries, Remotes,
     Uses, Histories

LEMMA KeptIs ==
    ASSUME session \in SessionStates, NEW evidence, Kept(evidence)
    PROVE  /\ session' \in SessionStates
           /\ session'.state = session.state
           /\ session'.source <=> session.source \/ "source" \in evidence
  <1> DEFINE x == session.prepared \/ "prepared" \in evidence
             y == session.source \/ "source" \in evidence
  <1>1. session' = [session EXCEPT !.prepared = x, !.source = y]
    BY DEF Kept
  <1>2. x \in BOOLEAN /\ y \in BOOLEAN
    OBVIOUS
  <1> HIDE DEF x, y
  <1>3. \A s \in SessionStates : \A z \in BOOLEAN :
            [s EXCEPT !.prepared = z] \in SessionStates
    BY SMT DEF SessionStates
  <1>4. \A s \in SessionStates : \A z \in BOOLEAN :
            [s EXCEPT !.source = z] \in SessionStates
    BY SMT DEF SessionStates
  <1>5. session' \in SessionStates
    BY <1>1, <1>2, <1>3, <1>4, Zenon
  <1>6. session'.state = session.state /\ session'.source = y
    BY <1>1, <1>2, SMT DEF SessionStates
  <1> QED
    BY <1>5, <1>6 DEF y

-----------------------------------------------------------------------------
(* What a record does, and the classes of steps.  The lemmas of this part read *)
(* the actions; the later ones only what a class says of a step.               *)

OthersStay(f) == /\ flow' \in [Flows -> FlowStates]
                 /\ \A g \in Flows : g # f => flow'[g] = flow[g]

\* The same in everything but place and certainty.
Alike(t, s) ==
    /\ t.pending = s.pending /\ t.anchor = s.anchor /\ t.act = s.act
    /\ t.index = s.index /\ t.backup = s.backup /\ t.owed = s.owed
    /\ t.stage = s.stage /\ t.code = s.code

LEMMA EndedIs ==
    ASSUME NEW s \in FlowStates, NEW f
    PROVE  /\ Ended(f, s) \in FlowStates
           /\ f = published => /\ Alike(Ended(f, s), s) /\ Ended(f, s).at = "idle"
                               /\ Ended(f, s).uncertain = s.uncertain
           /\ f # published => Ended(f, s) = Blank
  <1> DEFINE t == [s EXCEPT !.at = "idle"]
  <1>1. t \in FlowStates
    BY FieldSet, PlacesAre, Zenon
  <1>2. Alike(t, s) /\ t.at = "idle" /\ t.uncertain = s.uncertain
    BY SMT DEF FlowStates, Alike
  <1> QED
    BY <1>1, <1>2, BlankIs DEF Ended

LEMMA ReplacedIs ==
    ASSUME TypeOK, NEW f \in Flows, NEW t \in FlowStates, flow' = [flow EXCEPT ![f] = t]
    PROVE  OthersStay(f) /\ flow'[f] = t
  BY TypeIs, SMT DEF OthersStay

LEMMA FaultIs == ASSUME TypeOK, Fault PROVE used' \in Uses
  BY TypeIs, LimitsAssumption, SMT DEF Fault, Uses

JournalIs(pending, anchor, fresh) ==
    /\ journal' \in Journals
    /\ journal'.pending = pending /\ journal'.anchor = anchor /\ journal'.fresh = fresh

LEMMA JournalSet ==
    ASSUME NEW p \in AnyOp, NEW a \in AnyOp, NEW fresh \in SUBSET Flows,
           journal' = [pending |-> p, anchor |-> a, fresh |-> fresh]
    PROVE  JournalIs(p, a, fresh)
  BY SMT DEF JournalIs, Journals

\* How a record ends: it landed, it raised, or nobody knows.
Writes(f) == f \in journal.fresh /\ ~flow[f].uncertain
Lands(f, pending, anchor) == Writes(f) /\ JournalIs(pending, anchor, {f})
Raises == journal' = journal
Blurs(f, pending, anchor) == Writes(f) /\ JournalIs(pending, anchor, {})

LEMMA RecordIs ==
    ASSUME TypeOK, NEW f \in Flows, NEW p \in AnyOp, NEW a \in AnyOp,
           NEW landed \in FlowStates, NEW raised \in FlowStates,
           Record(f, p, a, landed, raised)
    PROVE  /\ OthersStay(f) /\ used' \in Uses /\ journal' \in Journals
           /\ \/ Lands(f, p, a) /\ flow'[f] = landed
              \/ Raises /\ flow'[f] = raised
              \/ /\ Raises \/ Blurs(f, p, a)
                 /\ \/ raised = Blank /\ flow'[f] = Blank
                    \/ /\ raised # Blank /\ Alike(flow'[f], raised)
                       /\ flow'[f].at = raised.at /\ flow'[f].uncertain
  <1>1. used \in Uses /\ journal \in Journals
    BY TypeIs
  <1>2. CASE /\ f \in journal.fresh /\ ~flow[f].uncertain
             /\ journal' = [pending |-> p, anchor |-> a, fresh |-> {f}]
             /\ flow' = [flow EXCEPT ![f] = landed]
             /\ UNCHANGED used
    <2>1. Lands(f, p, a)
      BY <1>2, JournalSet DEF Lands, Writes
    <2> QED
      BY <1>1, <1>2, <2>1, ReplacedIs, Zenon DEF Lands, JournalIs
  <1>3. CASE /\ IF f \in journal.fresh /\ ~flow[f].uncertain THEN Fault ELSE UNCHANGED used
             /\ flow' = [flow EXCEPT ![f] = raised]
             /\ UNCHANGED journal
    <2>1. used' \in Uses
      BY <1>1, <1>3, FaultIs
    <2> QED
      BY <1>1, <1>3, <2>1, ReplacedIs, Zenon DEF Raises
  <1>4. CASE /\ f \in journal.fresh /\ ~flow[f].uncertain
             /\ Fault
             /\ flow' = [flow EXCEPT ![f] = IF raised = Blank THEN Blank
                                            ELSE [raised EXCEPT !.uncertain = TRUE]]
             /\ \/ UNCHANGED journal
                \/ journal' = [pending |-> p, anchor |-> a, fresh |-> {}]
    <2> DEFINE u == [raised EXCEPT !.uncertain = TRUE]
    <2>1. u \in FlowStates
      BY FieldSet, Zenon
    <2>2. Alike(u, raised) /\ u.at = raised.at /\ u.uncertain
      BY SMT DEF FlowStates, Alike
    <2>3. Raises \/ Blurs(f, p, a)
      BY <1>4, JournalSet DEF Raises, Blurs, Writes
    <2>4. journal' \in Journals
      BY <1>1, <2>3 DEF Raises, Blurs, JournalIs
    <2>5. used' \in Uses
      BY <1>4, FaultIs
    <2>6. CASE raised = Blank
      BY <1>4, <2>3, <2>4, <2>5, <2>6, BlankIs, ReplacedIs, Zenon
    <2>7. CASE raised # Blank
      <3>1. flow' = [flow EXCEPT ![f] = u]
        BY <1>4, <2>7
      <3> HIDE DEF u
      <3>2. OthersStay(f) /\ flow'[f] = u
        BY <2>1, <3>1, ReplacedIs, Zenon
      <3> QED
        BY <2>2, <2>3, <2>4, <2>5, <2>7, <3>2, Zenon
    <2> QED
      BY <2>6, <2>7
  <1> QED
    BY <1>2, <1>3, <1>4 DEF Record

\* A flow records a new call and makes it, or records nothing it knows of.
Issues(f, kind, id) ==
    /\ OthersStay(f) /\ used' \in Uses /\ journal' \in Journals
    /\ flow'[f].pending \in AnyOp /\ flow'[f].pending.kind = kind
    /\ flow'[f].pending.id = id
    /\ flow'[f].anchor = flow[f].anchor /\ flow'[f].index = flow[f].index
    /\ flow'[f].backup = flow[f].backup /\ flow'[f].owed = flow[f].owed
    /\ flow'[f].act = IF kind = "issue" THEN id ELSE flow[f].act
    /\ \/ /\ Lands(f, flow'[f].pending, flow[f].anchor)
          /\ flow'[f].at = "call" /\ ~flow'[f].uncertain
       \/ /\ Raises /\ flow'[f].at = "idle"
          /\ flow[f].uncertain => flow'[f].uncertain
       \/ /\ Blurs(f, flow'[f].pending, flow[f].anchor)
          /\ flow'[f].at = "idle" /\ flow'[f].uncertain
    /\ UNCHANGED <<published, host, runtime, session, registry, remote, history>>

LEMMA IssueIs ==
    ASSUME TypeOK, NEW f \in Flows, f = published, NEW state \in FlowStates,
           NEW kind \in RemoteKinds \cup LocalKinds, NEW id \in 0 .. MaxOps,
           state.anchor = flow[f].anchor, state.index = flow[f].index,
           state.backup = flow[f].backup, state.owed = flow[f].owed,
           state.act = IF kind = "issue" THEN id ELSE flow[f].act,
           state.uncertain = flow[f].uncertain,
           Issue(f, state, kind, id)
    PROVE  Issues(f, kind, id)
  <1> DEFINE op == Op(kind, id, state.kept)
             landed == [state EXCEPT !.pending = op, !.at = "call"]
             asked == [state EXCEPT !.pending = op]
             raised == Ended(f, asked)
  <1>1. op \in AnyOp /\ op.kind = kind /\ op.id = id /\ state.anchor \in AnyOp
    <2>1. kind \in OpKinds /\ state.kept \in BOOLEAN /\ state.anchor \in AnyOp
      BY KindsAre, StateType
    <2> QED
      BY <2>1, OpIs, Zenon
  <1> HIDE DEF op
  <1>2. landed \in FlowStates /\ asked \in FlowStates
    BY <1>1, FieldSet, PlacesAre, Zenon
  <1>3. /\ landed.pending = op /\ landed.at = "call" /\ landed.anchor = state.anchor
        /\ landed.index = state.index /\ landed.backup = state.backup
        /\ landed.owed = state.owed /\ landed.act = state.act
        /\ landed.uncertain = state.uncertain
    BY <1>1, SMT DEF FlowStates
  <1>4. /\ asked.pending = op /\ asked.anchor = state.anchor
        /\ asked.index = state.index /\ asked.backup = state.backup
        /\ asked.owed = state.owed /\ asked.act = state.act
        /\ asked.uncertain = state.uncertain
    BY <1>1, SMT DEF FlowStates
  <1>5. Record(f, op, state.anchor, landed, raised)
    BY DEF Issue, op
  <1>6. /\ raised \in FlowStates /\ Alike(raised, asked) /\ raised.at = "idle"
        /\ raised.uncertain = asked.uncertain
    BY <1>2, EndedIs, Zenon
  <1>7. UNCHANGED <<published, host, runtime, session, registry, remote, history>>
    BY DEF Issue
  <1> HIDE DEF landed, asked, raised
  <1>8. raised # Blank
    BY <1>6, BlankIs
  <1>9. /\ OthersStay(f) /\ used' \in Uses /\ journal' \in Journals
        /\ \/ Lands(f, op, state.anchor) /\ flow'[f] = landed
           \/ Raises /\ flow'[f] = raised
           \/ /\ Raises \/ Blurs(f, op, state.anchor)
              /\ Alike(flow'[f], raised) /\ flow'[f].at = raised.at /\ flow'[f].uncertain
    <2>1. /\ OthersStay(f) /\ used' \in Uses /\ journal' \in Journals
          /\ \/ Lands(f, op, state.anchor) /\ flow'[f] = landed
             \/ Raises /\ flow'[f] = raised
             \/ /\ Raises \/ Blurs(f, op, state.anchor)
                /\ \/ raised = Blank /\ flow'[f] = Blank
                   \/ /\ raised # Blank /\ Alike(flow'[f], raised) /\ flow'[f].at = raised.at
                      /\ flow'[f].uncertain
      BY <1>1, <1>2, <1>5, <1>6, RecordIs
    <2> QED
      BY <1>8, <2>1, Zenon
  <1>10. CASE Lands(f, op, state.anchor) /\ flow'[f] = landed
    <2>1. ~flow[f].uncertain
      BY <1>10 DEF Lands, Writes
    <2> QED
      BY <1>1, <1>3, <1>7, <1>9, <1>10, <2>1, Zenon DEF Issues
  <1>11. CASE Raises /\ flow'[f] = raised
    BY <1>1, <1>4, <1>6, <1>7, <1>9, <1>11, Zenon DEF Issues, Alike
  <1>12. CASE /\ Raises \/ Blurs(f, op, state.anchor)
              /\ Alike(flow'[f], raised) /\ flow'[f].at = raised.at /\ flow'[f].uncertain
    BY <1>1, <1>4, <1>6, <1>7, <1>9, <1>12, Zenon DEF Issues, Alike
  <1> QED
    BY <1>9, <1>10, <1>11, <1>12

\* An outcome, and the two identities it leaves.
Outcomes == [stage : Stages, code : Codes, keep : {"same", "none"} \cup AnchorKinds,
             moves : BOOLEAN]
PendingAfter(state, o) ==
    IF o.keep = "same" THEN Op(state.pending.kind, state.pending.id, state.kept) ELSE NoOp
AnchorAfter(state, o) ==
    IF o.keep \in AnchorKinds THEN Op(o.keep, state.pending.id, state.kept)
    ELSE IF state.pending.kind = "rollback" /\ o.code = "settled" THEN NoOp
    ELSE state.anchor

\* What the end of a call does to the flow, the journal and the history.
Settles(f, state, o) ==
    LET p == PendingAfter(state, o)  a == AnchorAfter(state, o)  op == state.pending IN
    /\ OthersStay(f) /\ used' \in Uses /\ journal' \in Journals /\ history' \in Histories
    /\ p \in AnyOp /\ a \in AnyOp
    /\ \/ Lands(f, p, a)
       \/ Raises /\ (f = published /\ state.uncertain => flow'[f].uncertain)
       \/ Blurs(f, p, a) /\ (f = published => flow'[f].uncertain)
    /\ f # published => flow'[f] = Blank
    /\ f = published =>
           /\ flow'[f].at = "idle" /\ flow'[f].pending = p /\ flow'[f].anchor = a
           /\ flow'[f].act = state.act /\ flow'[f].backup = state.backup
           /\ flow'[f].owed = state.owed
           /\ \/ flow'[f].index = state.index
              \/ o.moves /\ flow'[f].index = Position(StageOf(op.kind)) + 1
    /\ o.keep = "same" => history' = history
    /\ o.keep # "same" =>
           /\ history'.open = history.open \ {Ref(op)}
           /\ history.moot \subseteq history'.moot
           /\ \A g \in Flows : g # f /\ Ref(flow[g].pending) = Ref(op) =>
                  Ref(op) \in history'.moot
           /\ history'.overtaken = history.overtaken /\ history'.whole = history.whole

LEMMA PlacedOrNot ==
    \A s \in {"preview", "prepare", "stop", "backup", "probe", "activate", "verify"} :
        Position(s) \in 0 .. 6 /\ Position(s) + 1 \in 0 .. 7
  BY PositionIs, SMT

LEMMA StagePosition ==
    ASSUME NEW kind \in OpKinds
    PROVE  Position(StageOf(kind)) + 1 \in 0 .. 7
  <1>1. StageOf(kind) \in {"preview", "prepare", "stop", "backup", "probe", "activate", "verify"}
    BY KindsAre, SMT DEF StageOf
  <1> QED
    BY <1>1, PlacedOrNot

Learned(f, op) ==
    history' = [history EXCEPT
                    !.open = @ \ {Ref(op)},
                    !.moot = IF \E g \in Flows \ {f} : Ref(flow[g].pending) = Ref(op)
                             THEN @ \cup {Ref(op)} ELSE @]

LEMMA SettleHistory ==
    ASSUME history \in Histories, NEW f \in Flows, NEW op \in AnyOp, Learned(f, op)
    PROVE  /\ history' \in Histories
           /\ history'.open = history.open \ {Ref(op)}
           /\ history.moot \subseteq history'.moot
           /\ \A g \in Flows : g # f /\ Ref(flow[g].pending) = Ref(op) =>
                  Ref(op) \in history'.moot
           /\ history'.overtaken = history.overtaken /\ history'.whole = history.whole
  <1> DEFINE open == history.open \ {Ref(op)}
             moot == IF \E g \in Flows \ {f} : Ref(flow[g].pending) = Ref(op)
                     THEN history.moot \cup {Ref(op)} ELSE history.moot
  <1>1. history.open \in SUBSET Refs /\ history.moot \in SUBSET Refs
    BY SMT DEF Histories
  <1>2. Ref(op) \in Refs
    BY RefIs
  <1>3. open \in SUBSET Refs /\ moot \in SUBSET Refs
    BY <1>1, <1>2
  <1>4. history' = [history EXCEPT !.open = open, !.moot = moot]
    BY DEF Learned
  <1>5. /\ history.moot \subseteq moot
        /\ \A g \in Flows : g # f /\ Ref(flow[g].pending) = Ref(op) => Ref(op) \in moot
    OBVIOUS
  <1> HIDE DEF open, moot
  <1>6. \A h \in Histories : \A x \in SUBSET Refs : [h EXCEPT !.open = x] \in Histories
    BY SMT DEF Histories
  <1>7. \A h \in Histories : \A x \in SUBSET Refs : [h EXCEPT !.moot = x] \in Histories
    BY SMT DEF Histories
  <1>8. history' \in Histories
    BY <1>3, <1>4, <1>6, <1>7, Zenon
  <1>9. /\ history'.open = open /\ history'.moot = moot
        /\ history'.overtaken = history.overtaken /\ history'.whole = history.whole
    BY <1>3, <1>4, SMT DEF Histories
  <1> QED
    BY <1>5, <1>8, <1>9 DEF open

LEMMA SettleIs ==
    ASSUME TypeOK, NEW f \in Flows, NEW state \in FlowStates, NEW o \in Outcomes,
           Settle(f, state, o)
    PROVE  Settles(f, state, o)
  <1> DEFINE op == state.pending
             p == PendingAfter(state, o)
             a == AnchorAfter(state, o)
             settled == [state EXCEPT !.pending = p, !.anchor = a]
             index == IF o.moves THEN Position(StageOf(op.kind)) + 1 ELSE state.index
             code == IF op.kind = "restore" /\ o.code = "settled" /\ state.anchor # NoOp
                     THEN "pairing" ELSE o.code
             done == [settled EXCEPT !.stage = o.stage, !.code = code, !.index = index]
             landed == Ended(f, done)
             raised == Ended(f, settled)
  <1>1. /\ op \in AnyOp /\ state.anchor \in AnyOp /\ state.kept \in BOOLEAN
        /\ state.index \in 0 .. 7
        /\ op.kind \in OpKinds /\ op.id \in 0 .. MaxOps
    <2>1. op \in AnyOp /\ state.anchor \in AnyOp /\ state.kept \in BOOLEAN
          /\ state.index \in 0 .. 7
      BY StateType
    <2> QED
      BY <2>1, SMT DEF AnyOp
  <1>2. o.stage \in Stages /\ o.code \in Codes /\ o.keep \in {"same", "none"} \cup AnchorKinds
    BY SMT DEF Outcomes
  <1>3. p \in AnyOp
    BY <1>1, OpIs, NoOpIs DEF PendingAfter
  <1>4. a \in AnyOp
    <2>1. AnchorKinds \subseteq OpKinds
      BY KindsAre
    <2> QED
      BY <1>1, <2>1, OpIs, NoOpIs DEF AnchorAfter
  <1>5. index \in 0 .. 7 /\ code \in Codes
    BY <1>1, <1>2, StagePosition DEF Codes
  <1>6. /\ Record(f, p, a, landed, raised)
        /\ IF o.keep = "same" THEN history' = history ELSE Learned(f, op)
    BY DEF Settle, PendingAfter, AnchorAfter, Learned
  <1>7. index = state.index \/ (o.moves /\ index = Position(StageOf(op.kind)) + 1)
    OBVIOUS
  <1> HIDE DEF p, a, index, code
  <1>8. settled \in FlowStates
    BY <1>3, <1>4, FieldSet, Zenon
  <1>9. done \in FlowStates
    BY <1>2, <1>5, <1>8, FieldSet, Zenon
  <1>10. /\ settled.pending = p /\ settled.anchor = a /\ settled.act = state.act
         /\ settled.index = state.index /\ settled.backup = state.backup
         /\ settled.owed = state.owed /\ settled.uncertain = state.uncertain
    BY <1>3, <1>4, SMT DEF FlowStates
  <1> HIDE DEF settled
  <1>11. /\ done.pending = settled.pending /\ done.anchor = settled.anchor
         /\ done.act = settled.act /\ done.index = index /\ done.backup = settled.backup
         /\ done.owed = settled.owed
    BY <1>2, <1>5, <1>8, SMT DEF FlowStates
  <1> HIDE DEF done
  <1>12. /\ landed \in FlowStates /\ raised \in FlowStates
         /\ f = published => /\ Alike(landed, done) /\ landed.at = "idle"
                             /\ Alike(raised, settled) /\ raised.at = "idle"
                             /\ raised.uncertain = settled.uncertain
         /\ f # published => landed = Blank /\ raised = Blank
    BY <1>8, <1>9, EndedIs
  <1> HIDE DEF landed, raised
  <1>13. /\ OthersStay(f) /\ used' \in Uses /\ journal' \in Journals
         /\ \/ Lands(f, p, a) /\ flow'[f] = landed
            \/ Raises /\ flow'[f] = raised
            \/ /\ Raises \/ Blurs(f, p, a)
               /\ \/ raised = Blank /\ flow'[f] = Blank
                  \/ /\ raised # Blank /\ Alike(flow'[f], raised)
                     /\ flow'[f].at = raised.at /\ flow'[f].uncertain
    BY <1>3, <1>4, <1>6, <1>12, RecordIs
  <1>14. /\ f # published => flow'[f] = Blank
         /\ \/ Lands(f, p, a)
            \/ Raises /\ (f = published /\ state.uncertain => flow'[f].uncertain)
            \/ Blurs(f, p, a) /\ (f = published => flow'[f].uncertain)
    BY <1>10, <1>12, <1>13, BlankIs
  <1>15. ASSUME f = published
         PROVE  /\ flow'[f].at = "idle"
                /\ Alike(flow'[f], done) \/ Alike(flow'[f], settled)
    BY <1>12, <1>13, <1>15, BlankIs DEF Alike
  <1>16. f = published =>
           /\ flow'[f].at = "idle" /\ flow'[f].pending = p /\ flow'[f].anchor = a
           /\ flow'[f].act = state.act /\ flow'[f].backup = state.backup
           /\ flow'[f].owed = state.owed
           /\ \/ flow'[f].index = state.index
              \/ o.moves /\ flow'[f].index = Position(StageOf(op.kind)) + 1
    BY <1>7, <1>10, <1>11, <1>15 DEF Alike
  <1>17. /\ o.keep = "same" => history' = history
         /\ o.keep # "same" =>
              /\ history'.open = history.open \ {Ref(op)}
              /\ history.moot \subseteq history'.moot
              /\ \A g \in Flows : g # f /\ Ref(flow[g].pending) = Ref(op) =>
                     Ref(op) \in history'.moot
              /\ history'.overtaken = history.overtaken /\ history'.whole = history.whole
         /\ history' \in Histories
    BY <1>1, <1>6, SettleHistory, TypeIs, Zenon
  <1> QED
    BY <1>3, <1>4, <1>13, <1>14, <1>16, <1>17 DEF Settles, p, a

\* A state of the flow that a call has learned something in.
Learner(t, s) ==
    /\ t \in FlowStates /\ t.pending = s.pending /\ t.anchor = s.anchor
    /\ t.index = s.index /\ t.uncertain = s.uncertain
    /\ t.act = s.act \/ t.act = 0

\* What an answer, or a refusal, may say: only what the remote host and the
\* registry bear out.
Sound(f, state, kept, o) ==
    LET s == flow[f]  kind == s.pending.kind  id == s.pending.id IN
    /\ Learner(state, s) /\ o \in Outcomes
    /\ o.keep = "pending" => /\ kind = "issue" /\ registry.receipts[id] = "pending"
                             /\ registry.selected = id
    /\ o.keep = "confirmed" => kind = "confirm"
    /\ kind = "issue" /\ o.keep = "none" =>
           \/ state.act = 0 /\ registry.selected = 0
           \/ s.at \in {"call", "bound", "marked"}
    /\ kind = "rollback" /\ o.code = "settled" => registry.selected = 0
    /\ o.moves => \/ kind = "prepare" /\ remote.placed # 0
                  \/ kind = "stop"
                  \/ kind = "backup" /\ remote.archives # {}
                  \/ kind = "confirm" /\ o.keep = "confirmed"
    /\ o.moves => o.keep # "same"
    /\ state.backup => \/ s.backup
                       \/ /\ kind = "backup" /\ remote.archives # {}
                          /\ "source" \in state.owed \cup kept
    /\ "source" \in s.owed => "source" \in state.owed \cup kept

LEMMA NamedOutcomes ==
    /\ Progress \in Outcomes /\ Progress.keep = "none" /\ Progress.code = "plain"
    /\ Progress.moves
    /\ \A kind : /\ Unsettled(kind) \in Outcomes /\ Unsettled(kind).keep = "same"
                 /\ ~Unsettled(kind).moves /\ Unsettled(kind).code # "settled"
                 /\ Refused(kind) \in Outcomes /\ Refused(kind).keep = "none"
                 /\ ~Refused(kind).moves /\ Refused(kind).code # "settled"
    /\ \A o \in Failed("unrecoverable") :
           o \in Outcomes /\ o.keep = "none" /\ ~o.moves /\ o.code # "settled"
  <1>1. {"plain", "recovery", "restart", "unrecoverable"} \subseteq Codes
    BY DEF Codes
  <1>2. {"run", "unknown", "failed"} \subseteq Stages
    BY DEF Stages
  <1>3. \A kind : /\ OpenCode(kind) \in {"plain", "recovery"}
                  /\ RefusedCode(kind) \in {"plain", "recovery", "restart"}
    BY Zenon DEF OpenCode, RefusedCode
  <1>4. /\ Progress \in Outcomes /\ Progress.keep = "none" /\ Progress.code = "plain"
        /\ Progress.moves
    BY <1>1, <1>2, SMT DEF Progress, Outcome, Outcomes
  <1>5. ASSUME NEW kind
        PROVE  /\ Unsettled(kind) \in Outcomes /\ Unsettled(kind).keep = "same"
               /\ ~Unsettled(kind).moves /\ Unsettled(kind).code # "settled"
               /\ Refused(kind) \in Outcomes /\ Refused(kind).keep = "none"
               /\ ~Refused(kind).moves /\ Refused(kind).code # "settled"
    <2>1. OpenCode(kind) \in Codes \ {"settled"} /\ RefusedCode(kind) \in Codes \ {"settled"}
      BY <1>1, <1>3
    <2>2. /\ Unsettled(kind) \in Outcomes /\ Unsettled(kind).keep = "same"
          /\ Unsettled(kind).moves = FALSE /\ Unsettled(kind).code = OpenCode(kind)
      BY <1>2, <2>1, SMT DEF Unsettled, Outcome, Outcomes
    <2>3. /\ Refused(kind) \in Outcomes /\ Refused(kind).keep = "none"
          /\ Refused(kind).moves = FALSE /\ Refused(kind).code = RefusedCode(kind)
      BY <1>2, <2>1, SMT DEF Refused, Outcome, Outcomes
    <2> QED
      BY <1>3, <2>2, <2>3
  <1>6. ASSUME NEW o \in Failed("unrecoverable")
        PROVE  o \in Outcomes /\ o.keep = "none" /\ ~o.moves /\ o.code # "settled"
    <2> PICK stage \in {"failed", "unknown"} : o = Outcome(stage, "unrecoverable", "none", FALSE)
      BY DEF Failed
    <2> QED
      BY <1>1, <1>2, SMT DEF Outcome, Outcomes
  <1> QED
    BY <1>4, <1>5, <1>6

LEMMA PlainlyIs ==
    ASSUME NEW s, NEW O, NEW x \in Plainly(s, O)
    PROVE  x.state = s /\ x.kept = {} /\ x.outcome \in O
  BY DEF Plainly

LEMMA EvidentlyIs ==
    ASSUME NEW L, NEW O, NEW x \in Evidently(L, O)
    PROVE  /\ x.outcome \in O
           /\ \E l \in L : x.state = l.state /\ x.kept = l.kept
  BY DEF Evidently

LEMMA LearnsIs ==
    ASSUME NEW s \in FlowStates, NEW e \in SUBSET {"prepared", "source"}, NEW l \in Learns(s, e)
    PROVE  /\ Learner(l.state, s) /\ l.state.act = s.act /\ l.state.backup = s.backup
           /\ "source" \in s.owed \cup e => "source" \in l.state.owed \cup l.kept
  <1> PICK lands \in BOOLEAN :
          l = [state |-> [s EXCEPT !.owed = IF lands THEN @ \ e ELSE @ \cup e],
               kept |-> IF lands THEN e ELSE {}]
    BY DEF Learns
  <1> DEFINE owed == IF lands THEN s.owed \ e ELSE s.owed \cup e
             t == [s EXCEPT !.owed = owed]
  <1>1. owed \in SUBSET {"prepared", "source"}
    BY StateType
  <1>2. "source" \in s.owed \cup e => "source" \in owed \cup (IF lands THEN e ELSE {})
    OBVIOUS
  <1>3. l.state = t /\ l.kept = IF lands THEN e ELSE {}
    OBVIOUS
  <1> HIDE DEF owed
  <1>4. t \in FlowStates
    BY <1>1, FieldSet, Zenon
  <1>5. /\ t.pending = s.pending /\ t.anchor = s.anchor /\ t.index = s.index
        /\ t.act = s.act /\ t.backup = s.backup /\ t.owed = owed
        /\ t.uncertain = s.uncertain
    BY <1>1, SMT DEF FlowStates
  <1> HIDE DEF t
  <1> QED
    BY <1>2, <1>3, <1>4, <1>5, Zenon DEF Learner

LEMMA LearnerTrans ==
    ASSUME NEW r, NEW s, NEW t, Learner(r, s), Learner(t, r)
    PROVE  Learner(t, s)
  BY DEF Learner

SoundAnswer(f, x) == Sound(f, x.state, x.kept, x.outcome)

\* An outcome that asks no more of the remote host and the registry than that.
QuietOutcome(f, t, o) ==
    LET s == flow[f] IN
    /\ o \in Outcomes /\ o.keep \in {"same", "none"}
    /\ o.moves => s.pending.kind = "stop" /\ o.keep # "same"
    /\ s.pending.kind = "issue" /\ o.keep = "none" =>
           (t.act = 0 /\ registry.selected = 0) \/ s.at \in {"call", "bound", "marked"}
    /\ s.pending.kind = "rollback" /\ o.code = "settled" => registry.selected = 0

LEMMA QuietSound ==
    ASSUME TypeOK, NEW f \in Flows, NEW t, Learner(t, flow[f]), t.owed = flow[f].owed,
           t.backup => flow[f].backup,
           NEW O, \A o \in O : QuietOutcome(f, t, o), NEW x \in Plainly(t, O)
    PROVE  SoundAnswer(f, x)
  <1>1. x.state = t /\ x.kept = {} /\ x.outcome \in O
    BY PlainlyIs
  <1>2. QuietOutcome(f, t, x.outcome)
    BY <1>1
  <1> QED
    BY <1>1, <1>2, Zenon DEF SoundAnswer, Sound, QuietOutcome

LEMMA SelfLearner == ASSUME NEW s \in FlowStates PROVE Learner(s, s)
  BY DEF Learner

LEMMA FlowType == ASSUME TypeOK, NEW f \in Flows PROVE flow[f] \in FlowStates
  BY TypeIs

LEMMA UnsettledSound ==
    ASSUME TypeOK, NEW f \in Flows, NEW kind, NEW x \in Plainly(flow[f], {Unsettled(kind)})
    PROVE  SoundAnswer(f, x)
  <1>1. \A o \in {Unsettled(kind)} : QuietOutcome(f, flow[f], o)
    BY NamedOutcomes DEF QuietOutcome
  <1>2. Learner(flow[f], flow[f])
    BY FlowType, SelfLearner
  <1> QED
    BY <1>1, <1>2, QuietSound

LEMMA StopSound ==
    ASSUME TypeOK, NEW f \in Flows, flow[f].pending.kind = "stop",
           NEW x \in StopObserved(flow[f]) \cup StopAnswers(flow[f])
    PROVE  SoundAnswer(f, x)
  <1> DEFINE stuck == Outcome("failed", "unrecoverable", "none", FALSE)
  <1>1. stuck \in Failed("unrecoverable")
    BY DEF Failed
  <1> DEFINE O == {Progress, Refused("stop"), Unsettled("stop"), stuck}
  <1>2. \E o \in SUBSET O : x \in Plainly(flow[f], o)
    <2>1. StopObserved(flow[f]) \in {Plainly(flow[f], {Refused("stop"), stuck}),
                                     Plainly(flow[f], StopProves),
                                     Plainly(flow[f], {Unsettled("stop")})}
      BY Zenon DEF StopObserved
    <2>2. StopAnswers(flow[f]) \in {Plainly(flow[f], StopProves), StopObserved(flow[f])}
      BY Zenon DEF StopAnswers
    <2>3. StopProves \subseteq O /\ {Refused("stop"), stuck} \subseteq O
          /\ {Unsettled("stop")} \subseteq O
      BY DEF StopProves
    <2> HIDE DEF O, stuck
    <2> QED
      BY <2>1, <2>2, <2>3
  <1>3. \A o \in O : QuietOutcome(f, flow[f], o)
    <2> HIDE DEF stuck
    <2> QED
      BY <1>1, NamedOutcomes DEF QuietOutcome
  <1>4. Learner(flow[f], flow[f])
    BY FlowType, SelfLearner
  <1> HIDE DEF O
  <1> QED
    BY <1>2, <1>3, <1>4, QuietSound

LEMMA BackupSound ==
    ASSUME TypeOK, NEW f \in Flows, flow[f].pending.kind = "backup",
           NEW x \in BackupAnswers(flow[f])
    PROVE  SoundAnswer(f, x)
  <1> DEFINE s == flow[f]
             t == [s EXCEPT !.backup = TRUE, !.source = TRUE]
             u == [s EXCEPT !.backup = FALSE]
  <1>1. s \in FlowStates
    BY FlowType
  <1>2. t \in FlowStates /\ u \in FlowStates
    BY <1>1, FieldSet, Zenon
  <1>3. Learner(t, s) /\ t.owed = s.owed
    BY <1>1, <1>2, SMT DEF FlowStates, Learner
  <1>4. Learner(u, s) /\ u.owed = s.owed /\ ~u.backup
    <2>1. /\ u.pending = s.pending /\ u.anchor = s.anchor /\ u.index = s.index
          /\ u.owed = s.owed /\ u.act = s.act /\ u.backup = FALSE
          /\ u.uncertain = s.uncertain
      BY <1>1, SMT DEF FlowStates
    <2> QED
      BY <1>2, <2>1 DEF Learner
  <1>5. CASE s.pending.id \in remote.archives
    <2>1. x \in Evidently(Learns(t, {"source"}), {Progress})
      BY <1>5 DEF BackupAnswers
    <2> HIDE DEF t
    <2>2. PICK l \in Learns(t, {"source"}) : x.state = l.state /\ x.kept = l.kept
      BY <2>1, EvidentlyIs
    <2>3. x.outcome = Progress
      BY <2>1, EvidentlyIs
    <2>4. Learner(l.state, t) /\ "source" \in l.state.owed \cup l.kept
      BY <1>2, LearnsIs
    <2>5. Learner(l.state, s)
      BY <1>3, <2>4, LearnerTrans
    <2> QED
      BY <1>5, <2>2, <2>3, <2>4, <2>5, NamedOutcomes DEF SoundAnswer, Sound
  <1>6. CASE s.pending.id \notin remote.archives
    <2>1. x \in Plainly(u, {Refused("backup")})
      BY <1>6 DEF BackupAnswers
    <2>2. \A o \in {Refused("backup")} : QuietOutcome(f, u, o)
      BY NamedOutcomes DEF QuietOutcome
    <2> HIDE DEF u
    <2> QED
      BY <1>4, <2>1, <2>2, QuietSound
  <1> QED
    BY <1>5, <1>6

\* What a verdict on a staging says, of a flow that knows as much.
LEMMA VerdictIs ==
    ASSUME NEW s \in FlowStates, NEW x \in StagingVerdicts(s)
    PROVE  /\ Learner(x.state, s) /\ x.state.owed = s.owed /\ x.state.backup = s.backup
           /\ x.kept = {}
           /\ x.outcome = Progress \/ x.outcome \in Failed("unrecoverable")
  <1> DEFINE t == [s EXCEPT !.kept = TRUE]
             u == [s EXCEPT !.kept = FALSE]
  <1>1. t \in FlowStates /\ u \in FlowStates
    BY FieldSet, Zenon
  <1>2. Learner(t, s) /\ t.owed = s.owed /\ t.backup = s.backup
    BY <1>1, SMT DEF FlowStates, Learner
  <1>3. Learner(u, s) /\ u.owed = s.owed /\ u.backup = s.backup
    BY <1>1, SMT DEF FlowStates, Learner
  <1>4. x \in Plainly(t, {Progress}) \cup Plainly(u, Failed("unrecoverable"))
    BY DEF StagingVerdicts
  <1> HIDE DEF t, u
  <1> QED
    BY <1>2, <1>3, <1>4, PlainlyIs

LEMMA PrepareSound ==
    ASSUME TypeOK, NEW f \in Flows, flow[f].pending \in AnyOp,
           flow[f].pending.kind = "prepare", flow[f].pending.id # 0,
           NEW x \in PrepareAnswers(flow[f]) \cup PrepareObserved(flow[f])
    PROVE  SoundAnswer(f, x)
  <1> DEFINE s == flow[f]
             t == [s EXCEPT !.staged = s.pending.id]
  <1>1. s \in FlowStates /\ s.pending.id \in 0 .. MaxOps
    BY FlowType, SMT DEF AnyOp
  <1>2. t \in FlowStates
    BY <1>1, FieldSet, Zenon
  <1>3. Learner(t, s) /\ t.owed = s.owed /\ t.backup = s.backup
    BY <1>1, <1>2, SMT DEF FlowStates, Learner
  <1> HIDE DEF t
  <1>4. CASE x \in StagingVerdicts(s) /\ remote.placed # 0
    BY <1>1, <1>4, VerdictIs, NamedOutcomes, Zenon DEF SoundAnswer, Sound
  <1>5. CASE x \in Plainly(s, {Refused("prepare"), Unsettled("prepare")})
    <2>1. \A o \in {Refused("prepare"), Unsettled("prepare")} : QuietOutcome(f, s, o)
      BY NamedOutcomes DEF QuietOutcome
    <2> QED
      BY <1>1, <1>5, <2>1, SelfLearner, QuietSound
  <1>6. ASSUME NEW a \in StagingVerdicts(t), remote.placed = s.pending.id,
               x \in Evidently(Learns(a.state, {"prepared"}), {a.outcome})
        PROVE  SoundAnswer(f, x)
    <2>1. /\ Learner(a.state, t) /\ a.state.owed = t.owed /\ a.state.backup = t.backup
          /\ a.outcome = Progress \/ a.outcome \in Failed("unrecoverable")
      BY <1>2, VerdictIs
    <2>2. a.state \in FlowStates
      BY <2>1 DEF Learner
    <2>3. PICK l \in Learns(a.state, {"prepared"}) : x.state = l.state /\ x.kept = l.kept
      BY <1>6, EvidentlyIs
    <2>4. x.outcome = a.outcome
      BY <1>6, EvidentlyIs
    <2>5. /\ Learner(l.state, a.state) /\ l.state.backup = a.state.backup
          /\ "source" \in a.state.owed => "source" \in l.state.owed \cup l.kept
      BY <2>2, LearnsIs
    <2>6. Learner(l.state, s)
      BY <1>3, <2>1, <2>5, LearnerTrans
    <2> QED
      BY <1>3, <1>6, <2>1, <2>3, <2>4, <2>5, <2>6, NamedOutcomes, Zenon DEF SoundAnswer, Sound
  <1>7. CASE x \in PrepareAnswers(s)
    <2>1. CASE remote.placed = s.pending.id
      <3>1. x \in UNION {Evidently(Learns(a.state, {"prepared"}), {a.outcome}) :
                         a \in StagingVerdicts(t)}
        BY <1>7, <2>1, Zenon DEF PrepareAnswers, t
      <3> QED
        BY <1>6, <2>1, <3>1, Zenon
    <2>2. CASE remote.placed # s.pending.id
      BY <1>5, <1>7, <2>2 DEF PrepareAnswers, Plainly
    <2> QED
      BY <2>1, <2>2
  <1>8. CASE x \in PrepareObserved(s)
    BY <1>4, <1>5, <1>8 DEF PrepareObserved, Plainly
  <1> QED
    BY <1>7, <1>8

LEMMA RestoreSound ==
    ASSUME TypeOK, NEW f \in Flows, flow[f].pending.kind = "restore",
           NEW x \in RestoreAnswers(flow[f])
    PROVE  SoundAnswer(f, x)
  <1> DEFINE s == flow[f]
             t == [s EXCEPT !.restored = TRUE]
             back == Outcome("failed", "settled", "none", FALSE)
  <1>1. s \in FlowStates
    BY FlowType
  <1>2. t \in FlowStates
    BY <1>1, FieldSet, Zenon
  <1>3. Learner(t, s) /\ t.owed = s.owed /\ t.backup = s.backup
    BY <1>1, <1>2, SMT DEF FlowStates, Learner
  <1>4. back \in Outcomes /\ back.keep = "none" /\ back.moves = FALSE
    BY SMT DEF Outcome, Outcomes, Stages, Codes
  <1> HIDE DEF t, back
  <1>5. \/ x \in Plainly(s, {Refused("restore"), Unsettled("restore")})
        \/ x \in Plainly(t, {back})
    BY DEF RestoreAnswers, Plainly, t, back
  <1>6. CASE x \in Plainly(s, {Refused("restore"), Unsettled("restore")})
    <2>1. \A o \in {Refused("restore"), Unsettled("restore")} : QuietOutcome(f, s, o)
      BY NamedOutcomes DEF QuietOutcome
    <2> QED
      BY <1>1, <1>6, <2>1, SelfLearner, QuietSound
  <1>7. CASE x \in Plainly(t, {back})
    <2>1. \A o \in {back} : QuietOutcome(f, t, o)
      BY <1>4 DEF QuietOutcome
    <2> QED
      BY <1>3, <1>7, <2>1, QuietSound
  <1> QED
    BY <1>5, <1>6, <1>7

\* The state that forgets its activation.
LEMMA ForgetsIs ==
    ASSUME NEW s \in FlowStates
    PROVE  LET t == [s EXCEPT !.act = 0] IN
           Learner(t, s) /\ t.owed = s.owed /\ t.backup = s.backup /\ t.act = 0
  <1> DEFINE t == [s EXCEPT !.act = 0]
  <1>1. 0 \in 0 .. MaxOps
    BY LimitsAssumption, SMT
  <1>2. t \in FlowStates
    BY <1>1, FieldSet, Zenon
  <1>3. /\ t.pending = s.pending /\ t.anchor = s.anchor /\ t.index = s.index
        /\ t.owed = s.owed /\ t.backup = s.backup /\ t.act = 0
        /\ t.uncertain = s.uncertain
    BY <1>1, SMT DEF FlowStates
  <1> QED
    BY <1>2, <1>3, Zenon DEF Learner

LEMMA IssueSound ==
    ASSUME TypeOK, NEW f \in Flows, flow[f].pending.kind = "issue",
           NEW x \in IssueAnswers(flow[f])
    PROVE  SoundAnswer(f, x)
  <1> DEFINE s == flow[f]
             id == s.pending.id
             t == [s EXCEPT !.act = 0]
             begun == Outcome("run", "restart", "pending", FALSE)
  <1>1. s \in FlowStates
    BY FlowType
  <1>2. Learner(t, s) /\ t.owed = s.owed /\ t.backup = s.backup /\ t.act = 0
    BY <1>1, ForgetsIs
  <1>3. begun \in Outcomes /\ begun.keep = "pending" /\ begun.moves = FALSE
    BY SMT DEF Outcome, Outcomes, Stages, Codes, AnchorKinds
  <1> HIDE DEF t, begun
  <1>4. \/ x \in Plainly(t, {Refused("issue")}) /\ registry.selected = 0
        \/ x \in Plainly(s, {begun}) /\ registry.receipts[id] = "pending"
           /\ registry.selected = id
        \/ x \in Plainly(s, {Unsettled("issue")})
    BY Zenon DEF IssueAnswers, t, begun
  <1>5. CASE x \in Plainly(t, {Refused("issue")}) /\ registry.selected = 0
    <2>1. \A o \in {Refused("issue")} : QuietOutcome(f, t, o)
      BY <1>2, <1>5, NamedOutcomes DEF QuietOutcome
    <2> QED
      BY <1>2, <1>5, <2>1, QuietSound
  <1>6. CASE x \in Plainly(s, {begun}) /\ registry.receipts[id] = "pending"
             /\ registry.selected = id
    <2>1. x.state = s /\ x.kept = {} /\ x.outcome = begun
      BY <1>6, PlainlyIs
    <2> QED
      BY <1>1, <1>3, <1>6, <2>1, SelfLearner, Zenon DEF SoundAnswer, Sound
  <1>7. CASE x \in Plainly(s, {Unsettled("issue")})
    BY <1>7, UnsettledSound
  <1> QED
    BY <1>4, <1>5, <1>6, <1>7

LEMMA ConfirmSound ==
    ASSUME TypeOK, NEW f \in Flows, flow[f].pending.kind = "confirm",
           NEW x \in ConfirmAnswers(flow[f])
    PROVE  SoundAnswer(f, x)
  <1> DEFINE s == flow[f]
             done == Outcome("run", "plain", "confirmed", TRUE)
  <1>1. s \in FlowStates
    BY FlowType
  <1>2. done \in Outcomes /\ done.keep = "confirmed"
    BY SMT DEF Outcome, Outcomes, Stages, Codes, AnchorKinds
  <1> HIDE DEF done
  <1>3. x \in Plainly(s, {done}) \/ x \in Plainly(s, {Unsettled("confirm")})
    BY Zenon DEF ConfirmAnswers, done
  <1>4. CASE x \in Plainly(s, {done})
    <2>1. x.state = s /\ x.kept = {} /\ x.outcome = done
      BY <1>4, PlainlyIs
    <2> QED
      BY <1>1, <1>2, <1>4, <2>1, SelfLearner, Zenon DEF SoundAnswer, Sound
  <1>5. CASE x \in Plainly(s, {Unsettled("confirm")})
    BY <1>5, UnsettledSound
  <1> QED
    BY <1>3, <1>4, <1>5

LEMMA RollbackSound ==
    ASSUME TypeOK, NEW f \in Flows, flow[f].pending.kind = "rollback",
           NEW x \in RollbackAnswers(flow[f])
    PROVE  SoundAnswer(f, x)
  <1> DEFINE s == flow[f]
             t == [s EXCEPT !.act = 0]
             back == Outcome("failed", "settled", "none", FALSE)
  <1>1. s \in FlowStates
    BY FlowType
  <1>2. Learner(t, s) /\ t.owed = s.owed /\ t.backup = s.backup /\ t.act = 0
    BY <1>1, ForgetsIs
  <1>3. back \in Outcomes /\ back.keep = "none" /\ back.moves = FALSE
    BY SMT DEF Outcome, Outcomes, Stages, Codes
  <1> HIDE DEF t, back
  <1>4. \/ x \in Plainly(t, {back}) /\ registry.selected = 0
        \/ x \in Plainly(s, {Refused("rollback")})
        \/ x \in Plainly(s, {Unsettled("rollback")})
    BY Zenon DEF RollbackAnswers, t, back
  <1>5. CASE x \in Plainly(t, {back}) /\ registry.selected = 0
    <2>1. \A o \in {back} : QuietOutcome(f, t, o)
      BY <1>3, <1>5 DEF QuietOutcome
    <2> QED
      BY <1>2, <1>5, <2>1, QuietSound
  <1>6. CASE x \in Plainly(s, {Refused("rollback")})
    <2>1. \A o \in {Refused("rollback")} : QuietOutcome(f, s, o)
      BY NamedOutcomes DEF QuietOutcome
    <2> QED
      BY <1>1, <1>6, <2>1, SelfLearner, QuietSound
  <1>7. CASE x \in Plainly(s, {Unsettled("rollback")})
    BY <1>7, UnsettledSound
  <1> QED
    BY <1>4, <1>5, <1>6, <1>7

-----------------------------------------------------------------------------
(* The class of every action of a flow. *)

SessionKeeps(e) ==
    /\ session' \in SessionStates /\ session'.state = session.state
    /\ session'.source <=> session.source \/ "source" \in e

LEMMA SessionStays == ASSUME TypeOK, session' = session PROVE SessionKeeps({})
  BY TypeIs, Zenon DEF SessionKeeps

LEMMA SessionLearns ==
    ASSUME TypeOK, NEW e, Kept(e)
    PROVE  SessionKeeps(e)
  BY TypeIs, KeptIs, Zenon DEF SessionKeeps

\* A step of the screen that only reads, and publishes what it read.
Reads(f) ==
    /\ f = published /\ flow[f].at \in {"idle", "resume"} /\ ~Settled(f)
    /\ OthersStay(f) /\ flow'[f].at = "idle"
    /\ flow'[f].pending = flow[f].pending /\ flow'[f].anchor = flow[f].anchor
    /\ flow'[f].act = flow[f].act /\ flow'[f].backup = flow[f].backup
    /\ flow'[f].uncertain = flow[f].uncertain
    /\ \/ flow'[f].index = flow[f].index
       \/ flow[f].pending = NoOp /\ flow[f].index = 0 /\ flow'[f].index = 1
       \/ /\ flow[f].pending = NoOp /\ flow[f].index = 4 /\ flow'[f].index = 5
          /\ flow[f].backup /\ remote.placed # 0 /\ flow'[f].owed = {}
    /\ \E e : /\ SessionKeeps(e)
              /\ flow'[f].owed \in {flow[f].owed, {}}
              /\ flow'[f].owed = flow[f].owed \/ e = flow[f].owed
    /\ used' \in Uses
    /\ UNCHANGED <<published, host, runtime, journal, registry, remote, nextId, history>>

\* What a reading state shares with the one before.
Looks(t, s) ==
    /\ t \in FlowStates /\ t.at = s.at /\ t.pending = s.pending /\ t.anchor = s.anchor
    /\ t.act = s.act /\ t.backup = s.backup /\ t.uncertain = s.uncertain
    /\ t.owed = s.owed

LEMMA FailingIs ==
    ASSUME NEW s \in FlowStates, NEW code \in Codes, NEW t \in Failing(s, code)
    PROVE  Looks(t, s) /\ t.index = s.index
  <1> PICK x \in {"failed", "unknown"} : t = [s EXCEPT !.stage = x, !.code = code]
    BY DEF Failing
  <1>1. x \in Stages
    BY DEF Stages
  <1>2. t \in FlowStates
    BY <1>1, FieldSet, Zenon
  <1> QED
    BY <1>1, <1>2, SMT DEF FlowStates, Looks

LEMMA ProgressedIs ==
    ASSUME NEW s \in FlowStates, NEW stage, Position(stage) + 1 \in 0 .. 7
    PROVE  /\ Looks(Progressed(s, stage), s)
           /\ Progressed(s, stage).index = Position(stage) + 1
  <1> DEFINE n == Position(stage) + 1
             t == [s EXCEPT !.stage = "run", !.code = "plain", !.index = n]
  <1>1. n \in 0 .. 7 /\ "run" \in Stages /\ "plain" \in Codes
    BY DEF Stages, Codes
  <1>2. Progressed(s, stage) = t
    BY DEF Progressed
  <1> HIDE DEF n
  <1>3. t \in FlowStates
    BY <1>1, FieldSet, Zenon
  <1>4. /\ t.at = s.at /\ t.pending = s.pending /\ t.anchor = s.anchor /\ t.act = s.act
        /\ t.backup = s.backup /\ t.uncertain = s.uncertain /\ t.owed = s.owed
        /\ t.index = n
    BY <1>1, SMT DEF FlowStates
  <1> QED
    BY <1>2, <1>3, <1>4 DEF Looks, n

LEMMA PublishIs ==
    ASSUME TypeOK, NEW f \in Flows, NEW state \in FlowStates, Publish(f, state)
    PROVE  /\ OthersStay(f) /\ flow'[f] = state /\ used' \in Uses
           /\ UNCHANGED <<published, host, runtime, journal, registry, remote, nextId, history>>
  <1>1. OthersStay(f) /\ flow'[f] = state
    BY ReplacedIs DEF Publish
  <1> QED
    BY <1>1, TypeIs DEF Publish, Still

\* An answer that was read, with nothing kept on the way.
LEMMA ReadIs ==
    ASSUME TypeOK, NEW f \in Flows, f = published, flow[f].at \in {"idle", "resume"},
           ~Settled(f), NEW state, state \in FlowStates, state.at = "idle",
           state.pending = flow[f].pending, state.anchor = flow[f].anchor,
           state.act = flow[f].act, state.backup = flow[f].backup,
           state.uncertain = flow[f].uncertain, state.owed = flow[f].owed,
           \/ state.index = flow[f].index
           \/ flow[f].pending = NoOp /\ flow[f].index = 0 /\ state.index = 1,
           Publish(f, state), session' = session
    PROVE  Reads(f)
  <1>1. SessionKeeps({})
    BY SessionStays
  <1>2. /\ OthersStay(f) /\ flow'[f] = state /\ used' \in Uses
        /\ UNCHANGED <<published, host, runtime, journal, registry, remote, nextId, history>>
    BY PublishIs
  <1> QED
    BY <1>1, <1>2 DEF Reads

LEMMA RunsIs ==
    ASSUME NEW f \in Flows, NEW stage, Runs(f, stage)
    PROVE  /\ f = published /\ flow[f].at = "idle" /\ flow[f].pending = NoOp
           /\ flow[f].anchor.kind # "pending" /\ ~Settled(f)
           /\ flow[f].index = Position(stage) /\ flow[f].code = "plain"
  BY DEF Runs, Asked, Settled

LEMMA RunPreviewIs == ASSUME TypeOK, NEW f \in Flows, RunPreview(f) PROVE Reads(f)
  <1> DEFINE s == flow[f]
  <1>1. s \in FlowStates /\ "plain" \in Codes
    BY FlowType DEF Codes
  <1>2. /\ f = published /\ s.at = "idle" /\ s.pending = NoOp /\ ~Settled(f) /\ s.index = 0
    BY RunsIs, PositionIs DEF RunPreview
  <1>3. PICK t \in Failing(s, "plain")
                   \cup {Progressed([s EXCEPT !.plan = plan], "preview") : plan \in Plans} :
            Publish(f, t)
    BY DEF RunPreview
  <1>4. Looks(t, s) /\ t.index \in {0, 1}
    <2>1. CASE t \in Failing(s, "plain")
      BY <1>1, <1>2, <2>1, FailingIs
    <2>2. ASSUME NEW plan \in Plans, t = Progressed([s EXCEPT !.plan = plan], "preview")
          PROVE  Looks(t, s) /\ t.index \in {0, 1}
      <3> DEFINE u == [s EXCEPT !.plan = plan]
      <3>1. u \in FlowStates
        BY <1>1, FieldSet, Zenon
      <3>2. Looks(u, s)
        BY <1>1, <3>1, SMT DEF FlowStates, Looks
      <3> HIDE DEF u
      <3>3. Looks(t, u) /\ t.index = 1
        BY <2>2, <3>1, PositionIs, ProgressedIs DEF u
      <3> QED
        BY <3>2, <3>3 DEF Looks
    <2> QED
      BY <1>3, <2>1, <2>2
  <1>5. session' = session
    BY DEF RunPreview
  <1> QED
    BY <1>2, <1>3, <1>4, <1>5, ReadIs DEF Looks

LEMMA CancelIs == ASSUME TypeOK, NEW f \in Flows, Cancel(f) PROVE Reads(f)
  <1> DEFINE s == flow[f]
             t == [s EXCEPT !.stage = "cancelled"]
  <1>1. s \in FlowStates /\ "cancelled" \in Stages
    BY FlowType DEF Stages
  <1>2. t \in FlowStates
    BY <1>1, FieldSet, Zenon
  <1>3. Looks(t, s) /\ t.index = s.index
    BY <1>1, <1>2, SMT DEF FlowStates, Looks
  <1>4. f = published /\ s.at = "idle" /\ ~Settled(f) /\ Publish(f, t) /\ session' = session
    BY DEF Cancel, Asked, Settled
  <1> HIDE DEF t
  <1> QED
    BY <1>3, <1>4, ReadIs DEF Looks

LEMMA ObservationFailsIs ==
    ASSUME TypeOK, NEW f \in Flows, ObservationFails(f)
    PROVE  Reads(f)
  <1> DEFINE s == flow[f]
             code == OpenCode(s.pending.kind)
             t == [s EXCEPT !.stage = "unknown", !.code = code]
  <1>1. s \in FlowStates /\ "unknown" \in Stages /\ code \in Codes
    BY FlowType DEF Stages, Codes, OpenCode
  <1>2. /\ f = published /\ s.at = "idle" /\ ~Settled(f) /\ session' = session
        /\ journal' = journal
        /\ UNCHANGED <<published, host, runtime, registry, remote, nextId, history>>
    BY DEF ObservationFails, Asked, Settled, Still
  <1>3. used' \in Uses
    BY TypeIs, FaultIs DEF ObservationFails
  <1>4. flow' = [flow EXCEPT ![f].stage = "unknown", ![f].code = code]
    BY DEF ObservationFails
  <1> HIDE DEF code
  <1>5. flow' = [flow EXCEPT ![f] = t]
    BY <1>4, TypeIs
  <1>6. t \in FlowStates
    BY <1>1, FieldSet, Zenon
  <1>7. Looks(t, s) /\ t.index = s.index
    BY <1>1, <1>6, SMT DEF FlowStates, Looks
  <1> HIDE DEF t
  <1>8. OthersStay(f) /\ flow'[f] = t
    BY <1>5, <1>6, ReplacedIs, Zenon
  <1>9. SessionKeeps({})
    BY <1>2, SessionStays
  <1> QED
    BY <1>2, <1>3, <1>7, <1>8, <1>9 DEF Reads, Looks

LEMMA RunProbeIs == ASSUME TypeOK, NEW f \in Flows, RunProbe(f) PROVE Reads(f)
  <1> DEFINE s == flow[f]
             passed == [s EXCEPT !.owed = {}]
  <1>1. s \in FlowStates /\ {"plain", "unrecoverable"} \subseteq Codes
    BY FlowType DEF Codes
  <1>2. /\ f = published /\ s.at = "idle" /\ s.pending = NoOp /\ ~Settled(f) /\ s.index = 4
    BY RunsIs, PositionIs DEF RunProbe
  <1>3. CASE /\ \E t \in Failing(s, "plain") : Publish(f, t)
             /\ UNCHANGED session
    <2> PICK t \in Failing(s, "plain") : Publish(f, t)
      BY <1>3
    <2>1. Looks(t, s) /\ t.index = s.index
      BY <1>1, FailingIs
    <2> QED
      BY <1>2, <1>3, <2>1, ReadIs DEF Looks
  <1>4. CASE /\ s.backup /\ Gated(f)
             /\ \E t \in Failing(passed, "plain") \cup Failing(passed, "unrecoverable")
                         \cup (IF remote.placed # 0 THEN {Progressed(passed, "probe")}
                               ELSE {}) : Publish(f, t)
    <2>1. passed \in FlowStates
      BY <1>1, FieldSet, Zenon
    <2>2. /\ passed.at = s.at /\ passed.pending = s.pending /\ passed.anchor = s.anchor
          /\ passed.act = s.act /\ passed.backup = s.backup /\ passed.index = s.index
          /\ passed.uncertain = s.uncertain /\ passed.owed = {}
      BY <1>1, SMT DEF FlowStates
    <2> HIDE DEF passed
    <2>3. PICK t \in Failing(passed, "plain") \cup Failing(passed, "unrecoverable")
                     \cup (IF remote.placed # 0 THEN {Progressed(passed, "probe")}
                           ELSE {}) : Publish(f, t)
      BY <1>4
    <2>4. /\ Looks(t, passed)
          /\ t.index = passed.index \/ (t.index = 5 /\ remote.placed # 0)
      <3>1. CASE t \in Failing(passed, "plain") \cup Failing(passed, "unrecoverable")
        BY <1>1, <2>1, <3>1, FailingIs
      <3>2. CASE remote.placed # 0 /\ t = Progressed(passed, "probe")
        BY <2>1, <3>2, PositionIs, ProgressedIs
      <3> QED
        BY <2>3, <3>1, <3>2
    <2>5. SessionKeeps(s.owed)
      BY <1>4, SessionLearns DEF Gated
    <2>6. /\ OthersStay(f) /\ flow'[f] = t /\ used' \in Uses
          /\ UNCHANGED <<published, host, runtime, journal, registry, remote, nextId, history>>
      BY <2>3, <2>4, PublishIs DEF Looks
    <2> QED
      BY <1>2, <1>4, <2>2, <2>4, <2>5, <2>6 DEF Reads, Looks
  <1> QED
    BY <1>3, <1>4 DEF RunProbe

\* The end of an update: the anchor is released, or nobody knows.
Verifies(f) ==
    /\ f = published /\ flow[f].at = "idle" /\ flow[f].pending = NoOp /\ flow[f].index = 6
    /\ ~Settled(f)
    /\ OthersStay(f) /\ used' \in Uses /\ journal' \in Journals
    /\ flow'[f].pending = NoOp /\ flow'[f].anchor = NoOp /\ flow'[f].index = 7
    /\ flow'[f].act = flow[f].act /\ flow'[f].backup = flow[f].backup
    /\ flow'[f].owed = flow[f].owed
    /\ \/ /\ Lands(f, NoOp, NoOp) /\ flow'[f].at = "hook"
          /\ flow'[f].stage = "ready" /\ flow'[f].code = "plain"
       \/ /\ Raises /\ flow'[f].at = "idle"
          /\ flow[f].uncertain => flow'[f].uncertain
       \/ Blurs(f, NoOp, NoOp) /\ flow'[f].at = "idle" /\ flow'[f].uncertain
    /\ history' \in Histories /\ history'.whole /\ history'.open = history.open
    /\ history'.moot = history.moot /\ history'.overtaken = history.overtaken
    /\ UNCHANGED <<published, host, runtime, session, registry, remote, nextId>>

LEMMA RunVerifyIs ==
    ASSUME TypeOK, NEW f \in Flows, RunVerify(f)
    PROVE  Reads(f) \/ Verifies(f)
  <1> DEFINE s == flow[f]
             released == [s EXCEPT !.index = 7, !.pending = NoOp, !.anchor = NoOp]
             ready == [released EXCEPT !.stage = "ready", !.at = "hook"]
  <1>1. /\ s \in FlowStates /\ {"plain", "unrecoverable"} \subseteq Codes
        /\ "ready" \in Stages /\ "hook" \in Places /\ 7 \in 0 .. 7
    BY FlowType, PlacesAre DEF Codes, Stages
  <1>2. /\ f = published /\ s.at = "idle" /\ s.pending = NoOp /\ ~Settled(f) /\ s.index = 6
        /\ s.code = "plain"
    BY RunsIs, PositionIs DEF RunVerify
  <1>3. CASE \E t \in Failing(s, "plain") : Publish(f, t)
    <2> PICK t \in Failing(s, "plain") : Publish(f, t)
      BY <1>3
    <2>1. Looks(t, s) /\ t.index = s.index
      BY <1>1, FailingIs
    <2>2. session' = session
      BY DEF RunVerify
    <2> QED
      BY <1>2, <1>3, <2>1, <2>2, ReadIs DEF Looks
  <1>4. CASE /\ Record(f, NoOp, NoOp, ready, released)
             /\ history' = [history EXCEPT !.whole = TRUE]
             /\ UNCHANGED <<published, host, runtime, registry, remote, nextId>>
    <2>1. released \in FlowStates
      BY <1>1, NoOpIs, FieldSet, Zenon
    <2>2. /\ released.at = s.at /\ released.pending = NoOp /\ released.anchor = NoOp
          /\ released.act = s.act /\ released.backup = s.backup /\ released.index = 7
          /\ released.owed = s.owed /\ released.code = s.code
          /\ released.uncertain = s.uncertain
      BY <1>1, NoOpIs, OrderIs, SMT DEF FlowStates
    <2> HIDE DEF released
    <2>3. ready \in FlowStates
      BY <1>1, <2>1, FieldSet, Zenon
    <2>4. /\ ready.at = "hook" /\ ready.pending = released.pending
          /\ ready.anchor = released.anchor /\ ready.act = released.act
          /\ ready.backup = released.backup /\ ready.index = released.index
          /\ ready.owed = released.owed /\ ready.code = released.code
          /\ ready.stage = "ready"
      BY <2>1, SMT DEF FlowStates
    <2> HIDE DEF ready
    <2>5. /\ OthersStay(f) /\ used' \in Uses /\ journal' \in Journals
          /\ \/ Lands(f, NoOp, NoOp) /\ flow'[f] = ready
             \/ Raises /\ flow'[f] = released
             \/ /\ Raises \/ Blurs(f, NoOp, NoOp)
                /\ \/ released = Blank /\ flow'[f] = Blank
                   \/ /\ released # Blank /\ Alike(flow'[f], released)
                      /\ flow'[f].at = released.at /\ flow'[f].uncertain
      BY <1>4, <2>1, <2>3, NoOpIs, RecordIs
    <2>6. released # Blank
      BY <1>2, <2>2, BlankIs
    <2>7. /\ history' \in Histories /\ history'.whole /\ history'.open = history.open
          /\ history'.moot = history.moot /\ history'.overtaken = history.overtaken
      <3> DEFINE yes == TRUE
      <3>1. history \in Histories /\ yes \in BOOLEAN /\ yes
        BY TypeIs
      <3>2. history' = [history EXCEPT !.whole = yes]
        BY <1>4
      <3> HIDE DEF yes
      <3>3. \A h \in Histories : \A x \in BOOLEAN : [h EXCEPT !.whole = x] \in Histories
        BY SMT DEF Histories
      <3>4. /\ history'.whole = yes /\ history'.open = history.open
            /\ history'.moot = history.moot /\ history'.overtaken = history.overtaken
        BY <3>1, <3>2, SMT DEF Histories
      <3> QED
        BY <3>1, <3>2, <3>3, <3>4, Zenon
    <2>8. session' = session
      BY DEF RunVerify
    <2>9. CASE Lands(f, NoOp, NoOp) /\ flow'[f] = ready
      BY <1>2, <1>4, <2>2, <2>4, <2>5, <2>7, <2>8, <2>9 DEF Verifies
    <2>10. CASE Raises /\ flow'[f] = released
      BY <1>2, <1>4, <2>2, <2>5, <2>7, <2>8, <2>10 DEF Verifies
    <2>11. CASE /\ Raises \/ Blurs(f, NoOp, NoOp)
                /\ Alike(flow'[f], released)
                /\ flow'[f].at = released.at /\ flow'[f].uncertain
      BY <1>2, <1>4, <2>2, <2>5, <2>7, <2>8, <2>11 DEF Verifies, Alike
    <2> QED
      BY <2>5, <2>6, <2>9, <2>10, <2>11
  <1> QED
    BY <1>3, <1>4, OrderIs DEF RunVerify

Retires(f) ==
    /\ flow[f].at = "hook" /\ OthersStay(f)
    /\ f = published => /\ Alike(flow'[f], flow[f]) /\ flow'[f].at = "idle"
                        /\ flow'[f].uncertain = flow[f].uncertain
    /\ f # published => flow'[f] = Blank
    /\ session' \in SessionStates /\ session'.state = "retired" /\ used' \in Uses
    /\ UNCHANGED <<published, host, runtime, journal, registry, remote, nextId, history>>

LEMMA RetireSessionIs ==
    ASSUME TypeOK, NEW f \in Flows, RetireSession(f)
    PROVE  Retires(f)
  <1> DEFINE t == Ended(f, flow[f])
  <1>1. /\ t \in FlowStates
        /\ f = published => /\ Alike(t, flow[f]) /\ t.at = "idle"
                            /\ t.uncertain = flow[f].uncertain
        /\ f # published => t = Blank
    BY FlowType, EndedIs
  <1> HIDE DEF t
  <1>2. Publish(f, t) /\ flow[f].at = "hook"
    BY DEF RetireSession, t
  <1>3. session' \in SessionStates /\ session'.state = "retired"
    BY SMT DEF RetireSession, SessionStates
  <1>4. /\ OthersStay(f) /\ flow'[f] = t /\ used' \in Uses
        /\ UNCHANGED <<published, host, runtime, journal, registry, remote, nextId, history>>
    BY <1>1, <1>2, PublishIs
  <1> QED
    BY <1>1, <1>2, <1>3, <1>4 DEF Retires

\* A call that the screen, or a start, asks for.
Calls(f, kind, id) ==
    /\ kind \in RemoteKinds \cup LocalKinds /\ id \in Ids
    /\ f = published /\ flow[f].pending = NoOp /\ ~Settled(f)
    /\ flow[f].at = "idle" \/ (flow[f].at = "resume" /\ kind = "confirm")
    /\ Issues(f, kind, id)
    /\ kind \in {"prepare", "stop", "backup"} => flow[f].index = Position(kind)
    /\ kind = "issue" => flow[f].index = 5
    /\ kind = "restore" => flow[f].backup
    /\ kind = "rollback" => flow[f].act = id
    /\ kind = "confirm" => /\ flow[f].at = "resume" /\ flow[f].anchor.id = id
                           /\ flow[f].anchor # NoOp /\ registry.selected = id
    /\ IF kind \in {"rollback", "confirm"} THEN nextId' = nextId
       ELSE id = nextId /\ nextId' = nextId + 1

LEMMA IssueNewIs ==
    ASSUME TypeOK, NEW f \in Flows, NEW kind \in RemoteKinds \cup LocalKinds,
           kind \notin {"rollback", "confirm"}, f = published, flow[f].pending = NoOp,
           flow[f].at = "idle", ~Settled(f), IssueNew(f, flow[f], kind),
           kind \in {"prepare", "stop", "backup"} => flow[f].index = Position(kind),
           kind = "issue" => flow[f].index = 5,
           kind = "restore" => flow[f].backup
    PROVE  Calls(f, kind, nextId)
  <1> DEFINE s == flow[f]
             t == [s EXCEPT !.act = nextId]
             state == IF kind = "issue" THEN t ELSE s
  <1>1. s \in FlowStates /\ nextId \in Ids /\ nextId \in 0 .. MaxOps /\ nextId' = nextId + 1
    BY FlowType, IdsAre DEF IssueNew
  <1>2. t \in FlowStates
    BY <1>1, FieldSet, Zenon
  <1>3. /\ t.anchor = s.anchor /\ t.index = s.index /\ t.backup = s.backup
        /\ t.owed = s.owed /\ t.act = nextId /\ t.uncertain = s.uncertain
    BY <1>1, SMT DEF FlowStates
  <1>4. Issue(f, state, kind, nextId)
    BY DEF IssueNew
  <1> HIDE DEF t
  <1>5. /\ state \in FlowStates /\ state.anchor = s.anchor /\ state.index = s.index
        /\ state.backup = s.backup /\ state.owed = s.owed
        /\ state.act = IF kind = "issue" THEN nextId ELSE s.act
        /\ state.uncertain = s.uncertain
    BY <1>1, <1>2, <1>3
  <1> HIDE DEF state
  <1>6. Issues(f, kind, nextId)
    BY <1>1, <1>4, <1>5, IssueIs
  <1> QED
    BY <1>1, <1>6 DEF Calls

LEMMA RunMutationIs ==
    ASSUME TypeOK, NEW f \in Flows, RunMutation(f)
    PROVE  \E kind, id : Calls(f, kind, id)
  <1>1. {"prepare", "stop", "backup", "issue"} \subseteq RemoteKinds \cup LocalKinds
    BY KindsAre
  <1>2. PICK kind \in {"prepare", "stop", "backup", "issue"} :
            /\ IssueNew(f, flow[f], kind)
            /\ Runs(f, IF kind = "issue" THEN "activate" ELSE kind)
    BY DEF RunMutation
  <1>3. /\ f = published /\ flow[f].at = "idle" /\ flow[f].pending = NoOp /\ ~Settled(f)
        /\ flow[f].index = Position(IF kind = "issue" THEN "activate" ELSE kind)
    BY <1>2, RunsIs
  <1>4. Calls(f, kind, nextId)
    BY <1>1, <1>2, <1>3, PositionIs, IssueNewIs
  <1> QED
    BY <1>4

LEMMA RestoreBackupIs ==
    ASSUME TypeOK, NEW f \in Flows, RestoreBackup(f)
    PROVE  \E kind, id : Calls(f, kind, id)
  <1>1. /\ f = published /\ flow[f].at = "idle" /\ flow[f].pending = NoOp /\ ~Settled(f)
        /\ flow[f].backup /\ IssueNew(f, flow[f], "restore")
    BY DEF RestoreBackup, Recovers, Asked, Settled
  <1>2. "restore" \in RemoteKinds \cup LocalKinds
    BY KindsAre
  <1>3. Calls(f, "restore", nextId)
    BY <1>1, <1>2, IssueNewIs
  <1> QED
    BY <1>3

LEMMA RollbackActivationIs ==
    ASSUME TypeOK, NEW f \in Flows, RollbackActivation(f)
    PROVE  \E kind, id : Calls(f, kind, id)
  <1> DEFINE s == flow[f]
             id == s.act
  <1>1. /\ f = published /\ s.at = "idle" /\ s.pending = NoOp /\ ~Settled(f)
        /\ id # 0 /\ Issue(f, s, "rollback", id) /\ nextId' = nextId
    BY DEF RollbackActivation, Recovers, Asked, Settled
  <1>2. s \in FlowStates /\ id \in Ids /\ id \in 0 .. MaxOps
    BY <1>1, FlowType, StateType, LimitsAssumption, SMT DEF Ids
  <1>3. "rollback" \in RemoteKinds \cup LocalKinds
    BY KindsAre
  <1>4. Issues(f, "rollback", id)
    BY <1>1, <1>2, <1>3, IssueIs
  <1>5. Calls(f, "rollback", id)
    BY <1>1, <1>2, <1>3, <1>4, Zenon DEF Calls
  <1> QED
    BY <1>5

LEMMA ResumeIs ==
    ASSUME TypeOK, IdentitiesInv, FlowsInv, NEW f \in Flows, Resume(f)
    PROVE  Reads(f) \/ \E kind, id : Calls(f, kind, id)
  <1> DEFINE s == flow[f]
             id == s.anchor.id
             waiting == [s EXCEPT !.at = "idle"]
  <1>1. /\ s \in FlowStates /\ "idle" \in Places /\ {"plain", "restart", "unrecoverable"} \subseteq Codes
        /\ "unknown" \in Stages
    BY FlowType, PlacesAre DEF Codes, Stages
  <1>2. /\ s.at = "resume" /\ f = published /\ s.pending = NoOp /\ s.anchor.kind = "pending"
        /\ ~Settled(f)
    BY DEF Resume, FlowsInv, Settled
  <1>3. waiting \in FlowStates
    BY <1>1, FieldSet, Zenon
  <1>4. /\ waiting.at = "idle" /\ waiting.pending = s.pending /\ waiting.anchor = s.anchor
        /\ waiting.act = s.act /\ waiting.backup = s.backup /\ waiting.index = s.index
        /\ waiting.uncertain = s.uncertain /\ waiting.owed = s.owed
    BY <1>1, SMT DEF FlowStates
  <1>5. \/ Publish(f, waiting) /\ session' = session
        \/ /\ Publish(f, [waiting EXCEPT !.stage = "unknown", !.code = "restart"])
           /\ session' = session
        \/ \E t \in Failing(waiting, "unrecoverable") : Publish(f, t) /\ session' = session
        \/ /\ registry.selected = id /\ Issue(f, waiting, "confirm", id) /\ nextId' = nextId
    BY DEF Resume
  <1> HIDE DEF waiting
  <1>6. CASE Publish(f, waiting) /\ session' = session
    BY <1>2, <1>3, <1>4, <1>6, ReadIs
  <1>7. CASE /\ Publish(f, [waiting EXCEPT !.stage = "unknown", !.code = "restart"])
             /\ session' = session
    <2> DEFINE t == [waiting EXCEPT !.stage = "unknown", !.code = "restart"]
    <2>1. t \in FlowStates
      BY <1>1, <1>3, FieldSet, Zenon
    <2>2. Looks(t, waiting) /\ t.index = waiting.index
      BY <1>3, <2>1, SMT DEF FlowStates, Looks
    <2> HIDE DEF t
    <2>3. Publish(f, t)
      BY <1>7 DEF t
    <2> QED
      BY <1>2, <1>4, <1>7, <2>2, <2>3, ReadIs DEF Looks
  <1>8. CASE \E t \in Failing(waiting, "unrecoverable") : Publish(f, t) /\ session' = session
    <2> PICK t \in Failing(waiting, "unrecoverable") : Publish(f, t) /\ session' = session
      BY <1>8
    <2>1. Looks(t, waiting) /\ t.index = waiting.index
      BY <1>1, <1>3, FailingIs
    <2> QED
      BY <1>2, <1>4, <2>1, ReadIs DEF Looks
  <1>9. CASE /\ registry.selected = id /\ Issue(f, waiting, "confirm", id) /\ nextId' = nextId
    <2>1. s.anchor # NoOp /\ id \in Ids /\ id \in 0 .. MaxOps
      <3>1. s.anchor # NoOp
        BY <1>2, NoOpIs
      <3>2. id \in 1 .. nextId - 1
        BY <3>1 DEF IdentitiesInv, NamesMinted, Minted
      <3> QED
        BY <3>1, <3>2, TypeIs, LimitsAssumption, SMT DEF Ids
    <2>2. "confirm" \in RemoteKinds \cup LocalKinds
      BY KindsAre
    <2>3. Issues(f, "confirm", id)
      BY <1>2, <1>3, <1>4, <1>9, <2>1, <2>2, IssueIs
    <2>4. Calls(f, "confirm", id)
      BY <1>2, <1>9, <2>1, <2>2, <2>3, Zenon DEF Calls
    <2> QED
      BY <2>4
  <1> QED
    BY <1>5, <1>6, <1>7, <1>8, <1>9

\* A call ends, or is asked about, with an outcome that is sound.
Stays == UNCHANGED <<published, host, runtime, registry, nextId>>
RemoteKeeps == /\ remote' \in Remotes /\ remote'.out = remote.out
               /\ remote'.placed = remote.placed /\ remote'.archives = remote.archives
Ends(f, state, kept, o) ==
    Sound(f, state, kept, o) /\ Settles(f, state, o) /\ SessionKeeps(kept)
Concludes(f) ==
    /\ flow[f].at \in {"call", "bound", "marked", "wait"}
       \/ (f = published /\ flow[f].at = "idle")
    /\ flow[f].pending # NoOp
    /\ \E state, kept, o : Ends(f, state, kept, o)
    /\ RemoteKeeps /\ Stays

LEMMA RefusalEnds ==
    ASSUME TypeOK, NEW f \in Flows, NEW kind, Settle(f, flow[f], Refused(kind)),
           session' = session, flow[f].at \in {"call", "bound", "marked"}
    PROVE  Ends(f, flow[f], {}, Refused(kind))
  <1> DEFINE o == Refused(kind)
             x == [state |-> flow[f], kept |-> {}, outcome |-> o]
  <1>1. o \in Outcomes
    BY NamedOutcomes
  <1>2. \A r \in {o} : QuietOutcome(f, flow[f], r)
    <2>1. o \in Outcomes /\ o.keep = "none" /\ ~o.moves /\ o.code # "settled"
      BY NamedOutcomes
    <2> HIDE DEF o
    <2> QED
      BY <2>1 DEF QuietOutcome
  <1>3. x \in Plainly(flow[f], {o})
    BY Zenon DEF Plainly
  <1>4. Learner(flow[f], flow[f])
    BY FlowType, SelfLearner
  <1>5. SoundAnswer(f, x)
    BY <1>2, <1>3, <1>4, QuietSound
  <1>6. x.state = flow[f] /\ x.kept = {} /\ x.outcome = o
    BY <1>3, PlainlyIs
  <1>7. Sound(f, flow[f], {}, o)
    BY <1>5, <1>6, Zenon DEF SoundAnswer
  <1>8. Settles(f, flow[f], o)
    BY <1>1, FlowType, SettleIs
  <1>9. SessionKeeps({})
    BY SessionStays
  <1> QED
    BY <1>7, <1>8, <1>9 DEF Ends

LEMMA RemoteUnchanged == ASSUME TypeOK, remote' = remote PROVE RemoteKeeps
  BY TypeIs DEF RemoteKeeps

LEMMA CallRefusedIs ==
    ASSUME TypeOK, FlowsInv, NEW f \in Flows, CallRefused(f)
    PROVE  Concludes(f)
  <1>1. flow[f].at \in {"call", "bound"} /\ flow[f].pending # NoOp
    BY DEF CallRefused, FlowsInv, Calling
  <1>2. Settle(f, flow[f], Refused(flow[f].pending.kind)) /\ session' = session
    BY DEF CallRefused
  <1>3. Ends(f, flow[f], {}, Refused(flow[f].pending.kind))
    BY <1>1, <1>2, RefusalEnds
  <1>4. RemoteKeeps /\ Stays
    BY RemoteUnchanged DEF CallRefused, Stays
  <1> QED
    BY <1>1, <1>3, <1>4 DEF Concludes

LEMMA AnsweredEnds ==
    ASSUME TypeOK, NEW f \in Flows, NEW x, SoundAnswer(f, x), Answered(f, x)
    PROVE  Ends(f, x.state, x.kept, x.outcome) /\ Stays
  <1>1. Sound(f, x.state, x.kept, x.outcome)
    BY DEF SoundAnswer
  <1>2. x.state \in FlowStates /\ x.outcome \in Outcomes
    BY <1>1 DEF Sound, Learner
  <1>3. Settle(f, x.state, x.outcome) /\ Kept(x.kept) /\ Stays
    BY DEF Answered, Stays
  <1>4. Settles(f, x.state, x.outcome)
    BY <1>2, <1>3, SettleIs
  <1>5. SessionKeeps(x.kept)
    BY <1>3, SessionLearns
  <1> QED
    BY <1>1, <1>3, <1>4, <1>5 DEF Ends

LEMMA OutOfCallKinds ==
    ASSUME TypeOK, IdentitiesInv, NEW f \in Flows, flow[f].pending # NoOp
    PROVE  /\ flow[f].pending.kind \in RemoteKinds \cup LocalKinds
           /\ flow[f].pending.id \in Ids
           /\ flow[f].pending \in AnyOp
           /\ Ref(flow[f].pending) \in Refs
  <1>1. flow[f].pending \in AnyOp
    BY FlowType, StateType
  <1>2. flow[f].pending.kind \in OpKinds
    BY <1>1, SMT DEF AnyOp
  <1>3. /\ flow[f].pending.kind # "none" /\ flow[f].pending.id \in 1 .. nextId - 1
        /\ flow[f].pending.kind \notin AnchorKinds
    BY DEF IdentitiesInv, NamesMinted, Minted
  <1>4. flow[f].pending.id \in Ids
    BY <1>3, TypeIs, LimitsAssumption, SMT DEF Ids
  <1> QED
    BY <1>1, <1>2, <1>3, <1>4, RefIs DEF OpKinds

LEMMA AnswerIs ==
    ASSUME TypeOK, IdentitiesInv, FlowsInv, NEW f \in Flows, Answer(f)
    PROVE  Concludes(f)
  <1> DEFINE s == flow[f]
             op == s.pending
             t == [s EXCEPT !.staged = op.id]
             lost == IF op.kind = "prepare" THEN t ELSE s
             answers == CASE op.kind = "stop" -> StopAnswers(s)
                          [] op.kind = "backup" -> BackupAnswers(s)
                          [] op.kind = "prepare" -> PrepareAnswers(s)
                          [] op.kind = "restore" -> RestoreAnswers(s)
                          [] op.kind = "issue" -> IssueAnswers(s)
                          [] op.kind = "confirm" -> ConfirmAnswers(s)
                          [] OTHER -> RollbackAnswers(s)
  <1>1. s.at = "wait" /\ s.pending # NoOp /\ s \in FlowStates
    BY FlowType DEF Answer, FlowsInv, Calling
  <1>2. op.kind \in RemoteKinds \cup LocalKinds /\ op.id \in Ids /\ op \in AnyOp
    BY <1>1, OutOfCallKinds
  <1>3. op.id \in 0 .. MaxOps /\ op.id # 0
    BY <1>2, IdsAre
  <1>4. t \in FlowStates
    BY <1>1, <1>3, FieldSet, Zenon
  <1>5. Learner(t, s) /\ t.owed = s.owed /\ t.backup = s.backup
    BY <1>1, <1>3, <1>4, SMT DEF FlowStates, Learner
  <1> HIDE DEF t
  <1>6. ASSUME NEW x \in Plainly(lost, {Unsettled(op.kind)})
        PROVE  SoundAnswer(f, x)
    <2>1. \A o \in {Unsettled(op.kind)} : QuietOutcome(f, lost, o)
      BY NamedOutcomes DEF QuietOutcome
    <2>2. Learner(lost, s) /\ lost.owed = s.owed /\ lost.backup = s.backup
      BY <1>1, <1>5, SelfLearner
    <2> HIDE DEF lost
    <2> QED
      BY <1>6, <2>1, <2>2, QuietSound
  <1>7. ASSUME NEW x \in answers
        PROVE  SoundAnswer(f, x)
    <2>1. CASE op.kind = "stop"
      BY <1>7, <2>1, StopSound
    <2>2. CASE op.kind = "backup"
      BY <1>7, <2>2, BackupSound
    <2>3. CASE op.kind = "prepare"
      BY <1>2, <1>3, <1>7, <2>3, PrepareSound
    <2>4. CASE op.kind = "restore"
      BY <1>7, <2>4, RestoreSound
    <2>5. CASE op.kind = "issue"
      BY <1>7, <2>5, IssueSound
    <2>6. CASE op.kind = "confirm"
      BY <1>7, <2>6, ConfirmSound
    <2>7. CASE op.kind = "rollback"
      BY <1>7, <2>7, RollbackSound
    <2> QED
      BY <1>2, <2>1, <2>2, <2>3, <2>4, <2>5, <2>6, <2>7, KindsAre
  <1>8. PICK x \in Plainly(lost, {Unsettled(op.kind)})
                   \cup (IF Ref(op) \in remote.out THEN {} ELSE answers) : Answered(f, x)
    BY DEF Answer, t
  <1> HIDE DEF answers, lost
  <1>9. SoundAnswer(f, x)
    BY <1>6, <1>7, <1>8
  <1>10. Ends(f, x.state, x.kept, x.outcome) /\ Stays
    BY <1>8, <1>9, AnsweredEnds
  <1>11. RemoteKeeps
    <2> DEFINE y == IF op.kind = "stop" THEN 0 ELSE remote.stopper
    <2>1. remote \in Remotes /\ 0 \in 0 .. MaxOps
      BY TypeIs, LimitsAssumption, SMT
    <2>2. y \in 0 .. MaxOps
      BY <2>1, SMT DEF Remotes
    <2>3. remote' = [remote EXCEPT !.stopper = y]
      BY DEF Answer
    <2> HIDE DEF y
    <2>4. remote' \in Remotes
      BY <2>1, <2>2, <2>3, SMT DEF Remotes
    <2>5. /\ remote'.out = remote.out /\ remote'.placed = remote.placed
          /\ remote'.archives = remote.archives
      BY <2>1, <2>3, SMT DEF Remotes
    <2> QED
      BY <2>4, <2>5 DEF RemoteKeeps
  <1> QED
    BY <1>1, <1>10, <1>11 DEF Concludes

LEMMA ReconcileIs ==
    ASSUME TypeOK, IdentitiesInv, NEW f \in Flows, Reconcile(f)
    PROVE  Concludes(f)
  <1> DEFINE s == flow[f]
             op == s.pending
  <1>1. f = published /\ s.at = "idle" /\ op # NoOp
    BY DEF Reconcile, Asked
  <1>2. op.kind \in RemoteKinds \cup LocalKinds /\ op.id \in Ids /\ op \in AnyOp
    BY <1>1, OutOfCallKinds
  <1>3. op.id # 0
    BY <1>2, IdsAre
  <1>4. PICK x \in Observed(f) : Answered(f, x)
    BY DEF Reconcile
  <1>5. SoundAnswer(f, x)
    <2>1. CASE op.kind = "stop"
      BY <2>1, StopSound DEF Observed
    <2>2. CASE op.kind = "backup"
      BY <2>2, BackupSound DEF Observed
    <2>3. CASE op.kind = "prepare"
      BY <1>2, <1>3, <2>3, PrepareSound DEF Observed
    <2>4. CASE op.kind = "restore"
      BY <2>4, RestoreSound DEF Observed
    <2>5. CASE op.kind = "issue"
      BY <2>5, IssueSound DEF Observed
    <2>6. CASE op.kind = "confirm"
      BY <2>6, ConfirmSound DEF Observed
    <2>7. CASE op.kind = "rollback"
      BY <2>7, RollbackSound DEF Observed
    <2> QED
      BY <1>2, <2>1, <2>2, <2>3, <2>4, <2>5, <2>6, <2>7, KindsAre
  <1>6. Ends(f, x.state, x.kept, x.outcome) /\ Stays
    BY <1>4, <1>5, AnsweredEnds
  <1>7. RemoteKeeps
    BY RemoteUnchanged DEF Reconcile
  <1> QED
    BY <1>1, <1>6, <1>7 DEF Concludes

\* A step inside a call: where the flow is moves on, and at most one file of the
\* registry is written.
CallingAre == {"call", "wait", "bound", "marked", "prepared", "moved", "restoring"}
SameFlow(f) ==
    /\ OthersStay(f)
    /\ flow'[f].pending = flow[f].pending /\ flow'[f].anchor = flow[f].anchor
    /\ flow'[f].act = flow[f].act /\ flow'[f].index = flow[f].index
    /\ flow'[f].backup = flow[f].backup /\ flow'[f].uncertain = flow[f].uncertain
Pays(f) == \E e : /\ SessionKeeps(e)
                  /\ \/ flow'[f].owed = flow[f].owed
                     \/ flow'[f].owed = {} /\ e = flow[f].owed
Opens(f) ==
    LET r == Ref(flow[f].pending) IN
    /\ history' \in Histories
    /\ \/ history'.open = history.open
       \/ /\ history'.open = history.open \cup {r}
          /\ r \notin history.moot \/ f = published
    /\ history'.moot = history.moot /\ history'.overtaken = history.overtaken
    /\ history'.whole = history.whole
SameFiles == registry'.receipts = registry.receipts /\ registry'.selected = registry.selected
Touches(f) ==
    LET s == flow[f]  kind == s.pending.kind  id == s.pending.id  at == flow'[f].at IN
    /\ registry' \in Registries
    /\ \A i \in Ids : i # id => registry'.receipts[i] = registry.receipts[i]
    /\ \/ /\ SameFiles
          /\ at = "wait" \/ (/\ kind = "issue" /\ s.at \in {"call", "bound", "marked"}
                             /\ at \in {"bound", "marked"})
       \/ /\ kind = "issue" /\ s.at = "marked" /\ at = "prepared"
          /\ registry.selected = 0 /\ registry'.selected = 0 /\ Sole(id)
          /\ registry'.receipts[id] = "prepared"
       \/ /\ kind = "issue" /\ s.at = "prepared" /\ at = "moved"
          /\ registry'.selected = id /\ registry'.receipts = registry.receipts
       \/ /\ kind = "issue" /\ s.at = "moved" /\ at = "wait"
          /\ registry'.selected = registry.selected /\ registry'.receipts[id] = "pending"
       \/ /\ kind = "rollback" /\ s.at = "call" /\ at = "restoring"
          /\ registry.selected = id /\ registry'.selected = 0
          /\ registry'.receipts = registry.receipts
          /\ registry.receipts[id] \in Unconfirmed \cup {"restored"}
       \/ /\ kind = "rollback" /\ s.at = "restoring" /\ at = "wait"
          /\ registry'.selected = registry.selected /\ registry'.receipts[id] = "restored"
Sends == /\ remote' \in Remotes /\ remote'.out \subseteq remote.out \cup (RemoteKinds \X Ids)
         /\ remote'.placed = remote.placed /\ remote'.archives = remote.archives
Moves(f) ==
    /\ flow[f].at \in Calling /\ flow'[f].at \in Calling
    /\ flow[f].pending # NoOp
    /\ SameFlow(f) /\ Pays(f) /\ Opens(f) /\ Touches(f) /\ Sends /\ used' \in Uses
    /\ UNCHANGED <<published, host, runtime, journal, nextId>>

LEMMA PlaceIs ==
    ASSUME TypeOK, NEW f \in Flows, NEW at \in Places, flow' = [flow EXCEPT ![f].at = at]
    PROVE  SameFlow(f) /\ flow'[f].at = at /\ flow'[f].owed = flow[f].owed
  <1> DEFINE s == flow[f]
             t == [s EXCEPT !.at = at]
  <1>1. s \in FlowStates
    BY FlowType
  <1>2. t \in FlowStates
    BY <1>1, FieldSet, Zenon
  <1>3. /\ t.at = at /\ t.pending = s.pending /\ t.anchor = s.anchor /\ t.act = s.act
        /\ t.index = s.index /\ t.backup = s.backup /\ t.uncertain = s.uncertain
        /\ t.owed = s.owed
    BY <1>1, SMT DEF FlowStates
  <1>4. flow' = [flow EXCEPT ![f] = t]
    OBVIOUS
  <1> HIDE DEF t
  <1>5. OthersStay(f) /\ flow'[f] = t
    BY <1>2, <1>4, ReplacedIs, Zenon
  <1> QED
    BY <1>3, <1>5 DEF SameFlow

LEMMA PaidIs ==
    ASSUME TypeOK, NEW f \in Flows, NEW at \in Places,
           flow' = [flow EXCEPT ![f].at = at, ![f].owed = {}], Kept(flow[f].owed)
    PROVE  SameFlow(f) /\ flow'[f].at = at /\ Pays(f)
  <1> DEFINE s == flow[f]
             t == [s EXCEPT !.at = at, !.owed = {}]
  <1>1. s \in FlowStates
    BY FlowType
  <1>2. t \in FlowStates
    BY <1>1, FieldSet, Zenon
  <1>3. /\ t.at = at /\ t.pending = s.pending /\ t.anchor = s.anchor /\ t.act = s.act
        /\ t.index = s.index /\ t.backup = s.backup /\ t.uncertain = s.uncertain
        /\ t.owed = {}
    BY <1>1, SMT DEF FlowStates
  <1>4. flow' = [flow EXCEPT ![f] = t]
    BY <1>1, TypeIs
  <1> HIDE DEF t
  <1>5. OthersStay(f) /\ flow'[f] = t
    BY <1>2, <1>4, ReplacedIs, Zenon
  <1>6. SessionKeeps(flow[f].owed)
    BY SessionLearns
  <1> QED
    BY <1>3, <1>5, <1>6 DEF SameFlow, Pays

LEMMA UnpaidIs ==
    ASSUME TypeOK, NEW f \in Flows, flow'[f].owed = flow[f].owed, session' = session
    PROVE  Pays(f)
  BY SessionStays DEF Pays

LEMMA OpensIs ==
    ASSUME TypeOK, NEW f \in Flows, Ref(flow[f].pending) \in Refs,
           Begins(f) \/ history' = history
    PROVE  Opens(f)
  <1> DEFINE r == Ref(flow[f].pending)
             open == history.open \cup {r}
  <1>1. history \in Histories
    BY TypeIs
  <1>2. CASE history' = history
    BY <1>1, <1>2 DEF Opens
  <1>3. CASE /\ history' = [history EXCEPT !.open = open]
             /\ r \notin history.moot \/ f = published
    <2>1. open \in SUBSET Refs
      <3>1. history.open \in SUBSET Refs
        BY <1>1, SMT DEF Histories
      <3> QED
        BY <3>1
    <2> HIDE DEF open
    <2>2. history' \in Histories
      BY <1>1, <1>3, <2>1, SMT DEF Histories
    <2>3. /\ history'.open = open /\ history'.moot = history.moot
          /\ history'.overtaken = history.overtaken /\ history'.whole = history.whole
      BY <1>1, <1>3, <2>1, SMT DEF Histories
    <2> QED
      BY <1>3, <2>2, <2>3 DEF Opens, open
  <1> QED
    BY <1>2, <1>3 DEF Begins

LEMMA ReceiptSet ==
    ASSUME TypeOK, NEW id \in Ids, NEW x \in Receipts,
           registry' = [registry EXCEPT !.receipts[id] = x]
    PROVE  /\ registry' \in Registries /\ registry'.selected = registry.selected
           /\ registry'.receipts[id] = x
           /\ \A i \in Ids : i # id => registry'.receipts[i] = registry.receipts[i]
  <1>1. registry \in Registries
    BY TypeIs
  <1> QED
    BY <1>1, SMT DEF Registries

LEMMA BindingSet ==
    ASSUME TypeOK, NEW id \in Ids, NEW x \in Bindings,
           registry' = [registry EXCEPT !.bindings[id] = x]
    PROVE  registry' \in Registries /\ SameFiles
  <1>1. registry \in Registries
    BY TypeIs
  <1> QED
    BY <1>1, SMT DEF Registries, SameFiles

LEMMA SelectionSet ==
    ASSUME TypeOK, NEW x \in 0 .. MaxOps,
           registry' = [registry EXCEPT !.selected = x]
    PROVE  /\ registry' \in Registries /\ registry'.selected = x
           /\ registry'.receipts = registry.receipts
  <1>1. registry \in Registries
    BY TypeIs
  <1> QED
    BY <1>1, SMT DEF Registries

LEMMA FilesStay == ASSUME TypeOK, registry' = registry PROVE registry' \in Registries /\ SameFiles
  BY TypeIs DEF SameFiles

\* What is common to the steps inside a call.
LEMMA InsideIs ==
    ASSUME TypeOK, IdentitiesInv, FlowsInv, NEW f \in Flows, flow[f].at \in Calling
    PROVE  /\ flow[f].pending # NoOp /\ flow[f].pending.id \in Ids
           /\ Ref(flow[f].pending) \in Refs
           /\ flow[f].pending.kind \in RemoteKinds \cup LocalKinds
  <1>1. flow[f].pending # NoOp
    BY DEF FlowsInv
  <1> QED
    BY <1>1, OutOfCallKinds

LEMMA NothingSent == ASSUME TypeOK, remote' = remote PROVE Sends
  BY TypeIs DEF Sends

LEMMA CallingPlaces == Calling = CallingAre /\ CallingAre \subseteq Places
  BY PlacesAre DEF Calling, CallingAre

LEMMA SendRequestIs ==
    ASSUME TypeOK, IdentitiesInv, FlowsInv, NEW f \in Flows, SendRequest(f)
    PROVE  Moves(f)
  <1> DEFINE op == flow[f].pending
  <1>1. flow[f].at = "call" /\ op.kind \in RemoteKinds
    BY DEF SendRequest
  <1>2. flow[f].at \in Calling /\ "wait" \in Calling /\ "wait" \in Places
    BY <1>1, PlacesAre DEF Calling
  <1>3. op # NoOp /\ op.id \in Ids /\ Ref(op) \in Refs
    BY <1>2, InsideIs
  <1>4. SameFlow(f) /\ flow'[f].at = "wait" /\ Pays(f)
    <2>1. CASE op.kind \in {"stop", "backup"}
      <3>1. /\ flow' = [flow EXCEPT ![f].at = "wait", ![f].owed = {}]
            /\ Kept(flow[f].owed)
        BY <2>1 DEF SendRequest, Gated
      <3> QED
        BY <1>2, <3>1, PaidIs
    <2>2. CASE op.kind \notin {"stop", "backup"}
      <3>1. flow' = [flow EXCEPT ![f].at = "wait"] /\ session' = session
        BY <2>2 DEF SendRequest
      <3>2. SameFlow(f) /\ flow'[f].at = "wait" /\ flow'[f].owed = flow[f].owed
        BY <1>2, <3>1, PlaceIs
      <3> QED
        BY <3>1, <3>2, UnpaidIs
    <2> QED
      BY <2>1, <2>2
  <1>5. Opens(f)
    BY <1>3, OpensIs DEF SendRequest
  <1>6. Touches(f)
    <2>1. registry' \in Registries /\ SameFiles
      BY FilesStay DEF SendRequest
    <2> QED
      BY <1>4, <2>1 DEF Touches, SameFiles
  <1>7. Sends
    <2> DEFINE out == remote.out \cup {Ref(op)}
    <2>1. remote \in Remotes
      BY TypeIs
    <2>2. remote.out \in SUBSET Refs
      BY <2>1, SMT DEF Remotes
    <2>3. out \in SUBSET Refs
      BY <1>3, <2>2
    <2>4. Ref(op) \in RemoteKinds \X Ids
      BY <1>1, <1>3 DEF Ref
    <2>5. remote' = [remote EXCEPT !.out = out]
      BY DEF SendRequest
    <2>6. out \subseteq remote.out \cup (RemoteKinds \X Ids)
      BY <2>4
    <2> HIDE DEF out
    <2>7. remote' \in Remotes
      BY <2>1, <2>3, <2>5, SMT DEF Remotes
    <2>8. /\ remote'.out = out /\ remote'.placed = remote.placed
          /\ remote'.archives = remote.archives
      BY <2>1, <2>3, <2>5, SMT DEF Remotes
    <2> QED
      BY <2>6, <2>7, <2>8 DEF Sends
  <1>8. used' \in Uses /\ UNCHANGED <<published, host, runtime, journal, nextId>>
    BY TypeIs DEF SendRequest
  <1> QED
    BY <1>2, <1>3, <1>4, <1>5, <1>6, <1>7, <1>8 DEF Moves

LEMMA BindIs ==
    ASSUME TypeOK, IdentitiesInv, FlowsInv, NEW f \in Flows, Bind(f)
    PROVE  Moves(f)
  <1> DEFINE op == flow[f].pending
  <1>1. flow[f].at = "call" /\ op.kind = "issue"
    BY DEF Bind, Holding
  <1>2. flow[f].at \in Calling /\ "bound" \in Calling /\ "bound" \in Places
    BY <1>1, PlacesAre DEF Calling
  <1>3. op # NoOp /\ op.id \in Ids /\ Ref(op) \in Refs
    BY <1>2, InsideIs
  <1>4. SameFlow(f) /\ flow'[f].at = "bound" /\ Pays(f)
    <2>1. /\ flow' = [flow EXCEPT ![f].at = "bound", ![f].owed = {}]
          /\ Kept(flow[f].owed)
      BY DEF Bind
    <2> QED
      BY <1>2, <2>1, PaidIs
  <1>5. Opens(f)
    BY <1>3, OpensIs DEF Bind
  <1>6. Touches(f)
    <2>1. registry' \in Registries /\ SameFiles
      BY <1>3, BindingSet DEF Bind, Bindings
    <2> QED
      BY <1>1, <1>4, <2>1 DEF Touches, SameFiles
  <1>7. Sends /\ used' \in Uses /\ UNCHANGED <<published, host, runtime, journal, nextId>>
    BY TypeIs, NothingSent DEF Bind
  <1> QED
    BY <1>2, <1>3, <1>4, <1>5, <1>6, <1>7 DEF Moves

\* A file operation moves the flow on and leaves the session record alone.
LEMMA LocalStepIs ==
    ASSUME TypeOK, IdentitiesInv, FlowsInv, NEW f \in Flows, flow[f].at \in Calling,
           NEW at \in Calling, LocalStep(f, at), session' = session
    PROVE  /\ flow[f].pending # NoOp /\ flow[f].pending.id \in Ids
           /\ Ref(flow[f].pending) \in Refs
           /\ SameFlow(f) /\ flow'[f].at = at /\ Pays(f) /\ Sends
           /\ UNCHANGED <<published, host, runtime, journal, nextId>>
  <1>1. at \in Places
    BY CallingPlaces
  <1>2. flow' = [flow EXCEPT ![f].at = at]
    BY DEF LocalStep
  <1>3. SameFlow(f) /\ flow'[f].at = at /\ flow'[f].owed = flow[f].owed
    BY <1>1, <1>2, PlaceIs
  <1> QED
    BY <1>3, UnpaidIs, InsideIs, NothingSent DEF LocalStep

LEMMA MarkIssuedIs ==
    ASSUME TypeOK, IdentitiesInv, FlowsInv, NEW f \in Flows, MarkIssued(f)
    PROVE  Moves(f)
  <1> DEFINE op == flow[f].pending
  <1>1. flow[f].at = "bound" /\ op.kind = "issue"
    BY DEF MarkIssued, Holding
  <1>2. flow[f].at \in Calling /\ "marked" \in Calling
    BY <1>1 DEF Calling
  <1>3. /\ op # NoOp /\ op.id \in Ids /\ Ref(op) \in Refs
        /\ SameFlow(f) /\ flow'[f].at = "marked" /\ Pays(f) /\ Sends
        /\ UNCHANGED <<published, host, runtime, journal, nextId>>
    BY <1>2, LocalStepIs DEF MarkIssued
  <1>4. Opens(f)
    BY <1>3, OpensIs DEF MarkIssued
  <1>5. Touches(f)
    <2>1. registry' \in Registries /\ SameFiles
      BY <1>3, BindingSet DEF MarkIssued, Bindings
    <2> QED
      BY <1>1, <1>3, <2>1 DEF Touches, SameFiles
  <1>6. used' \in Uses
    BY TypeIs DEF MarkIssued
  <1> QED
    BY <1>2, <1>3, <1>4, <1>5, <1>6 DEF Moves

LEMMA WriteReceiptIs ==
    ASSUME TypeOK, IdentitiesInv, FlowsInv, NEW f \in Flows, WriteReceipt(f)
    PROVE  Moves(f) \/ Concludes(f)
  <1> DEFINE op == flow[f].pending
  <1>1. flow[f].at = "marked" /\ op.kind = "issue"
    BY DEF WriteReceipt, Holding
  <1>2. flow[f].at \in Calling /\ "prepared" \in Calling
    BY <1>1 DEF Calling
  <1>3. op # NoOp /\ op.id \in Ids /\ Ref(op) \in Refs
    BY <1>2, InsideIs
  <1>4. CASE registry.selected = 0 /\ Sole(op.id)
    <2>1. /\ registry' = [registry EXCEPT !.receipts[op.id] = "prepared"]
          /\ LocalStep(f, "prepared")
          /\ UNCHANGED <<session, used, history>>
      BY <1>4 DEF WriteReceipt
    <2>2. /\ SameFlow(f) /\ flow'[f].at = "prepared" /\ Pays(f) /\ Sends
          /\ UNCHANGED <<published, host, runtime, journal, nextId>>
      BY <1>2, <2>1, LocalStepIs
    <2>3. Opens(f)
      BY <1>3, <2>1, OpensIs
    <2>4. /\ registry' \in Registries /\ registry'.selected = registry.selected
          /\ registry'.receipts[op.id] = "prepared"
          /\ \A i \in Ids : i # op.id => registry'.receipts[i] = registry.receipts[i]
      BY <1>3, <2>1, ReceiptSet DEF Receipts
    <2>5. Touches(f)
      BY <1>1, <1>4, <2>2, <2>4 DEF Touches
    <2>6. used' \in Uses
      BY <2>1, TypeIs
    <2> QED
      BY <1>2, <1>3, <2>2, <2>3, <2>5, <2>6 DEF Moves
  <1>5. CASE ~(registry.selected = 0 /\ Sole(op.id))
    <2>1. /\ Settle(f, flow[f], Refused("issue"))
          /\ UNCHANGED <<published, host, runtime, session, registry, remote, nextId>>
      BY <1>5 DEF WriteReceipt
    <2>2. Ends(f, flow[f], {}, Refused("issue"))
      BY <1>1, <2>1, RefusalEnds
    <2>3. RemoteKeeps /\ Stays
      BY <2>1, RemoteUnchanged DEF Stays
    <2> QED
      BY <1>1, <1>3, <2>2, <2>3 DEF Concludes
  <1> QED
    BY <1>4, <1>5

LEMMA ReplaceRegistryIs ==
    ASSUME TypeOK, IdentitiesInv, FlowsInv, NEW f \in Flows, ReplaceRegistry(f)
    PROVE  Moves(f)
  <1> DEFINE op == flow[f].pending
  <1>1. flow[f].at = "prepared" /\ op.kind = "issue"
    BY DEF ReplaceRegistry, Holding
  <1>2. flow[f].at \in Calling /\ "moved" \in Calling
    BY <1>1 DEF Calling
  <1>3. /\ op # NoOp /\ op.id \in Ids /\ Ref(op) \in Refs
        /\ SameFlow(f) /\ flow'[f].at = "moved" /\ Pays(f) /\ Sends
        /\ UNCHANGED <<published, host, runtime, journal, nextId>>
    BY <1>2, LocalStepIs DEF ReplaceRegistry
  <1>4. Opens(f)
    BY <1>3, OpensIs DEF ReplaceRegistry
  <1>5. Touches(f)
    <2>1. op.id \in 0 .. MaxOps
      BY <1>3, IdsAre
    <2>2. /\ registry' \in Registries /\ registry'.selected = op.id
          /\ registry'.receipts = registry.receipts
      BY <2>1, SelectionSet DEF ReplaceRegistry
    <2> QED
      BY <1>1, <1>3, <2>2 DEF Touches
  <1>6. used' \in Uses
    BY TypeIs DEF ReplaceRegistry
  <1> QED
    BY <1>2, <1>3, <1>4, <1>5, <1>6 DEF Moves

LEMMA FinishReceiptIs ==
    ASSUME TypeOK, IdentitiesInv, FlowsInv, NEW f \in Flows, FinishReceipt(f)
    PROVE  Moves(f)
  <1> DEFINE op == flow[f].pending
  <1>1. flow[f].at = "moved" /\ op.kind = "issue"
    BY DEF FinishReceipt, Holding
  <1>2. flow[f].at \in Calling /\ "wait" \in Calling
    BY <1>1 DEF Calling
  <1>3. /\ op # NoOp /\ op.id \in Ids /\ Ref(op) \in Refs
        /\ SameFlow(f) /\ flow'[f].at = "wait" /\ Pays(f) /\ Sends
        /\ UNCHANGED <<published, host, runtime, journal, nextId>>
    BY <1>2, LocalStepIs DEF FinishReceipt
  <1>4. Opens(f)
    BY <1>3, OpensIs DEF FinishReceipt
  <1>5. Touches(f)
    <2>1. /\ registry' \in Registries /\ registry'.selected = registry.selected
          /\ registry'.receipts[op.id] = "pending"
          /\ \A i \in Ids : i # op.id => registry'.receipts[i] = registry.receipts[i]
      BY <1>3, ReceiptSet DEF FinishReceipt, Receipts
    <2> QED
      BY <1>1, <1>3, <2>1 DEF Touches
  <1>6. used' \in Uses
    BY TypeIs DEF FinishReceipt
  <1> QED
    BY <1>2, <1>3, <1>4, <1>5, <1>6 DEF Moves

LEMMA LocalFailsIs ==
    ASSUME TypeOK, IdentitiesInv, FlowsInv, NEW f \in Flows, LocalFails(f)
    PROVE  Moves(f)
  <1>1. flow[f].at \in Calling /\ "wait" \in Calling
    BY DEF LocalFails, Calling
  <1>2. /\ flow[f].pending # NoOp /\ Ref(flow[f].pending) \in Refs
        /\ SameFlow(f) /\ flow'[f].at = "wait" /\ Pays(f) /\ Sends
        /\ UNCHANGED <<published, host, runtime, journal, nextId>>
    BY <1>1, LocalStepIs DEF LocalFails
  <1>3. Opens(f)
    BY <1>2, OpensIs DEF LocalFails
  <1>4. Touches(f)
    <2>1. registry' \in Registries /\ SameFiles
      BY FilesStay DEF LocalFails
    <2> QED
      BY <1>2, <2>1 DEF Touches, SameFiles
  <1>5. used' \in Uses
    BY FaultIs DEF LocalFails
  <1> QED
    BY <1>1, <1>2, <1>3, <1>4, <1>5 DEF Moves

LEMMA ConfirmReceiptIs ==
    ASSUME TypeOK, IdentitiesInv, FlowsInv, ReceiptsInv, NEW f \in Flows, ConfirmReceipt(f)
    PROVE  Moves(f)
  <1> DEFINE op == flow[f].pending
  <1>1. flow[f].at = "call" /\ op.kind = "confirm"
    BY DEF ConfirmReceipt, Holding
  <1>2. flow[f].at \in Calling /\ "wait" \in Calling /\ "wait" \in Places
    BY <1>1, PlacesAre DEF Calling
  <1>3. op # NoOp /\ op.id \in Ids /\ Ref(op) \in Refs
    BY <1>2, InsideIs
  <1>4. SameFlow(f) /\ flow'[f].at = "wait" /\ Pays(f)
    <2>1. /\ flow' = [flow EXCEPT ![f].at = "wait", ![f].owed = {}]
          /\ Kept(flow[f].owed)
      BY DEF ConfirmReceipt
    <2> QED
      BY <1>2, <2>1, PaidIs
  <1>5. Opens(f)
    BY <1>3, OpensIs DEF ConfirmReceipt
  <1>6. Touches(f)
    <2>1. /\ registry' \in Registries /\ registry'.selected = registry.selected
          /\ registry'.receipts[op.id] = "confirmed"
          /\ \A i \in Ids : i # op.id => registry'.receipts[i] = registry.receipts[i]
      BY <1>3, ReceiptSet DEF ConfirmReceipt, Receipts
    <2>2. registry.receipts[op.id] = "confirmed"
      BY <1>1, <1>2 DEF ReceiptsInv
    <2>3. registry.receipts \in [Ids -> Receipts] /\ registry'.receipts \in [Ids -> Receipts]
      BY <2>1, TypeIs, SMT DEF Registries
    <2>4. registry'.receipts = registry.receipts
      BY <2>1, <2>2, <2>3, SMT
    <2> QED
      BY <1>4, <2>1, <2>4 DEF Touches, SameFiles
  <1>7. Sends /\ used' \in Uses /\ UNCHANGED <<published, host, runtime, journal, nextId>>
    BY TypeIs, NothingSent DEF ConfirmReceipt
  <1> QED
    BY <1>2, <1>3, <1>4, <1>5, <1>6, <1>7 DEF Moves

LEMMA RestoreRegistryIs ==
    ASSUME TypeOK, IdentitiesInv, FlowsInv, NEW f \in Flows, RestoreRegistry(f)
    PROVE  Moves(f)
  <1> DEFINE op == flow[f].pending
             at == IF registry.selected = op.id THEN "restoring" ELSE "wait"
             selected == IF registry.selected = op.id THEN 0 ELSE registry.selected
  <1>1. flow[f].at = "call" /\ op.kind = "rollback"
    BY DEF RestoreRegistry, Holding
  <1>2. flow[f].at \in Calling /\ at \in Calling
    BY <1>1 DEF Calling
  <1>3. LocalStep(f, at) /\ session' = session
    BY DEF RestoreRegistry
  <1>4. /\ op # NoOp /\ op.id \in Ids /\ Ref(op) \in Refs
        /\ SameFlow(f) /\ flow'[f].at = at /\ Pays(f) /\ Sends
        /\ UNCHANGED <<published, host, runtime, journal, nextId>>
    BY <1>2, <1>3, LocalStepIs
  <1>5. Opens(f)
    BY <1>4, OpensIs DEF RestoreRegistry
  <1>6. Touches(f)
    <2>1. selected \in 0 .. MaxOps
      <3>1. registry.selected \in 0 .. MaxOps /\ 0 \in 0 .. MaxOps
        BY TypeIs, LimitsAssumption, SMT DEF Registries
      <3> QED
        BY <3>1
    <2>2. registry' = [registry EXCEPT !.selected = selected]
      BY DEF RestoreRegistry
    <2>3. /\ registry' \in Registries /\ registry'.selected = selected
          /\ registry'.receipts = registry.receipts
      BY <2>1, <2>2, SelectionSet, Zenon
    <2>4. registry.receipts[op.id] \in Unconfirmed \cup {"restored"}
      BY DEF RestoreRegistry, Interrupted
    <2> QED
      BY <1>1, <1>4, <2>3, <2>4 DEF Touches, SameFiles
  <1>7. used' \in Uses
    BY TypeIs DEF RestoreRegistry
  <1> QED
    BY <1>2, <1>4, <1>5, <1>6, <1>7 DEF Moves

LEMMA RestoreReceiptIs ==
    ASSUME TypeOK, IdentitiesInv, FlowsInv, NEW f \in Flows, RestoreReceipt(f)
    PROVE  Moves(f)
  <1> DEFINE op == flow[f].pending
  <1>1. flow[f].at = "restoring" /\ op.kind = "rollback"
    BY DEF RestoreReceipt, Holding
  <1>2. flow[f].at \in Calling /\ "wait" \in Calling
    BY <1>1 DEF Calling
  <1>3. /\ op # NoOp /\ op.id \in Ids /\ Ref(op) \in Refs
        /\ SameFlow(f) /\ flow'[f].at = "wait" /\ Pays(f) /\ Sends
        /\ UNCHANGED <<published, host, runtime, journal, nextId>>
    BY <1>2, LocalStepIs DEF RestoreReceipt
  <1>4. Opens(f)
    BY <1>3, OpensIs DEF RestoreReceipt
  <1>5. Touches(f)
    <2>1. /\ registry' \in Registries /\ registry'.selected = registry.selected
          /\ registry'.receipts[op.id] = "restored"
          /\ \A i \in Ids : i # op.id => registry'.receipts[i] = registry.receipts[i]
      BY <1>3, ReceiptSet DEF RestoreReceipt, Receipts
    <2> QED
      BY <1>1, <1>3, <2>1 DEF Touches
  <1>6. used' \in Uses
    BY TypeIs DEF RestoreReceipt
  <1> QED
    BY <1>2, <1>3, <1>4, <1>5, <1>6 DEF Moves

\* Every step of a composed flow belongs to one class.
Classes(f) == \/ Reads(f) \/ Verifies(f) \/ Retires(f) \/ Concludes(f) \/ Moves(f)
              \/ \E kind, id : Calls(f, kind, id)

LEMMA FlowStepIs ==
    ASSUME TypeOK, IdentitiesInv, FlowsInv, ReceiptsInv, NEW f \in Flows, FlowStep(f),
           ~Compose(f)
    PROVE  Classes(f)
  <1>1. CASE \/ RunPreview(f) \/ RunProbe(f) \/ Cancel(f) \/ ObservationFails(f)
             \/ RunVerify(f) \/ Resume(f)
    BY <1>1, RunPreviewIs, RunProbeIs, CancelIs, ObservationFailsIs, RunVerifyIs, ResumeIs
       DEF Classes
  <1>2. CASE RunMutation(f) \/ RestoreBackup(f) \/ RollbackActivation(f)
    BY <1>2, RunMutationIs, RestoreBackupIs, RollbackActivationIs DEF Classes
  <1>3. CASE Reconcile(f) \/ CallRefused(f) \/ Answer(f) \/ WriteReceipt(f)
    BY <1>3, ReconcileIs, CallRefusedIs, AnswerIs, WriteReceiptIs DEF Classes
  <1>4. CASE \/ SendRequest(f) \/ Bind(f) \/ MarkIssued(f) \/ ReplaceRegistry(f)
             \/ FinishReceipt(f) \/ LocalFails(f) \/ ConfirmReceipt(f)
             \/ RestoreRegistry(f) \/ RestoreReceipt(f)
    BY <1>4, SendRequestIs, BindIs, MarkIssuedIs, ReplaceRegistryIs, FinishReceiptIs,
       LocalFailsIs, ConfirmReceiptIs, RestoreRegistryIs, RestoreReceiptIs DEF Classes
  <1>5. CASE RetireSession(f)
    BY <1>5, RetireSessionIs DEF Classes
  <1> QED
    BY <1>1, <1>2, <1>3, <1>4, <1>5 DEF FlowStep, InCall

-----------------------------------------------------------------------------
(* What the invariant says of a flow that takes a step. *)

LEMMA PartsAre ==
    UpdateInv <=> /\ TypeOK /\ IdentitiesInv /\ FlowsInv /\ EvidenceInv /\ RecordedInv
                  /\ IssuerInv /\ ReceiptsInv /\ StartedInv /\ KnownInv /\ SessionInv
  BY DEF UpdateInv

\* A flow that is composed means that the start is over, and one that is not about
\* to resume that the first look at the activation is.
LEMMA UpIs ==
    ASSUME FlowsInv, StartedInv, NEW f \in Flows, flow[f].at # "none"
    PROVE  /\ host = "ready"
           /\ flow[f].at # "resume" => ~Starting
           /\ \A g \in Flows : g # f /\ flow[g].at \in {"idle", "resume"} =>
                  g = published /\ f # published
           /\ f # published => history.overtaken
  BY DEF FlowsInv, StartedInv, Calling

\* An instance that may write and has nothing pending overwrites nothing.
LEMMA FreeIs ==
    ASSUME TypeOK, IdentitiesInv, FlowsInv, RecordedInv, NEW f \in Flows, Writes(f),
           flow[f].at \in {"idle", "resume"}, flow[f].pending = NoOp
    PROVE  /\ history.open = {}
           /\ \A g \in Flows : flow[g].at \in Calling => Ref(flow[g].pending) \in history.moot
  <1>1. CASE Ref(NoOp) # Ref(journal.pending)
    BY <1>1 DEF RecordedInv, Writes
  <1>2. CASE Ref(NoOp) = Ref(journal.pending)
    <2>1. history.open \subseteq {<<"none", 0>>} /\ <<"none", 0>> \notin history.open
      BY <1>2, NoOpIs DEF RecordedInv, IdentitiesInv
    <2>2. ASSUME NEW g \in Flows, flow[g].at \in Calling
          PROVE  Ref(flow[g].pending) \in history.moot
      <3>1. flow[g].pending # NoOp
        BY <2>2 DEF FlowsInv
      <3>2. flow[g].pending.kind # "none" /\ flow[g].pending \in AnyOp
        BY <3>1, FlowType, StateType DEF IdentitiesInv, NamesMinted, Minted
      <3>3. Ref(flow[g].pending) # Ref(NoOp)
        BY <3>2, NoOpIs, RefIs
      <3> QED
        BY <1>2, <2>2, <3>3 DEF RecordedInv
    <2> QED
      BY <2>1, <2>2
  <1> QED
    BY <1>1, <1>2

\* The session record is open as long as a flow is not settled.
LEMMA OpenIs ==
    ASSUME SessionInv, ~history.overtaken, NEW f \in Flows, flow[f].at # "none", ~Settled(f)
    PROVE  session.state = "open"
  BY DEF SessionInv

\* The evidence behind one flow, and what a step that takes none away leaves of it.
Reached(f) == /\ flow[f].index >= 2 => remote.placed # 0
              /\ flow[f].index >= 4 => remote.archives # {}
              /\ flow[f].index >= 5 => SourceKept
Archived(f) == /\ flow[f].index >= 3 /\ remote.archives # {}
               /\ SourceKept \/ "source" \in flow[f].owed
Pinned(f) ==
    LET s == flow[f] IN
    /\ s.pending.kind \in {"prepare", "stop", "backup"} =>
           s.index = Position(s.pending.kind)
    /\ s.pending.kind = "restore" => s.index >= 3
    /\ s.pending.kind \in LocalKinds \/ s.anchor # NoOp \/ s.act # 0 => s.index >= 5
EvidenceOf(f) == /\ Reached(f) /\ Pinned(f)
                 /\ flow[f].backup => Archived(f)

LEMMA EvidenceAre ==
    EvidenceInv => /\ Established(journal.pending, journal.anchor)
                   /\ registry.selected # 0 => SourceKept
                   /\ \A f \in Flows : EvidenceOf(f)
  BY DEF EvidenceInv, EvidenceOf, Reached, Archived, Pinned

LEMMA EvidenceFrom ==
    ASSUME Established(journal.pending, journal.anchor)',
           (registry.selected # 0 => SourceKept)',
           \A f \in Flows : EvidenceOf(f)'
    PROVE  EvidenceInv'
  BY DEF EvidenceInv, EvidenceOf, Reached, Archived, Pinned

Grows == /\ remote.placed # 0 => remote'.placed # 0
         /\ remote.archives # {} => remote'.archives # {}
         /\ SourceKept => SourceKept'

LEMMA EvidenceStays ==
    ASSUME NEW f \in Flows, Grows, flow'[f] = flow[f], EvidenceOf(f)
    PROVE  EvidenceOf(f)'
  BY DEF EvidenceOf, Reached, Archived, Pinned, Grows

LEMMA EstablishedStays ==
    ASSUME Grows, journal' = journal, Established(journal.pending, journal.anchor)
    PROVE  Established(journal.pending, journal.anchor)'
  BY DEF Established, Grows

\* What a flow inside a call knows of the record, and one outside.
CallerOf(f) ==
    flow[f].at \in Calling =>
        /\ f = published => journal.fresh = {f}
        /\ f \in journal.fresh => /\ ~flow[f].uncertain
                                  /\ journal.pending = flow[f].pending
        /\ Ref(flow[f].pending) \in {Ref(journal.pending)} \cup history.moot
Harmless == /\ history.open = {}
            /\ \A g \in Flows : flow[g].at \in Calling => Ref(flow[g].pending) \in history.moot
WriterOf(f) ==
    /\ Writes(f) /\ flow[f].at \in {"idle", "resume", "hook"}
    /\ Ref(flow[f].pending) # Ref(journal.pending)
    => Harmless

LEMMA RecordedAre ==
    RecordedInv => /\ history.open \subseteq {Ref(journal.pending)}
                   /\ \A f \in Flows : CallerOf(f) /\ WriterOf(f)
  BY DEF RecordedInv, CallerOf, WriterOf, Harmless, Writes

LEMMA RecordedFrom ==
    ASSUME journal' \in Journals, (history.open \subseteq {Ref(journal.pending)})',
           \A f \in Flows : CallerOf(f)' /\ WriterOf(f)'
    PROVE  RecordedInv'
  <1>1. journal'.fresh \subseteq Flows
    BY SMT DEF Journals
  <1> QED
    BY <1>1 DEF RecordedInv, CallerOf, WriterOf, Harmless, Writes

LEMMA CallerStays ==
    ASSUME NEW f \in Flows, flow'[f] = flow[f], CallerOf(f), journal' = journal,
           published' = published, history.moot \subseteq history'.moot
    PROVE  CallerOf(f)'
  BY DEF CallerOf

-----------------------------------------------------------------------------
(* The steps that only read. *)

LEMMA ReadsKeep ==
    ASSUME UpdateInv, NEW f \in Flows, Reads(f)
    PROVE  UpdateInv'
  <1> USE PartsAre
  <1>1. PICK e : /\ SessionKeeps(e)
                 /\ flow'[f].owed \in {flow[f].owed, {}}
                 /\ flow'[f].owed = flow[f].owed \/ e = flow[f].owed
    BY DEF Reads
  <1>2. TypeOK'
    <2>1. flow' \in [Flows -> FlowStates] /\ used' \in Uses /\ session' \in SessionStates
      BY <1>1 DEF Reads, OthersStay, SessionKeeps
    <2> QED
      BY <2>1, TypeIs DEF Reads, SessionStates, Uses, TypeOK
  <1>3. /\ flow[f].at # "none" /\ f = published /\ host = "ready"
        /\ \A g \in Flows : g # f => flow'[g] = flow[g] /\ flow[g].at \notin {"idle", "resume"}
    BY UpIs DEF Reads, OthersStay
  <1>4. IdentitiesInv'
    BY <1>3 DEF Reads, IdentitiesInv, NamesMinted, Minted
  <1>5. FlowsInv'
    BY <1>3 DEF Reads, FlowsInv, Calling
  <1>6. EvidenceInv'
    <2>1. SourceKept => SourceKept'
      BY <1>1 DEF SourceKept, SessionKeeps, Reads
    <2>2. Grows
      BY <2>1 DEF Grows, Reads
    <2>3. EvidenceOf(f)'
      <3>1. Reached(f) /\ Pinned(f) /\ (flow[f].backup => Archived(f))
        BY EvidenceAre DEF EvidenceOf
      <3>2. Archived(f) => Archived(f)'
        BY <1>1, <2>2 DEF Archived, Reads, Grows, SessionKeeps, SourceKept
      <3>3. /\ flow'[f].index = 5 => flow[f].backup \/ flow[f].index = 5
            /\ flow'[f].index = 5 /\ flow[f].index # 5 =>
                   remote.placed # 0 /\ flow'[f].owed = {}
        BY DEF Reads
      <3>4. Reached(f)'
        <4>1. CASE flow'[f].index = 5 /\ flow[f].index # 5
          BY <2>2, <3>1, <3>2, <3>3, <4>1 DEF Reached, Archived, Grows
        <4>2. CASE flow'[f].index # 5 \/ flow[f].index = 5
          BY <2>2, <3>1, <4>2 DEF Reached, Grows, Reads
        <4> QED
          BY <4>1, <4>2
      <3>5. Pinned(f)'
        BY <3>1, NoOpIs, KindsAre DEF Pinned, Reads
      <3> QED
        BY <3>1, <3>2, <3>4, <3>5 DEF EvidenceOf, Reads
    <2> QED
      BY <1>3, <2>1, <2>2, <2>3, EvidenceAre, EvidenceStays, EstablishedStays, EvidenceFrom
         DEF Reads
  <1>7. RecordedInv'
    <2>1. ASSUME NEW g \in Flows
          PROVE  CallerOf(g)' /\ WriterOf(g)'
      <3>1. Harmless => Harmless'
        BY <1>3 DEF Harmless, Reads, Calling
      <3>2. Writes(g)' => Writes(g)
        BY <1>3 DEF Writes, Reads
      <3>3. flow'[g].at \in {"idle", "resume", "hook"} => flow[g].at \in {"idle", "resume", "hook"}
        BY <1>3 DEF Reads
      <3>4. flow'[g].pending = flow[g].pending /\ journal' = journal
        BY <1>3 DEF Reads
      <3>5. WriterOf(g)'
        BY <3>1, <3>2, <3>3, <3>4, RecordedAre DEF WriterOf
      <3>6. CallerOf(g)'
        BY <1>3, RecordedAre, CallerStays DEF CallerOf, Reads, Calling
      <3> QED
        BY <3>5, <3>6
    <2> QED
      BY <1>2, <2>1, RecordedAre, RecordedFrom, TypeIs DEF Reads
  <1>8. IssuerInv'
    BY <1>3 DEF IssuerInv, Reads, Issuing, OnlyIssues
  <1>9. ReceiptsInv'
    BY <1>3 DEF ReceiptsInv, Reads, Calling, SelectionIsReversible
  <1>10. StartedInv'
    BY <1>3 DEF StartedInv, Starting, Reads
  <1>11. KnownInv'
    BY <1>3 DEF KnownInv, Reads, Knows, Issuing
  <1>12. SessionInv'
    <2>1. ~history.overtaken => session.state = "open"
      BY <1>3, OpenIs DEF Reads
    <2>2. session'.state = session.state
      BY <1>1 DEF SessionKeeps
    <2> QED
      BY <1>3, <2>1, <2>2 DEF SessionInv, Reads
  <1> QED
    BY <1>2, <1>4, <1>5, <1>6, <1>7, <1>8, <1>9, <1>10, <1>11, <1>12 DEF UpdateInv

-----------------------------------------------------------------------------
(* The end of an update, and the hook that retires its session record. *)

\* A record that this step wrote, or not.
LEMMA JournalAfter ==
    ASSUME NEW f, NEW p, NEW a, Lands(f, p, a) \/ Raises \/ Blurs(f, p, a)
    PROVE  \/ journal' = journal
           \/ /\ Writes(f) /\ journal'.pending = p /\ journal'.anchor = a
              /\ journal'.fresh \subseteq {f}
  BY DEF Lands, Raises, Blurs, JournalIs

\* An activation under way has an identity of its own.
LEMMA IssuersAre ==
    ASSUME TypeOK, IdentitiesInv
    PROVE  \A g \in Flows : Issuing(g) => flow[g].pending.id \in Ids /\ flow[g].pending.id # 0
  <1>1. ASSUME NEW g \in Flows, Issuing(g)
        PROVE  flow[g].pending.id \in Ids /\ flow[g].pending.id # 0
    <2>1. flow[g].pending # NoOp
      BY <1>1, NoOpIs DEF Issuing
    <2> QED
      BY <2>1, OutOfCallKinds, IdsAre
  <1> QED
    BY <1>1

LEMMA VerifiesKeep ==
    ASSUME UpdateInv, NEW f \in Flows, Verifies(f)
    PROVE  UpdateInv'
  <1> USE PartsAre
  <1>1. TypeOK'
    <2>1. /\ flow' \in [Flows -> FlowStates] /\ used' \in Uses /\ journal' \in Journals
          /\ history' \in Histories
      BY DEF Verifies, OthersStay
    <2> QED
      BY <2>1, TypeIs DEF Verifies, Journals, Uses, Histories, TypeOK
  <1>2. /\ flow[f].at = "idle" /\ f = published /\ host = "ready" /\ flow[f].pending = NoOp
        /\ ~Starting
        /\ \A g \in Flows : g # f => flow'[g] = flow[g] /\ flow[g].at \notin {"idle", "resume"}
        /\ flow'[f].at \in {"idle", "hook"}
        /\ UNCHANGED <<published, host, runtime, session, registry, remote, nextId>>
        /\ history'.whole /\ history'.open = history.open
        /\ history'.moot = history.moot /\ history'.overtaken = history.overtaken
        /\ flow'[f].pending = NoOp /\ flow'[f].anchor = NoOp /\ flow'[f].act = flow[f].act
    BY UpIs DEF Verifies, OthersStay
  <1>3. \/ journal' = journal
        \/ /\ Writes(f) /\ journal'.pending = NoOp /\ journal'.anchor = NoOp
           /\ journal'.fresh \subseteq {f}
    BY JournalAfter DEF Verifies
  <1>4. NoOp.kind = "none" /\ NoOp.id = 0 /\ \A g \in Flows : Issuing(g) => flow[g].pending.id # 0
    BY NoOpIs, IssuersAre
  <1>5. IdentitiesInv'
    BY <1>2, <1>3, <1>4, KindsAre DEF IdentitiesInv, NamesMinted, Minted
  <1>6. FlowsInv'
    BY <1>2 DEF FlowsInv, Calling, Verifies
  <1>7. EvidenceInv'
    <2>1. SourceKept' /\ Grows
      BY <1>2 DEF SourceKept, Grows
    <2>2. Established(journal.pending, journal.anchor)'
      BY <1>2, <1>3, <1>4, <2>1, EvidenceAre, KindsAre DEF Established
    <2>3. EvidenceOf(f)'
      <3>1. flow'[f].index = 7 /\ flow[f].index = 6 /\ flow'[f].pending = NoOp
        BY DEF Verifies
      <3>2. Reached(f)'
        BY <1>2, <2>1, <3>1, EvidenceAre DEF EvidenceOf, Reached
      <3>3. Pinned(f)'
        BY <1>2, <1>4, <3>1, KindsAre DEF Pinned
      <3>4. Archived(f)'
        BY <2>1, <3>1, <3>2 DEF Archived, Reached
      <3> QED
        BY <3>2, <3>3, <3>4 DEF EvidenceOf
    <2> QED
      BY <1>2, <2>1, <2>2, <2>3, EvidenceAre, EvidenceStays, EvidenceFrom
  <1>8. RecordedInv'
    <2>1. Writes(f) => Harmless
      BY <1>2, FreeIs DEF Harmless
    <2>2. Harmless => Harmless'
      BY <1>2 DEF Harmless, Calling
    <2>3. (history.open \subseteq {Ref(journal.pending)})'
      BY <1>2, <1>3, <2>1, RecordedAre DEF Harmless
    <2>4. ASSUME NEW g \in Flows PROVE CallerOf(g)' /\ WriterOf(g)'
      <3>1. CASE g = f
        <4>1. CallerOf(g)'
          BY <1>2, <3>1 DEF CallerOf, Calling
        <4>2. Writes(f)' => Writes(f)
          BY DEF Verifies, Lands, Raises, Blurs, JournalIs, Writes
        <4>3. WriterOf(g)'
          BY <2>1, <2>2, <3>1, <4>2 DEF WriterOf
        <4> QED
          BY <4>1, <4>3
      <3>2. CASE g # f /\ journal' = journal
        <4>1. CallerOf(g)'
          BY <1>2, <3>2, RecordedAre, CallerStays
        <4>2. WriterOf(g)'
          BY <1>2, <2>2, <3>2, RecordedAre DEF WriterOf, Writes
        <4> QED
          BY <4>1, <4>2
      <3>3. CASE g # f /\ Writes(f) /\ journal'.fresh \subseteq {f}
        <4>1. flow[g].at \in Calling => Ref(flow[g].pending) \in history.moot
          BY <2>1, <3>3 DEF Harmless
        <4>2. g \notin journal'.fresh
          BY <3>3
        <4> QED
          BY <1>2, <3>3, <4>1, <4>2 DEF CallerOf, WriterOf, Writes
      <3> QED
        BY <1>3, <3>1, <3>2, <3>3
    <2> QED
      BY <2>3, <2>4, RecordedFrom DEF Verifies
  <1>9. IssuerInv'
    BY <1>2, <1>3, <1>4 DEF IssuerInv, Issuing, OnlyIssues
  <1>10. ReceiptsInv'
    BY <1>2 DEF ReceiptsInv, Calling, SelectionIsReversible
  <1>11. StartedInv'
    BY <1>2 DEF StartedInv, Starting
  <1>12. KnownInv'
    BY <1>2 DEF KnownInv
  <1>13. SessionInv'
    <2>1. ~history.overtaken => session.state = "open"
      BY <1>2, OpenIs DEF Verifies
    <2>2. flow'[f].at = "hook" => journal'.pending = NoOp /\ journal'.anchor = NoOp
      BY DEF Verifies, Lands, JournalIs
    <2>3. ~history.overtaken => \A g \in Flows : g # f => flow[g].at = "none"
      BY <1>2 DEF FlowsInv
    <2> QED
      BY <1>2, <2>1, <2>2, <2>3 DEF SessionInv
  <1> QED
    BY <1>1, <1>5, <1>6, <1>7, <1>8, <1>9, <1>10, <1>11, <1>12, <1>13 DEF UpdateInv

LEMMA RetiresKeep ==
    ASSUME UpdateInv, NEW f \in Flows, Retires(f)
    PROVE  UpdateInv'
  <1> USE PartsAre
  <1>1. TypeOK'
    <2>1. flow' \in [Flows -> FlowStates] /\ used' \in Uses /\ session' \in SessionStates
      BY DEF Retires, OthersStay
    <2> QED
      BY <2>1, TypeIs DEF Retires, SessionStates, Uses, TypeOK
  <1>2. /\ flow[f].at = "hook" /\ host = "ready" /\ ~Starting
        /\ history.whole /\ flow[f].pending = NoOp
        /\ flow[f].stage = "ready" /\ flow[f].code = "plain"
        /\ \A g \in Flows : g # f => flow'[g] = flow[g]
        /\ UNCHANGED <<published, host, runtime, journal, registry, remote, nextId, history>>
        /\ flow'[f].at \in {"idle", "none"}
        /\ f = published => flow'[f].at = "idle"
        /\ flow'[f].pending = NoOp
        /\ flow'[f].anchor \in {flow[f].anchor, NoOp} /\ flow'[f].act \in {flow[f].act, 0}
    BY UpIs, BlankIs DEF Retires, OthersStay, FlowsInv, Alike
  <1>3. NoOp.kind = "none" /\ NoOp.id = 0
    BY NoOpIs
  <1>4. IdentitiesInv'
    <2>1. 0 < nextId
      BY TypeIs, SMT
    <2> QED
      BY <1>2, <1>3, <2>1 DEF IdentitiesInv, NamesMinted, Minted
  <1>5. FlowsInv'
    <2>1. f # published => flow'[f] = Blank /\ flow'[f].at = "none"
      BY BlankIs DEF Retires
    <2>2. flow'[f].at # "none" => f = published /\ flow'[f].at = "idle"
      BY <1>2, <2>1
    <2>3. published \in Flows \cup {NoFlow}
      BY TypeIs
    <2>4. published' # NoFlow => flow'[published'].at # "none"
      BY <1>2, <2>3 DEF FlowsInv
    <2> QED
      BY <1>2, <2>1, <2>2, <2>4 DEF FlowsInv, Calling
  <1>6. EvidenceInv'
    <2>1. SourceKept' /\ Grows
      BY <1>2 DEF SourceKept, Grows
    <2>2. EvidenceOf(f)'
      <3>1. CASE f = published
        <4>1. /\ flow'[f].index = flow[f].index /\ flow'[f].backup = flow[f].backup
              /\ flow'[f].owed = flow[f].owed /\ flow'[f].pending = flow[f].pending
              /\ flow'[f].anchor = flow[f].anchor /\ flow'[f].act = flow[f].act
          BY <3>1 DEF Retires, Alike
        <4>2. Reached(f)' /\ Pinned(f)'
          BY <1>2, <2>1, <4>1, EvidenceAre DEF EvidenceOf, Reached, Pinned
        <4>3. Archived(f) => Archived(f)'
          BY <1>2, <2>1, <4>1 DEF Archived
        <4> QED
          BY <4>1, <4>2, <4>3, EvidenceAre DEF EvidenceOf
      <3>2. CASE f # published
        <4>1. flow'[f] = Blank
          BY <3>2 DEF Retires
        <4>2. Reached(f)' /\ Pinned(f)'
          BY <1>3, <4>1, BlankIs, KindsAre DEF Reached, Pinned
        <4> QED
          BY <4>1, <4>2, BlankIs DEF EvidenceOf
      <3> QED
        BY <3>1, <3>2
    <2> QED
      BY <1>2, <2>1, <2>2, EvidenceAre, EvidenceStays, EstablishedStays, EvidenceFrom
  <1>7. RecordedInv'
    <2>1. Harmless => Harmless'
      BY <1>2 DEF Harmless, Calling
    <2>2. ASSUME NEW g \in Flows PROVE CallerOf(g)' /\ WriterOf(g)'
      <3>1. CASE g = f
        <4>1. CallerOf(g)'
          BY <1>2, <3>1 DEF CallerOf, Calling
        <4>2. CASE f = published
          <5>1. flow'[f].uncertain = flow[f].uncertain
            BY <4>2 DEF Retires
          <5>2. Writes(f)' => Writes(f)
            BY <1>2, <5>1 DEF Writes
          <5> QED
            BY <1>2, <2>1, <3>1, <4>1, <5>2, RecordedAre DEF WriterOf
        <4>3. CASE f # published
          <5>1. flow'[f].at = "none"
            BY <4>3, BlankIs DEF Retires
          <5> QED
            BY <3>1, <4>1, <5>1 DEF WriterOf
        <4> QED
          BY <4>2, <4>3
      <3>2. CASE g # f
        <4>1. CallerOf(g)'
          BY <1>2, <3>2, RecordedAre, CallerStays
        <4>2. WriterOf(g)'
          BY <1>2, <2>1, <3>2, RecordedAre DEF WriterOf, Writes
        <4> QED
          BY <4>1, <4>2
      <3> QED
        BY <3>1, <3>2
    <2> QED
      BY <1>2, <2>2, RecordedAre, RecordedFrom, TypeIs
  <1>8. IssuerInv'
    BY <1>2, <1>3, IssuersAre DEF IssuerInv, Issuing, OnlyIssues
  <1>9. ReceiptsInv'
    BY <1>2 DEF ReceiptsInv, Calling, SelectionIsReversible
  <1>10. StartedInv'
    BY <1>2 DEF StartedInv, Starting
  <1>11. KnownInv'
    BY <1>2 DEF KnownInv
  <1>12. SessionInv'
    <2>1. ~history.overtaken => /\ f = published
                                /\ \A g \in Flows : g # f => flow[g].at = "none"
                                /\ journal.pending = NoOp /\ journal.anchor = NoOp
      BY <1>2 DEF FlowsInv, SessionInv
    <2>2. f = published => flow'[f].stage = "ready" /\ flow'[f].code = "plain"
      BY <1>2 DEF Retires, Alike
    <2>3. session'.state = "retired"
      BY DEF Retires
    <2>4. f = published => Settled(f)'
      BY <1>2, <2>2 DEF Settled
    <2> QED
      BY <1>2, <2>1, <2>3, <2>4 DEF SessionInv
  <1> QED
    BY <1>1, <1>4, <1>5, <1>6, <1>7, <1>8, <1>9, <1>10, <1>11, <1>12 DEF UpdateInv

-----------------------------------------------------------------------------
(* A call that is asked for. *)

LEMMA CallsKeep ==
    ASSUME UpdateInv, NEW f \in Flows, NEW kind, NEW id, Calls(f, kind, id)
    PROVE  UpdateInv'
  <1> USE PartsAre
  <1> DEFINE op == flow'[f].pending
  <1>1. /\ kind \in RemoteKinds \cup LocalKinds /\ id \in Ids /\ id # 0
        /\ f = published /\ flow[f].pending = NoOp /\ ~Settled(f)
        /\ flow[f].at \in {"idle", "resume"}
        /\ op \in AnyOp /\ op.kind = kind /\ op.id = id
        /\ flow'[f].anchor = flow[f].anchor /\ flow'[f].index = flow[f].index
        /\ flow'[f].backup = flow[f].backup /\ flow'[f].owed = flow[f].owed
        /\ flow'[f].act = IF kind = "issue" THEN id ELSE flow[f].act
        /\ flow'[f].at \in {"call", "idle"}
        /\ UNCHANGED <<published, host, runtime, session, registry, remote, history>>
    BY IdsAre DEF Calls, Issues
  <1>2. /\ host = "ready"
        /\ \A g \in Flows : g # f => flow'[g] = flow[g] /\ flow[g].at \notin {"idle", "resume"}
    BY <1>1, UpIs DEF Calls, Issues, OthersStay
  <1>3. \/ journal' = journal
        \/ /\ Writes(f) /\ journal'.pending = op /\ journal'.anchor = flow[f].anchor
           /\ journal'.fresh \subseteq {f}
    BY JournalAfter DEF Calls, Issues
  <1>4. Writes(f) => Harmless
    BY <1>1, FreeIs DEF Harmless
  <1>5. /\ nextId \in Nat /\ nextId' \in Nat /\ nextId' >= nextId
        /\ id \in 1 .. nextId' - 1 /\ id \in Nat /\ id < nextId'
        /\ kind \notin {"rollback", "confirm"} => id = nextId
    <2>1. nextId \in 1 .. MaxOps + 1 /\ id \in 1 .. MaxOps
      BY <1>1, TypeIs DEF Ids
    <2>2. CASE kind \notin {"rollback", "confirm"}
      <3>1. id = nextId /\ nextId' = nextId + 1
        BY <2>2 DEF Calls
      <3> QED
        BY <2>1, <2>2, <3>1, LimitsAssumption, SMT
    <2>3. CASE kind \in {"rollback", "confirm"}
      <3>1. nextId' = nextId
        BY <2>3 DEF Calls
      <3>2. id < nextId
        <4>1. CASE kind = "rollback"
          BY <4>1 DEF Calls, IdentitiesInv
        <4>2. CASE kind = "confirm"
          <5>1. flow[f].anchor # NoOp /\ flow[f].anchor.id = id
            BY <4>2 DEF Calls
          <5>2. id \in 1 .. nextId - 1
            BY <5>1 DEF IdentitiesInv, NamesMinted, Minted
          <5> QED
            BY <2>1, <5>2, LimitsAssumption, SMT
        <4> QED
          BY <2>3, <4>1, <4>2
      <3> QED
        BY <2>1, <2>3, <3>1, <3>2, LimitsAssumption, SMT
    <2> QED
      BY <2>2, <2>3
  <1>6. TypeOK'
    <2>1. flow' \in [Flows -> FlowStates] /\ used' \in Uses /\ journal' \in Journals
      BY DEF Calls, Issues, OthersStay
    <2>2. nextId' \in 1 .. MaxOps + 1
      BY <1>1, TypeIs, LimitsAssumption, SMT DEF Calls, Ids
    <2> QED
      BY <1>1, <2>1, <2>2, TypeIs DEF Journals, Uses, TypeOK
  <1>7. /\ kind \in OpKinds \ AnchorKinds /\ kind # "none" /\ op # NoOp
        /\ NoOp.kind = "none" /\ NoOp.id = 0
    BY <1>1, KindsAre, NoOpIs
  <1>8. IdentitiesInv'
    <2>1. \A o : Minted(o) => (o = NoOp \/ (o.kind # "none" /\ o.id \in 1 .. nextId' - 1))
      BY <1>5, SMT DEF Minted
    <2>2. \A p, a : NamesMinted(p, a) =>
              /\ p = NoOp \/ (p.kind # "none" /\ p.id \in 1 .. nextId' - 1)
              /\ a = NoOp \/ (a.kind # "none" /\ a.id \in 1 .. nextId' - 1)
      BY <2>1 DEF NamesMinted
    <2>3. NamesMinted(flow[f].pending, flow[f].anchor)
      BY DEF IdentitiesInv
    <2>4. NamesMinted(flow[f].pending, flow[f].anchor)'
      BY <1>1, <1>5, <1>7, <2>2, <2>3 DEF NamesMinted, Minted, Calls
    <2>5. ASSUME NEW g \in Flows, g # f
          PROVE  NamesMinted(flow[g].pending, flow[g].anchor)'
      BY <1>2, <2>2, <2>5 DEF IdentitiesInv, NamesMinted, Minted
    <2>6. NamesMinted(journal.pending, journal.anchor)'
      <3>1. CASE journal' = journal
        BY <2>2, <3>1 DEF IdentitiesInv, NamesMinted, Minted
      <3>2. CASE journal'.pending = op /\ journal'.anchor = flow[f].anchor
        BY <1>1, <2>4, <3>2 DEF NamesMinted, Minted
      <3> QED
        BY <1>3, <3>1, <3>2
    <2>7. ASSUME NEW g \in Flows PROVE flow'[g].act < nextId'
      <3>1. flow[g].act \in Nat /\ flow[g].act < nextId
        BY FlowType, StateType, LimitsAssumption, SMT DEF IdentitiesInv
      <3>2. flow'[g].act \in {flow[g].act, id}
        BY <1>1, <1>2
      <3> QED
        BY <1>5, <3>1, <3>2, SMT
    <2>8. \A i \in Ids : i >= nextId' => i >= nextId
      BY <1>5, IdsAre, SMT
    <2> QED
      BY <1>1, <2>4, <2>5, <2>6, <2>7, <2>8 DEF IdentitiesInv
  <1>9. FlowsInv'
    BY <1>1, <1>2, <1>7 DEF FlowsInv, Calling
  <1>10. EvidenceInv'
    <2>1. Grows
      BY <1>1 DEF Grows, SourceKept
    <2>2. EvidenceOf(f)
      BY EvidenceAre
    <2>3. /\ kind \in {"prepare", "stop", "backup"} => flow[f].index = Position(kind)
          /\ kind = "restore" => flow[f].index >= 3
          /\ kind \in LocalKinds => flow[f].index >= 5
      <3>1. kind = "rollback" => flow[f].act # 0
        BY <1>1 DEF Calls
      <3>2. kind = "confirm" => flow[f].anchor # NoOp
        BY DEF Calls
      <3>3. kind = "issue" => flow[f].index = 5
        BY DEF Calls
      <3>4. kind = "restore" => flow[f].index >= 3
        BY <2>2 DEF Calls, EvidenceOf, Archived
      <3>5. kind \in {"rollback", "confirm"} => flow[f].index >= 5
        BY <2>2, <3>1, <3>2 DEF EvidenceOf, Pinned
      <3> QED
        BY <3>3, <3>4, <3>5, KindsAre DEF Calls
    <2>4. flow[f].anchor # NoOp => flow[f].index >= 5
      BY <2>2 DEF EvidenceOf, Pinned
    <2>5. Pinned(f)'
      <3>1. flow'[f].act # 0 => flow[f].index >= 5
        BY <1>1, <2>2, <2>3, KindsAre DEF EvidenceOf, Pinned
      <3> QED
        BY <1>1, <2>3, <2>4, <3>1 DEF Pinned
    <2>6. Reached(f)' /\ (Archived(f) => Archived(f)')
      BY <1>1, <2>2 DEF EvidenceOf, Reached, Archived, SourceKept
    <2>7. EvidenceOf(f)'
      BY <1>1, <2>2, <2>5, <2>6 DEF EvidenceOf
    <2>8. Established(journal.pending, journal.anchor)'
      <3>1. CASE journal' = journal
        BY <2>1, <3>1, EvidenceAre, EstablishedStays
      <3>2. CASE journal'.pending = op /\ journal'.anchor = flow[f].anchor
        <4>0. flow[f].index \in 0 .. 7
          BY FlowType, StateType
        <4>1. kind \in {"stop", "backup", "restore"} => flow[f].index >= 2
          BY <2>3, <4>0, PositionIs, SMT
        <4>2. kind \in {"prepare", "stop", "backup"} => flow[f].anchor = NoOp
          BY <2>3, <2>4, PositionIs
        <4>3. flow[f].index \in Nat
          BY <4>0, SMT
        <4>4. /\ flow[f].index >= 2 => remote.placed # 0
              /\ flow[f].index >= 5 => remote.placed # 0 /\ remote.archives # {} /\ SourceKept
          BY <2>2, <4>3, SMT DEF EvidenceOf, Reached
        <4> QED
          BY <1>1, <2>1, <2>3, <2>4, <3>2, <4>1, <4>2, <4>4 DEF Established, Grows
      <3> QED
        BY <1>3, <3>1, <3>2
    <2> QED
      BY <1>1, <1>2, <2>1, <2>7, <2>8, EvidenceAre, EvidenceStays, EvidenceFrom DEF Grows
  <1>11. RecordedInv'
    <2>1. (history.open \subseteq {Ref(journal.pending)})'
      BY <1>1, <1>3, <1>4, RecordedAre DEF Harmless
    <2>2. flow'[f].at = "idle" /\ Harmless => Harmless'
      BY <1>1, <1>2 DEF Harmless, Calling
    <2>3. ASSUME NEW g \in Flows PROVE CallerOf(g)' /\ WriterOf(g)'
      <3>1. CASE g = f /\ Lands(f, op, flow[f].anchor) /\ flow'[f].at = "call"
                 /\ ~flow'[f].uncertain
        BY <1>1, <3>1 DEF CallerOf, WriterOf, Lands, JournalIs, Calling
      <3>2. CASE g = f /\ flow'[f].at = "idle"
        <4>1. CallerOf(g)'
          BY <3>2 DEF CallerOf, Calling
        <4>2. \/ Lands(f, op, flow[f].anchor)
              \/ Writes(f)' => Writes(f)
          BY <3>2 DEF Calls, Issues, Raises, Blurs, JournalIs, Writes
        <4>3. CASE Lands(f, op, flow[f].anchor)
          BY <3>2, <4>1, <4>3 DEF WriterOf, Lands, JournalIs
        <4>4. CASE Writes(f)' => Writes(f)
          BY <1>4, <2>2, <3>2, <4>1, <4>4 DEF WriterOf
        <4> QED
          BY <4>2, <4>3, <4>4
      <3>3. CASE g # f /\ journal' = journal
        <4>1. CallerOf(g)'
          BY <1>1, <1>2, <3>3, RecordedAre, CallerStays
        <4>2. CASE Writes(f) /\ flow'[f].at # "idle"
          <5>1. journal'.fresh \subseteq {f}
            BY <4>2 DEF Calls, Issues, Lands, JournalIs, Blurs
          <5> QED
            BY <3>3, <4>1, <5>1 DEF WriterOf, Writes
        <4>3. CASE flow'[f].at = "idle"
          BY <1>1, <1>2, <2>2, <3>3, <4>1, <4>3, RecordedAre DEF WriterOf, Writes
        <4>4. flow'[f].at = "idle" \/ Writes(f)
          BY DEF Calls, Issues, Lands
        <4> QED
          BY <4>2, <4>3, <4>4
      <3>4. CASE g # f /\ Writes(f) /\ journal'.fresh \subseteq {f}
        <4>1. flow[g].at \in Calling => Ref(flow[g].pending) \in history.moot
          BY <1>4, <3>4 DEF Harmless
        <4>2. g \notin journal'.fresh
          BY <3>4
        <4> QED
          BY <1>1, <1>2, <3>4, <4>1, <4>2 DEF CallerOf, WriterOf, Writes
      <3> QED
        BY <1>3, <3>1, <3>2, <3>3, <3>4 DEF Calls, Issues
    <2> QED
      BY <2>1, <2>3, RecordedFrom DEF Calls, Issues
  <1>12. ASSUME NEW g \in Flows, Issuing(g), g # f
         PROVE  id # flow[g].pending.id /\ flow[f].anchor.id # flow[g].pending.id
                /\ flow[f].act # flow[g].pending.id
    <2>1. /\ flow[f].anchor.id # flow[g].pending.id
          /\ flow[f].act = flow[g].pending.id => flow[f].pending.id = flow[g].pending.id
      BY <1>12 DEF IssuerInv, OnlyIssues
    <2>2. flow[f].act # flow[g].pending.id
      BY <1>1, <1>7, <1>12, <2>1, IssuersAre
    <2>3. flow[g].pending.id \in 1 .. nextId - 1
      <3>1. flow[g].pending # NoOp
        BY <1>7, <1>12 DEF Issuing
      <3> QED
        BY <3>1 DEF IdentitiesInv, NamesMinted, Minted
    <2>4. id = nextId => id # flow[g].pending.id
      BY <1>5, <2>3, SMT
    <2>5. kind = "rollback" => id = flow[f].act
      BY DEF Calls
    <2>6. kind = "confirm" => id = flow[f].anchor.id
      BY DEF Calls
    <2> QED
      BY <1>5, <2>1, <2>2, <2>4, <2>5, <2>6
  <1>13. IssuerInv'
    <2>1. ASSUME NEW g \in Flows, Issuing(g)'
          PROVE  /\ OnlyIssues(journal.pending, journal.anchor, flow[g].pending.id)'
                 /\ registry'.receipts[flow'[g].pending.id] =
                        IF flow'[g].at \in {"prepared", "moved"} THEN "prepared" ELSE "none"
                 /\ flow'[g].at = "prepared" => registry'.selected = 0
                 /\ flow'[g].at = "moved" => registry'.selected = flow'[g].pending.id
                 /\ flow'[g].anchor.id # flow'[g].pending.id
      <3>1. CASE g = f
        <4>1. flow'[f].at = "call" /\ kind = "issue" /\ id = nextId
          BY <1>1, <1>5, <2>1, <3>1 DEF Issuing
        <4>2. journal'.pending = op /\ journal'.anchor = flow[f].anchor
          BY <4>1 DEF Calls, Issues, Lands, JournalIs
        <4>3. flow[f].anchor.id # id
          <5>1. flow[f].anchor = NoOp \/ flow[f].anchor.id \in 1 .. nextId - 1
            BY DEF IdentitiesInv, NamesMinted, Minted
          <5> QED
            BY <1>1, <1>5, <1>7, <4>1, <5>1, SMT
        <4>4. registry.receipts[id] = "none"
          BY <1>1, <1>5, <4>1, SMT DEF IdentitiesInv
        <4> QED
          BY <1>1, <3>1, <4>1, <4>2, <4>3, <4>4 DEF OnlyIssues
      <3>2. CASE g # f
        <4>1. Issuing(g)
          BY <1>2, <2>1, <3>2 DEF Issuing
        <4>2. OnlyIssues(journal.pending, journal.anchor, flow[g].pending.id)
          BY <4>1 DEF IssuerInv
        <4>3. OnlyIssues(journal.pending, journal.anchor, flow[g].pending.id)'
          BY <1>1, <1>2, <1>3, <1>12, <3>2, <4>1, <4>2 DEF OnlyIssues
        <4> QED
          BY <1>1, <1>2, <3>2, <4>1, <4>3 DEF IssuerInv
      <3> QED
        BY <3>1, <3>2
    <2>2. ASSUME NEW g \in Flows, Issuing(g)', NEW h \in Flows \ {g}
          PROVE  /\ OnlyIssues(flow[h].pending, flow[h].anchor, flow[g].pending.id)'
                 /\ flow'[h].act = flow'[g].pending.id => flow'[h].pending.id = flow'[g].pending.id
                 /\ flow'[h].pending.id = flow'[g].pending.id => ~Issuing(h)'
      <3>1. CASE g = f
        <4>1. flow'[f].at = "call" /\ kind = "issue" /\ id = nextId
          BY <1>1, <1>5, <2>2, <3>1 DEF Issuing
        <4>2. /\ flow[h].pending = NoOp \/ flow[h].pending.id \in 1 .. nextId - 1
              /\ flow[h].anchor = NoOp \/ flow[h].anchor.id \in 1 .. nextId - 1
              /\ flow[h].act < nextId /\ flow[h].act \in Nat
          BY FlowType, StateType, LimitsAssumption, SMT DEF IdentitiesInv, NamesMinted, Minted
        <4>3. flow[h].pending.id # id /\ flow[h].anchor.id # id /\ flow[h].act # id
          BY <1>1, <1>5, <1>7, <4>1, <4>2, SMT
        <4> QED
          BY <1>1, <1>2, <2>2, <3>1, <4>3 DEF OnlyIssues
      <3>2. CASE g # f /\ h = f
        <4>1. Issuing(g)
          BY <1>2, <2>2, <3>2 DEF Issuing
        <4> QED
          BY <1>1, <1>2, <1>12, <3>2, <4>1 DEF OnlyIssues
      <3>3. CASE g # f /\ h # f
        <4>1. Issuing(g)
          BY <1>2, <2>2, <3>3 DEF Issuing
        <4> QED
          BY <1>2, <2>2, <3>3, <4>1 DEF IssuerInv, OnlyIssues, Issuing
      <3> QED
        BY <3>1, <3>2, <3>3
    <2> QED
      BY <2>1, <2>2 DEF IssuerInv
  <1>14. ReceiptsInv'
    <2>1. kind = "confirm" => registry.receipts[id] = "confirmed"
      <3>1. kind = "confirm" => flow[f].at = "resume" /\ registry.selected = id
        BY DEF Calls
      <3> QED
        BY <1>1, <3>1 DEF StartedInv, Starting
    <2> QED
      BY <1>1, <1>2, <2>1 DEF ReceiptsInv, Calling, SelectionIsReversible
  <1>15. StartedInv'
    <2>1. ~Starting'
      BY <1>1, <1>2 DEF Starting
    <2> QED
      BY <1>1, <1>2, <2>1 DEF StartedInv
  <1>16. KnownInv'
    BY <1>1, <1>2, <1>3, <1>7 DEF KnownInv, Knows, Issuing
  <1>17. SessionInv'
    <2>1. ~history.overtaken => session.state = "open"
      BY <1>1, OpenIs
    <2>2. \A g \in Flows : g # f /\ ~history.overtaken => flow[g].at = "none"
      BY <1>1 DEF FlowsInv
    <2> QED
      BY <1>1, <1>2, <2>1, <2>2 DEF SessionInv
  <1> QED
    BY <1>6, <1>8, <1>9, <1>10, <1>11, <1>13, <1>14, <1>15, <1>16, <1>17 DEF UpdateInv

-----------------------------------------------------------------------------
(* The steps inside a call. *)

\* Two flows that write a receipt or the selection do not mean the same identity.
LEMMA ApartIs ==
    ASSUME TypeOK, IdentitiesInv, IssuerInv, ReceiptsInv, NEW g \in Flows, Issuing(g),
           NEW f \in Flows, f # g
    PROVE  /\ flow[f].pending.kind # "issue" => flow[f].pending.id # flow[g].pending.id
           /\ Issuing(f) => flow[f].pending.id # flow[g].pending.id
           /\ Issuing(f) /\ flow[f].at \in {"prepared", "moved"} =>
                  flow[g].at \notin {"prepared", "moved"}
  <1>1. /\ flow[f].pending.kind # "issue" => flow[f].pending.id # flow[g].pending.id
        /\ Issuing(f) => flow[f].pending.id # flow[g].pending.id
    BY DEF IssuerInv, OnlyIssues
  <1>2. ASSUME Issuing(f), flow[f].at \in {"prepared", "moved"},
               flow[g].at \in {"prepared", "moved"}
        PROVE  FALSE
    <2>1. /\ registry.receipts[flow[f].pending.id] = "prepared"
          /\ registry.receipts[flow[g].pending.id] = "prepared"
      BY <1>2 DEF IssuerInv
    <2>2. flow[f].pending.id \in Ids /\ flow[g].pending.id \in Ids
      BY <1>2, IssuersAre
    <2>3. flow[f].pending.id = flow[g].pending.id
      BY <2>1, <2>2 DEF ReceiptsInv, SelectionIsReversible, Unconfirmed
    <2> QED
      BY <1>1, <1>2, <2>3
  <1> QED
    BY <1>1, <1>2

LEMMA MovesKeep ==
    ASSUME UpdateInv, NEW f \in Flows, Moves(f)
    PROVE  UpdateInv'
  <1> USE PartsAre
  <1> DEFINE op == flow[f].pending
             id == op.id
  <1>1. /\ flow[f].at \in Calling /\ flow'[f].at \in Calling /\ op # NoOp
        /\ flow' \in [Flows -> FlowStates]
        /\ \A g \in Flows : g # f => flow'[g] = flow[g]
        /\ flow'[f].pending = op /\ flow'[f].anchor = flow[f].anchor
        /\ flow'[f].act = flow[f].act /\ flow'[f].index = flow[f].index
        /\ flow'[f].backup = flow[f].backup /\ flow'[f].uncertain = flow[f].uncertain
        /\ UNCHANGED <<published, host, runtime, journal, nextId>>
    BY DEF Moves, SameFlow, OthersStay
  <1>2. PICK e : /\ SessionKeeps(e)
                 /\ \/ flow'[f].owed = flow[f].owed
                    \/ flow'[f].owed = {} /\ e = flow[f].owed
    BY DEF Moves, Pays
  <1>3. /\ flow[f].at \notin {"none", "idle", "resume", "hook"}
        /\ flow'[f].at \notin {"none", "idle", "resume", "hook"}
    BY <1>1 DEF Calling
  <1>4. host = "ready" /\ ~Starting /\ (f # published => history.overtaken)
    BY <1>3, UpIs
  <1>5. /\ op.kind \in RemoteKinds \cup LocalKinds /\ id \in Ids /\ id # 0
        /\ op.kind # "none" /\ NoOp.kind = "none" /\ NoOp.id = 0
    BY <1>1, OutOfCallKinds, IdsAre, KindsAre, NoOpIs
  <1>6. /\ history' \in Histories
        /\ history'.moot = history.moot /\ history'.overtaken = history.overtaken
        /\ history'.whole = history.whole
        /\ \/ history'.open = history.open
           \/ /\ history'.open = history.open \cup {Ref(op)}
              /\ Ref(op) \notin history.moot \/ f = published
    BY DEF Moves, Opens
  <1>7. /\ registry' \in Registries /\ remote' \in Remotes /\ used' \in Uses
        /\ session' \in SessionStates /\ session'.state = session.state
        /\ remote'.out \subseteq remote.out \cup (RemoteKinds \X Ids)
        /\ remote'.placed = remote.placed /\ remote'.archives = remote.archives
    BY <1>2 DEF Moves, Touches, Sends, SessionKeeps
  <1>8. TypeOK'
    <2>1. /\ published' \in Flows \cup {NoFlow} /\ host' \in {"down", "serving", "open", "ready"}
          /\ runtime' \in 0 .. MaxOps /\ journal' \in Journals /\ nextId' \in 1 .. MaxOps + 1
      BY <1>1, TypeIs
    <2> QED
      BY <1>1, <1>6, <1>7, <2>1
         DEF TypeOK, Journals, SessionStates, Receipts, Bindings, Registries, Remotes,
             Uses, Histories
  <1>9. \A i \in Ids : i # id => registry'.receipts[i] = registry.receipts[i]
    BY DEF Moves, Touches
  <1> DEFINE at == flow'[f].at
             Same == SameFiles /\ \/ at = "wait"
                                  \/ /\ op.kind = "issue"
                                     /\ flow[f].at \in {"call", "bound", "marked"}
                                     /\ at \in {"bound", "marked"}
             Prepares == /\ op.kind = "issue" /\ flow[f].at = "marked" /\ at = "prepared"
                         /\ registry.selected = 0 /\ registry'.selected = 0 /\ Sole(id)
                         /\ registry'.receipts[id] = "prepared"
             Selects == /\ op.kind = "issue" /\ flow[f].at = "prepared" /\ at = "moved"
                        /\ registry'.selected = id /\ registry'.receipts = registry.receipts
             Finishes == /\ op.kind = "issue" /\ flow[f].at = "moved" /\ at = "wait"
                         /\ registry'.selected = registry.selected
                         /\ registry'.receipts[id] = "pending"
             Undoes == /\ op.kind = "rollback" /\ flow[f].at = "call" /\ at = "restoring"
                       /\ registry.selected = id /\ registry'.selected = 0
                       /\ registry'.receipts = registry.receipts
                       /\ registry.receipts[id] \in Unconfirmed \cup {"restored"}
             Restores == /\ op.kind = "rollback" /\ flow[f].at = "restoring" /\ at = "wait"
                         /\ registry'.selected = registry.selected
                         /\ registry'.receipts[id] = "restored"
  <1>10. Same \/ Prepares \/ Selects \/ Finishes \/ Undoes \/ Restores
    BY Zenon DEF Moves, Touches
  <1>11. /\ at \in {"bound", "marked", "prepared", "moved"} => op.kind = "issue"
         /\ at = "restoring" => op.kind = "rollback"
         /\ registry'.selected # registry.selected =>
                \/ registry'.selected = 0
                \/ registry'.selected = id /\ op.kind = "issue"
    BY <1>10 DEF SameFiles
  <1>12. IdentitiesInv'
    <2>1. \A i \in Ids : i >= nextId => i # id
      <3>1. id \in 1 .. nextId - 1
        BY <1>1 DEF IdentitiesInv, NamesMinted, Minted
      <3> QED
        BY <3>1, TypeIs, IdsAre, SMT
    <2>2. \A i \in Ids : i >= nextId => registry'.receipts[i] = "none"
      BY <1>9, <2>1 DEF IdentitiesInv
    <2>3. remote'.out \subseteq RemoteKinds \X Ids
      BY <1>7 DEF IdentitiesInv
    <2>4. <<"none", 0>> \notin history'.open
      <3>1. Ref(op) # <<"none", 0>>
        BY <1>5 DEF Ref
      <3> QED
        BY <1>6, <3>1 DEF IdentitiesInv
    <2>5. ASSUME NEW g \in Flows
          PROVE  /\ flow'[g].pending = flow[g].pending /\ flow'[g].anchor = flow[g].anchor
                 /\ flow'[g].act = flow[g].act
      BY <1>1
    <2> QED
      BY <1>1, <2>2, <2>3, <2>4, <2>5 DEF IdentitiesInv, NamesMinted, Minted
  <1>13. FlowsInv'
    <2>1. published' # NoFlow => flow'[published'].at # "none"
      <3>1. published \in Flows \cup {NoFlow}
        BY TypeIs
      <3> QED
        BY <1>1, <1>3, <3>1 DEF FlowsInv
    <2>2. ASSUME NEW g \in Flows, g # f
          PROVE  /\ flow'[g] = flow[g]
                 /\ published' = published /\ history'.overtaken = history.overtaken
                 /\ history'.whole = history.whole
      BY <1>1, <1>6, <2>2
    <2> QED
      BY <1>1, <1>3, <1>4, <1>6, <1>11, <2>1, <2>2 DEF FlowsInv
  <1>14. EvidenceInv'
    <2>1. SourceKept => SourceKept'
      BY <1>2, <1>6 DEF SourceKept, SessionKeeps
    <2>2. Grows
      BY <1>7, <2>1 DEF Grows
    <2>3. EvidenceOf(f)
      BY EvidenceAre
    <2>4. Reached(f)' /\ Pinned(f)'
      BY <1>1, <2>2, <2>3 DEF EvidenceOf, Reached, Pinned, Grows
    <2>5. Archived(f) => Archived(f)'
      BY <1>1, <1>2, <2>2 DEF Archived, Grows, SessionKeeps, SourceKept
    <2>6. EvidenceOf(f)'
      BY <1>1, <2>3, <2>4, <2>5 DEF EvidenceOf
    <2>7. op.kind = "issue" => SourceKept
      BY <2>3, KindsAre DEF EvidenceOf, Pinned, Reached
    <2>8. registry'.selected # 0 => SourceKept'
      BY <1>11, <2>1, <2>7, EvidenceAre
    <2> QED
      BY <1>1, <2>2, <2>6, <2>8, EvidenceAre, EvidenceStays, EstablishedStays, EvidenceFrom
  <1>15. f = published => journal.pending = op /\ journal.fresh = {f}
    BY <1>1, RecordedAre DEF CallerOf
  <1>16. RecordedInv'
    <2>1. (history.open \subseteq {Ref(journal.pending)})'
      <3>1. CASE history'.open = history.open
        BY <1>1, <3>1, RecordedAre
      <3>2. CASE /\ history'.open = history.open \cup {Ref(op)}
                 /\ Ref(op) \notin history.moot \/ f = published
        <4>1. Ref(op) = Ref(journal.pending)
          BY <1>1, <1>15, <3>2, RecordedAre DEF CallerOf
        <4> QED
          BY <1>1, <3>2, <4>1, RecordedAre
      <3> QED
        BY <1>6, <3>1, <3>2
    <2>2. ASSUME NEW g \in Flows PROVE CallerOf(g)' /\ WriterOf(g)'
      <3>1. CASE g = f
        <4>1. WriterOf(g)'
          BY <1>3, <3>1 DEF WriterOf
        <4>2. CallerOf(f)
          BY RecordedAre
        <4>3. CallerOf(g)'
          BY <1>1, <1>6, <3>1, <4>2 DEF CallerOf
        <4> QED
          BY <4>1, <4>3
      <3>2. CASE g # f
        <4>1. CallerOf(g)'
          BY <1>1, <1>6, <3>2, RecordedAre, CallerStays
        <4>2. ASSUME Writes(g), Harmless PROVE Harmless'
          <5>1. f # published
            BY <1>15, <3>2, <4>2 DEF Writes
          <5>2. Ref(op) \in history.moot
            BY <1>1, <4>2 DEF Harmless
          <5>3. history'.open = history.open
            BY <1>6, <5>1, <5>2
          <5> QED
            BY <1>1, <1>6, <4>2, <5>2, <5>3 DEF Harmless
        <4>3. WriterOf(g)'
          BY <1>1, <3>2, <4>2, RecordedAre DEF WriterOf, Writes
        <4> QED
          BY <4>1, <4>3
      <3> QED
        BY <3>1, <3>2
    <2>3. journal' \in Journals
      BY <1>1, TypeIs
    <2> QED
      BY <2>1, <2>2, <2>3, RecordedFrom
  <1>17. \A g \in Flows : Issuing(g)' => Issuing(g)
    <2>1. Issuing(f)' => Issuing(f)
      BY <1>1, <1>10 DEF Issuing, SameFiles
    <2>2. \A g \in Flows : g # f /\ Issuing(g)' => Issuing(g)
      BY <1>1 DEF Issuing
    <2> QED
      BY <2>1, <2>2
  <1>18. IssuerInv'
    <2>1. ASSUME NEW g \in Flows, Issuing(g)'
          PROVE  /\ registry'.receipts[flow'[g].pending.id] =
                        IF flow'[g].at \in {"prepared", "moved"} THEN "prepared" ELSE "none"
                 /\ flow'[g].at = "prepared" => registry'.selected = 0
                 /\ flow'[g].at = "moved" => registry'.selected = flow'[g].pending.id
      <3>1. Issuing(g) /\ flow[g].pending.id \in Ids /\ flow[g].pending.id # 0
        BY <1>17, <2>1, IssuersAre
      <3>2. /\ registry.receipts[flow[g].pending.id] =
                    IF flow[g].at \in {"prepared", "moved"} THEN "prepared" ELSE "none"
            /\ flow[g].at = "prepared" => registry.selected = 0
            /\ flow[g].at = "moved" => registry.selected = flow[g].pending.id
        BY <3>1 DEF IssuerInv
      <3>3. CASE g = f
        <4>1. flow'[f].at # "wait"
          BY <2>1, <3>3 DEF Issuing
        <4>2. ~Finishes /\ ~Restores /\ ~Undoes
          BY <3>1, <3>3, <4>1 DEF Issuing
        <4>3. CASE Same
          BY <1>1, <3>2, <3>3, <4>1, <4>3 DEF SameFiles
        <4>4. CASE Prepares
          BY <1>1, <3>2, <3>3, <4>4
        <4>5. CASE Selects
          BY <1>1, <3>2, <3>3, <4>5
        <4> QED
          BY <1>10, <4>2, <4>3, <4>4, <4>5
      <3>4. CASE g # f
        <4>1. flow'[g] = flow[g]
          BY <1>1, <3>4
        <4>2. /\ op.kind # "issue" => id # flow[g].pending.id
              /\ Issuing(f) => id # flow[g].pending.id
              /\ Issuing(f) /\ flow[f].at \in {"prepared", "moved"} =>
                     flow[g].at \notin {"prepared", "moved"}
          BY <3>1, <3>4, ApartIs
        <4>3. CASE Same
          BY <3>2, <4>1, <4>3 DEF SameFiles
        <4>4. CASE Prepares
          <5>1. id # flow[g].pending.id
            BY <4>2, <4>4 DEF Issuing
          <5>2. flow[g].at # "moved"
            BY <3>1, <3>2, <4>4
          <5> QED
            BY <1>9, <3>1, <3>2, <4>1, <4>4, <5>1, <5>2
        <4>5. CASE Selects
          <5>1. flow[g].at \notin {"prepared", "moved"}
            BY <4>2, <4>5 DEF Issuing
          <5> QED
            BY <3>2, <4>1, <4>5, <5>1
        <4>6. CASE Finishes
          <5>1. id # flow[g].pending.id
            BY <4>2, <4>6 DEF Issuing
          <5> QED
            BY <1>9, <3>1, <3>2, <4>1, <4>6, <5>1
        <4>7. CASE Undoes
          <5>1. id # flow[g].pending.id
            BY <4>2, <4>7
          <5>2. flow[g].at # "moved"
            BY <3>2, <4>7, <5>1
          <5> QED
            BY <3>2, <4>1, <4>7, <5>2
        <4>8. CASE Restores
          <5>1. id # flow[g].pending.id
            BY <4>2, <4>8
          <5> QED
            BY <1>9, <3>1, <3>2, <4>1, <4>8, <5>1
        <4> QED
          BY <1>10, <4>3, <4>4, <4>5, <4>6, <4>7, <4>8
      <3> QED
        BY <3>3, <3>4
    <2>2. ASSUME NEW g \in Flows
          PROVE  /\ flow'[g].pending = flow[g].pending /\ flow'[g].anchor = flow[g].anchor
                 /\ flow'[g].act = flow[g].act
      BY <1>1
    <2>3. ASSUME NEW g \in Flows, Issuing(g)'
          PROVE  /\ OnlyIssues(journal.pending, journal.anchor, flow[g].pending.id)'
                 /\ flow'[g].anchor.id # flow'[g].pending.id
                 /\ \A h \in Flows \ {g} :
                      /\ OnlyIssues(flow[h].pending, flow[h].anchor, flow[g].pending.id)'
                      /\ flow'[h].act = flow'[g].pending.id =>
                             flow'[h].pending.id = flow'[g].pending.id
                      /\ flow'[h].pending.id = flow'[g].pending.id => ~Issuing(h)'
      <3>1. Issuing(g)
        BY <1>17, <2>3
      <3> QED
        BY <1>1, <1>17, <2>2, <3>1 DEF IssuerInv, OnlyIssues
    <2> QED
      BY <2>1, <2>3 DEF IssuerInv
  <1>19. ReceiptsInv'
    <2>1. /\ registry.selected # 0 =>
                 registry.receipts[registry.selected] \in {"prepared", "pending", "confirmed"}
          /\ \A i, j \in Ids : registry.receipts[i] \in Unconfirmed
                               /\ registry.receipts[j] \in Unconfirmed => i = j
      BY DEF ReceiptsInv, SelectionIsReversible
    <2>2. registry.selected # 0 => registry.selected \in Ids
      BY TypeIs, SMT DEF Registries, Ids
    <2>3. /\ Selects => registry.receipts[id] = "prepared"
          /\ Finishes => registry.receipts[id] = "prepared"
      BY DEF IssuerInv, Issuing
    <2>4. Restores => registry.selected # id
                      /\ registry.receipts[id] \in Unconfirmed \cup {"restored"}
      BY DEF ReceiptsInv
    <2>5. SelectionIsReversible'
      <3>1. CASE Same
        BY <2>1, <3>1 DEF SelectionIsReversible, SameFiles
      <3>2. CASE Prepares
        BY <1>9, <2>1, <3>2 DEF SelectionIsReversible, Sole, Unconfirmed
      <3>3. CASE Selects
        BY <2>1, <2>3, <3>3 DEF SelectionIsReversible
      <3>4. CASE Finishes
        <4>1. registry.receipts[id] \in Unconfirmed
          BY <2>3, <3>4 DEF Unconfirmed
        <4>2. \A i \in Ids : registry'.receipts[i] \in Unconfirmed =>
                                 registry.receipts[i] \in Unconfirmed
          BY <1>9, <4>1
        <4> QED
          BY <1>9, <2>1, <2>2, <3>4, <4>2 DEF SelectionIsReversible
      <3>5. CASE Undoes
        BY <2>1, <3>5 DEF SelectionIsReversible
      <3>6. CASE Restores
        <4>1. \A i \in Ids : registry'.receipts[i] \in Unconfirmed =>
                                 registry.receipts[i] \in Unconfirmed
          BY <1>9, <3>6 DEF Unconfirmed
        <4> QED
          BY <1>9, <2>1, <2>2, <2>4, <3>6, <4>1 DEF SelectionIsReversible
      <3> QED
        BY <1>10, <3>1, <3>2, <3>3, <3>4, <3>5, <3>6
    <2>6. ASSUME NEW g \in Flows, flow'[g].at = "restoring"
          PROVE  /\ registry'.selected # flow'[g].pending.id
                 /\ registry'.receipts[flow'[g].pending.id] \in Unconfirmed \cup {"restored"}
      <3>1. CASE g = f
        <4>1. Undoes
          BY <1>10, <2>6, <3>1
        <4> QED
          BY <1>1, <1>5, <3>1, <4>1
      <3>2. CASE g # f
        <4>1. flow'[g] = flow[g] /\ flow[g].at = "restoring"
          BY <1>1, <2>6, <3>2
        <4>2. /\ registry.selected # flow[g].pending.id
              /\ registry.receipts[flow[g].pending.id] \in Unconfirmed \cup {"restored"}
              /\ flow[g].pending.kind = "rollback"
          BY <4>1 DEF ReceiptsInv, FlowsInv
        <4>3. flow[g].pending.id \in Ids /\ flow[g].pending.id # 0
          <5>1. flow[g].pending # NoOp
            BY <1>5, <4>2
          <5> QED
            BY <5>1, OutOfCallKinds, IdsAre
        <4>4. registry'.selected # flow[g].pending.id
          <5>1. CASE Selects
            <6>1. Issuing(f)
              BY <5>1 DEF Issuing
            <6> QED
              BY <3>2, <4>2, <5>1, <6>1, ApartIs
          <5>2. CASE ~Selects
            BY <1>10, <4>2, <4>3, <5>2 DEF SameFiles
          <5> QED
            BY <5>1, <5>2
        <4>5. registry'.receipts[id] \in Unconfirmed \cup {"restored"}
              \/ registry'.receipts[id] = registry.receipts[id]
          BY <1>10 DEF SameFiles, Unconfirmed
        <4> QED
          BY <1>9, <4>1, <4>2, <4>3, <4>4, <4>5
      <3> QED
        BY <3>1, <3>2
    <2>7. ASSUME NEW g \in Flows, flow'[g].at \in Calling, flow'[g].pending.kind = "confirm"
          PROVE  registry'.receipts[flow'[g].pending.id] = "confirmed"
      <3>1. flow[g].at \in Calling /\ flow'[g].pending = flow[g].pending
        BY <1>1, <2>7
      <3>2. /\ registry.receipts[flow[g].pending.id] = "confirmed"
            /\ flow[g].pending.id \in Ids /\ flow[g].pending.kind = "confirm"
        <4>1. flow[g].pending # NoOp
          BY <1>5, <2>7, <3>1
        <4> QED
          BY <2>7, <3>1, <4>1, OutOfCallKinds DEF ReceiptsInv
      <3>3. CASE flow[g].pending.id = id
        <4>1. CASE Same \/ Selects \/ Undoes
          BY <3>1, <3>2, <4>1 DEF SameFiles
        <4>2. CASE Prepares \/ Finishes
          <5>1. Issuing(f) /\ g # f
            BY <3>2, <4>2 DEF Issuing
          <5> QED
            BY <3>2, <3>3, <5>1, ApartIs
        <4>3. CASE Restores
          BY <2>4, <3>2, <3>3, <4>3 DEF Unconfirmed
        <4> QED
          BY <1>10, <4>1, <4>2, <4>3
      <3>4. CASE flow[g].pending.id # id
        BY <1>9, <3>1, <3>2, <3>4
      <3> QED
        BY <3>3, <3>4
    <2> QED
      BY <2>5, <2>6, <2>7 DEF ReceiptsInv
  <1>20. StartedInv'
    <2>1. ~Starting'
      BY <1>1, <1>3, <1>4 DEF Starting
    <2> QED
      BY <1>1, <1>4, <2>1 DEF StartedInv
  <1>21. KnownInv'
    <2>1. ASSUME ~history'.whole, ~history'.overtaken
          PROVE  /\ Knows(journal.pending, journal.anchor)'
                 /\ Knows(flow[f].pending, flow[f].anchor)'
                 /\ Issuing(f)' /\ flow'[f].at \notin {"prepared", "moved"} =>
                        registry'.selected = 0 \/ flow'[f].anchor # NoOp
                 /\ \A g \in Flows : g # f => flow'[g].at = "none"
      <3>1. f = published /\ \A g \in Flows : g # f => flow[g].at = "none"
        BY <1>4, <1>6, <2>1 DEF FlowsInv
      <3>2. /\ Knows(journal.pending, journal.anchor)
            /\ Knows(flow[f].pending, flow[f].anchor)
            /\ Issuing(f) /\ flow[f].at \notin {"prepared", "moved"} =>
                   registry.selected = 0 \/ flow[f].anchor # NoOp
        BY <1>3, <1>6, <2>1 DEF KnownInv
      <3>3. /\ Knows(journal.pending, journal.anchor)'
            /\ Knows(flow[f].pending, flow[f].anchor)'
        BY <1>1, <1>11, <1>15, <3>1, <3>2 DEF Knows
      <3>4. Issuing(f)' /\ flow'[f].at \notin {"prepared", "moved"} =>
                Same /\ flow[f].at \in {"call", "bound", "marked"} /\ Issuing(f)
        BY <1>10, <1>17 DEF Issuing
      <3> QED
        BY <1>1, <3>1, <3>2, <3>3, <3>4 DEF SameFiles
    <2> QED
      BY <2>1 DEF KnownInv, Issuing
  <1>22. SessionInv'
    <2>1. ~Settled(f)
      BY <1>3 DEF Settled
    <2>2. ~history.overtaken => session.state = "open"
      BY <1>3, <2>1, OpenIs
    <2>3. \A g \in Flows : g # f /\ ~history.overtaken => flow[g].at = "none"
      BY <1>4 DEF FlowsInv
    <2> QED
      BY <1>1, <1>3, <1>6, <1>7, <2>2, <2>3 DEF SessionInv
  <1> QED
    BY <1>8, <1>12, <1>13, <1>14, <1>16, <1>18, <1>19, <1>20, <1>21, <1>22 DEF UpdateInv

-----------------------------------------------------------------------------
(* The end of a call. *)

\* The identities that an outcome leaves: the one of the call or none, and the
\* anchor of before, none after a rollback, or one of an issue or a confirmation.
LEMMA AfterIs ==
    ASSUME NEW f \in Flows, NEW state, NEW kept, NEW o, Sound(f, state, kept, o),
           flow[f].pending \in AnyOp
    PROVE  LET s == flow[f]  op == s.pending
               p == PendingAfter(state, o)  a == AnchorAfter(state, o) IN
           /\ o.keep = "same" => p.kind = op.kind /\ p.id = op.id /\ Ref(p) = Ref(op)
           /\ o.keep # "same" => p = NoOp
           /\ \/ a = s.anchor /\ o.keep \in {"same", "none"}
              \/ a = NoOp /\ op.kind = "rollback" /\ registry.selected = 0
                 /\ o.keep \in {"same", "none"}
              \/ /\ op.kind = "issue" /\ o.keep = "pending"
                 /\ a.kind = "pending" /\ a.id = op.id
                 /\ registry.receipts[op.id] = "pending" /\ registry.selected = op.id
              \/ /\ op.kind = "confirm" /\ o.keep = "confirmed"
                 /\ a.kind = "confirmed" /\ a.id = op.id
  <1> DEFINE s == flow[f]
             op == s.pending
  <1>1. /\ state.pending = op /\ state.anchor = s.anchor /\ state \in FlowStates
        /\ o \in Outcomes
    BY DEF Sound, Learner
  <1>2. o.keep \in {"same", "none", "pending", "confirmed"}
    BY <1>1, SMT DEF Outcomes, AnchorKinds
  <1>3. \A k : /\ Op(k, op.id, state.kept).kind = k /\ Op(k, op.id, state.kept).id = op.id
               /\ Ref(Op(op.kind, op.id, state.kept)) = Ref(op)
    BY DEF Op, Ref
  <1>4. /\ o.keep = "same" => PendingAfter(state, o) = Op(op.kind, op.id, state.kept)
        /\ o.keep # "same" => PendingAfter(state, o) = NoOp
    BY <1>1 DEF PendingAfter
  <1>5. /\ o.keep \in {"pending", "confirmed"} =>
               AnchorAfter(state, o) = Op(o.keep, op.id, state.kept)
        /\ o.keep \in {"same", "none"} =>
               \/ AnchorAfter(state, o) = s.anchor
               \/ AnchorAfter(state, o) = NoOp /\ op.kind = "rollback" /\ o.code = "settled"
    BY <1>1 DEF AnchorAfter, AnchorKinds
  <1>6. /\ o.keep = "pending" => /\ op.kind = "issue" /\ registry.receipts[op.id] = "pending"
                                 /\ registry.selected = op.id
        /\ o.keep = "confirmed" => op.kind = "confirm"
        /\ op.kind = "rollback" /\ o.code = "settled" => registry.selected = 0
    BY DEF Sound
  <1> QED
    BY <1>2, <1>3, <1>4, <1>5, <1>6

\* What an instance that may write leaves to be asked about is its own call.
LEMMA WriterIs ==
    ASSUME RecordedInv, NEW f \in Flows, Writes(f),
           flow[f].at \in Calling \cup {"idle"}
    PROVE  /\ history.open \subseteq {Ref(flow[f].pending)}
           /\ \A g \in Flows : g # f /\ flow[g].at \in Calling =>
                  Ref(flow[g].pending) \in {Ref(flow[f].pending)} \cup history.moot
           /\ flow[f].at \in Calling \/ Ref(flow[f].pending) = Ref(journal.pending) \/ Harmless
           /\ flow[f].at \in Calling => journal.pending = flow[f].pending
  <1>1. CASE flow[f].at \in Calling
    <2>1. journal.pending = flow[f].pending
      BY <1>1, RecordedAre DEF CallerOf, Writes
    <2> QED
      BY <1>1, <2>1, RecordedAre DEF CallerOf
  <1>2. CASE flow[f].at = "idle"
    <2>1. flow[f].at \notin Calling
      BY <1>2 DEF Calling
    <2>2. Ref(flow[f].pending) = Ref(journal.pending) \/ Harmless
      BY <1>2, RecordedAre DEF WriterOf
    <2>3. CASE Ref(flow[f].pending) = Ref(journal.pending)
      BY <2>1, <2>3, RecordedAre DEF CallerOf
    <2>4. CASE Harmless
      BY <2>1, <2>4 DEF Harmless
    <2> QED
      BY <2>2, <2>3, <2>4
  <1> QED
    BY <1>1, <1>2

\* What the end of a call leaves, in the words of the invariant.
LEMMA ConcludesIs ==
    ASSUME UpdateInv, NEW f \in Flows, Concludes(f), NEW state, NEW kept, NEW o,
           Ends(f, state, kept, o)
    PROVE  LET s == flow[f]  op == s.pending
               p == PendingAfter(state, o)  a == AnchorAfter(state, o) IN
           /\ s.at \in Calling \/ (f = published /\ s.at = "idle")
           /\ op # NoOp /\ op \in AnyOp /\ op.kind \in RemoteKinds \cup LocalKinds
           /\ op.id \in Ids /\ op.id # 0 /\ op.id < nextId /\ s.index \in 0 .. 7
           /\ host = "ready" /\ ~Starting /\ (f # published => history.overtaken)
           /\ \/ journal' = journal
              \/ Writes(f) /\ journal'.pending = p /\ journal'.anchor = a
                 /\ journal'.fresh \subseteq {f}
           /\ \A g \in Flows : g # f => flow'[g] = flow[g]
           /\ f # published => flow'[f] = Blank
           /\ f = published =>
                  /\ flow'[f].at = "idle" /\ flow'[f].pending = p /\ flow'[f].anchor = a
                  /\ flow'[f].act \in {s.act, 0} /\ flow'[f].act = state.act
           /\ flow'[f].at \in {"idle", "none"}
           /\ history'.open \subseteq history.open /\ history.moot \subseteq history'.moot
           /\ history'.overtaken = history.overtaken /\ history'.whole = history.whole
           /\ Stays /\ TypeOK'
  <1> USE PartsAre
  <1> DEFINE s == flow[f]
             op == s.pending
             p == PendingAfter(state, o)
             a == AnchorAfter(state, o)
  <1>1. /\ Sound(f, state, kept, o) /\ Settles(f, state, o) /\ SessionKeeps(kept)
        /\ RemoteKeeps /\ Stays
    BY DEF Concludes, Ends
  <1>2. op # NoOp /\ (s.at \in Calling \/ (f = published /\ s.at = "idle"))
    BY DEF Concludes, Calling
  <1>3. /\ op.kind \in RemoteKinds \cup LocalKinds /\ op.id \in Ids /\ op.id # 0
        /\ op \in AnyOp /\ s.index \in 0 .. 7
    BY <1>2, OutOfCallKinds, IdsAre, FlowType, StateType
  <1>4. op.id < nextId
    <2>1. op.id \in 1 .. nextId - 1
      BY <1>2 DEF IdentitiesInv, NamesMinted, Minted
    <2> QED
      BY <2>1, TypeIs, SMT
  <1>5. host = "ready" /\ ~Starting /\ (f # published => history.overtaken)
    BY <1>2, UpIs DEF Calling
  <1>6. \/ journal' = journal
        \/ Writes(f) /\ journal'.pending = p /\ journal'.anchor = a
           /\ journal'.fresh \subseteq {f}
    BY <1>1, JournalAfter DEF Settles
  <1>7. state.act \in {s.act, 0}
    BY <1>1 DEF Sound, Learner
  <1>8. /\ flow' \in [Flows -> FlowStates] /\ used' \in Uses /\ journal' \in Journals
        /\ history' \in Histories
        /\ \A g \in Flows : g # f => flow'[g] = flow[g]
        /\ f # published => flow'[f] = Blank
        /\ f = published =>
               /\ flow'[f].at = "idle" /\ flow'[f].pending = p /\ flow'[f].anchor = a
               /\ flow'[f].act = state.act
    BY <1>1 DEF Settles, OthersStay
  <1>9. /\ history'.open \subseteq history.open /\ history.moot \subseteq history'.moot
        /\ history'.overtaken = history.overtaken /\ history'.whole = history.whole
    BY <1>1 DEF Settles
  <1>10. TypeOK'
    <2>1. session' \in SessionStates /\ remote' \in Remotes
      BY <1>1 DEF SessionKeeps, RemoteKeeps
    <2> QED
      BY <1>1, <1>8, <2>1, TypeIs
         DEF TypeOK, Journals, SessionStates, Receipts, Bindings, Registries, Remotes,
             Uses, Histories, Stays
  <1> QED
    BY <1>1, <1>2, <1>3, <1>4, <1>5, <1>6, <1>7, <1>8, <1>9, <1>10, BlankIs

LEMMA ConcludesEvidence ==
    ASSUME UpdateInv, NEW f \in Flows, Concludes(f)
    PROVE  EvidenceInv'
  <1> USE PartsAre
  <1>1. PICK state, kept, o : Ends(f, state, kept, o)
    BY DEF Concludes
  <1> DEFINE s == flow[f]
             op == s.pending
             p == PendingAfter(state, o)
             a == AnchorAfter(state, o)
  <1>2. /\ op \in AnyOp /\ op.kind \in RemoteKinds \cup LocalKinds /\ s.index \in 0 .. 7
        /\ \/ journal' = journal
           \/ journal'.pending = p /\ journal'.anchor = a
        /\ \A g \in Flows : g # f => flow'[g] = flow[g]
        /\ f # published => flow'[f] = Blank
        /\ f = published =>
               /\ flow'[f].pending = p /\ flow'[f].anchor = a
               /\ flow'[f].act \in {s.act, 0}
        /\ history'.whole = history.whole /\ registry' = registry
    BY <1>1, ConcludesIs DEF Stays
  <1>3. /\ Sound(f, state, kept, o) /\ Settles(f, state, o) /\ SessionKeeps(kept)
        /\ remote'.placed = remote.placed /\ remote'.archives = remote.archives
    BY <1>1 DEF Concludes, Ends, RemoteKeeps
  <1>4. /\ o.keep = "same" => p.kind = op.kind
        /\ o.keep # "same" => p = NoOp
        /\ a \in {s.anchor, NoOp} \/ (o.keep # "same" /\ op.kind \in {"issue", "confirm"})
    BY <1>2, <1>3, AfterIs
  <1>5. NoOp.kind = "none" /\ NoOp.kind \notin LocalKinds
    BY NoOpIs, KindsAre
  <1>6. EvidenceOf(f)
    BY EvidenceAre
  <1>7. SourceKept => SourceKept'
    BY <1>2, <1>3 DEF SourceKept, SessionKeeps
  <1>8. Grows
    BY <1>3, <1>7 DEF Grows
  <1>9. o.moves => /\ o.keep # "same"
                   /\ \/ op.kind = "prepare" /\ remote.placed # 0
                      \/ op.kind = "stop"
                      \/ op.kind = "backup" /\ remote.archives # {}
                      \/ op.kind = "confirm"
    BY <1>3 DEF Sound
  <1>10. /\ op.kind = "prepare" => s.index = 1
         /\ op.kind = "stop" => s.index = 2
         /\ op.kind = "backup" => s.index = 3
         /\ op.kind = "restore" => s.index >= 3
         /\ op.kind \in LocalKinds \/ s.anchor # NoOp \/ s.act # 0 => s.index >= 5
         /\ s.index >= 2 => remote.placed # 0
         /\ s.index >= 4 => remote.archives # {}
         /\ s.index >= 5 => SourceKept
    BY <1>6, PositionIs DEF EvidenceOf, Pinned, Reached
  <1>11. /\ op.kind \in LocalKinds \/ s.anchor # NoOp =>
                remote.placed # 0 /\ remote.archives # {} /\ SourceKept
         /\ op.kind \in {"stop", "backup", "restore"} => remote.placed # 0
         /\ op.kind \in {"prepare", "stop", "backup"} => s.anchor = NoOp /\ s.act = 0
    BY <1>2, <1>10, KindsAre, SMT
  <1>12. Established(p, a)
    <2>1. p.kind \in {"stop", "backup", "restore"} => remote.placed # 0
      BY <1>4, <1>5, <1>11
    <2>2. p.kind \in LocalKinds \/ a # NoOp => remote.placed # 0 /\ remote.archives # {}
                                               /\ SourceKept
      BY <1>4, <1>5, <1>11, KindsAre
    <2>3. p.kind \in {"prepare", "stop", "backup"} => a = NoOp
      BY <1>4, <1>5, <1>11
    <2> QED
      BY <2>1, <2>2, <2>3 DEF Established
  <1>13. Established(journal.pending, journal.anchor)'
    <2>1. CASE journal' = journal
      BY <1>8, <2>1, EvidenceAre, EstablishedStays
    <2>2. CASE journal'.pending = p /\ journal'.anchor = a
      BY <1>8, <1>12, <2>2 DEF Established, Grows
    <2> QED
      BY <1>2, <2>1, <2>2
  <1>14. CASE f # published
    <2>1. EvidenceOf(f)'
      <3>1. /\ flow'[f].index = 0 /\ flow'[f].pending.kind = "none" /\ ~flow'[f].backup
            /\ flow'[f].anchor = NoOp /\ flow'[f].act = 0
        BY <1>2, <1>5, <1>14, BlankIs
      <3> QED
        BY <3>1, <1>5, KindsAre, SMT DEF EvidenceOf, Reached, Pinned
    <2> QED
      BY <1>2, <1>7, <1>8, <1>13, <2>1, EvidenceAre, EvidenceStays, EvidenceFrom
  <1>15. CASE f = published
    <2> DEFINE n == flow'[f].index
    <2>1. n = s.index \/ (o.moves /\ n = Position(StageOf(op.kind)) + 1)
      BY <1>2, <1>3, <1>15 DEF Settles, Sound, Learner
    <2>2. \/ n = s.index
          \/ op.kind = "prepare" /\ n = 2 /\ remote.placed # 0 /\ o.keep # "same"
          \/ op.kind = "stop" /\ n = 3 /\ o.keep # "same"
          \/ op.kind = "backup" /\ n = 4 /\ remote.archives # {} /\ o.keep # "same"
          \/ op.kind = "confirm" /\ n = 6 /\ o.keep # "same"
      <3>1. CASE o.moves /\ n = Position(StageOf(op.kind)) + 1
        BY <1>9, <3>1, PositionIs, StageIs, KindsAre
      <3> QED
        BY <2>1, <3>1
    <2>3. Reached(f)'
      <3>1. /\ n >= 2 => remote.placed # 0
            /\ n >= 4 => remote.archives # {}
            /\ n >= 5 => SourceKept
        BY <1>2, <1>10, <2>2, KindsAre, SMT
      <3> QED
        BY <1>8, <3>1 DEF Reached, Grows
    <2>4. Pinned(f)'
      <3>1. p.kind \in {"prepare", "stop", "backup"} => n = Position(p.kind)
        BY <1>4, <1>5, <1>10, <2>2, PositionIs
      <3>2. p.kind = "restore" => n >= 3
        BY <1>4, <1>5, <1>10, <2>2
      <3>3. p.kind \in LocalKinds \/ a # NoOp \/ flow'[f].act # 0 =>
                op.kind \in LocalKinds \/ s.anchor # NoOp \/ s.act # 0
        BY <1>2, <1>4, <1>5, <1>15, KindsAre
      <3>4. op.kind \in LocalKinds \/ s.anchor # NoOp \/ s.act # 0 =>
                s.index >= 5 /\ (n = s.index \/ n = 6)
        BY <1>10, <1>11, <2>2
      <3>5. p.kind \in LocalKinds \/ a # NoOp \/ flow'[f].act # 0 => n >= 5
        BY <1>2, <3>3, <3>4, SMT
      <3> QED
        BY <1>2, <1>15, <3>1, <3>2, <3>5 DEF Pinned
    <2>5. flow'[f].backup = state.backup /\ flow'[f].owed = state.owed
      BY <1>3, <1>15 DEF Settles
    <2>6. /\ state.backup => \/ s.backup
                             \/ /\ op.kind = "backup" /\ remote.archives # {}
                                /\ "source" \in state.owed \cup kept
          /\ "source" \in s.owed => "source" \in state.owed \cup kept
      BY <1>3 DEF Sound
    <2>7. "source" \in state.owed \cup kept => SourceKept' \/ "source" \in flow'[f].owed
      BY <1>3, <2>5 DEF SourceKept, SessionKeeps
    <2>8. s.index >= 3 => n >= 3
      BY <1>2, <1>10, <2>2, SMT
    <2>9. s.backup => Archived(f)
      BY <1>6 DEF EvidenceOf
    <2>10. s.index >= 3 /\ remote.archives # {} /\ (SourceKept' \/ "source" \in flow'[f].owed)
           => Archived(f)'
      BY <1>3, <2>8 DEF Archived
    <2>11. s.backup => Archived(f)'
      BY <1>7, <2>6, <2>7, <2>9, <2>10 DEF Archived
    <2>12. op.kind = "backup" => s.index >= 3
      BY <1>10
    <2>13. flow'[f].backup => Archived(f)'
      BY <2>5, <2>6, <2>7, <2>10, <2>11, <2>12
    <2>14. EvidenceOf(f)'
      BY <2>3, <2>4, <2>13 DEF EvidenceOf
    <2> QED
      BY <1>2, <1>7, <1>8, <1>13, <2>14, EvidenceAre, EvidenceStays, EvidenceFrom
  <1> QED
    BY <1>14, <1>15

LEMMA ConcludesRecorded ==
    ASSUME UpdateInv, NEW f \in Flows, Concludes(f)
    PROVE  RecordedInv'
  <1> USE PartsAre
  <1>1. PICK state, kept, o : Ends(f, state, kept, o)
    BY DEF Concludes
  <1> DEFINE s == flow[f]
             op == s.pending
             p == PendingAfter(state, o)
             a == AnchorAfter(state, o)
  <1>2. /\ s.at \in Calling \/ (f = published /\ s.at = "idle")
        /\ op \in AnyOp
        /\ \/ journal' = journal
           \/ Writes(f) /\ journal'.pending = p /\ journal'.anchor = a
              /\ journal'.fresh \subseteq {f}
        /\ \A g \in Flows : g # f => flow'[g] = flow[g]
        /\ flow'[f].at \in {"idle", "none"}
        /\ f # published => flow'[f] = Blank
        /\ f = published => flow'[f].pending = p
        /\ history'.open \subseteq history.open /\ history.moot \subseteq history'.moot
        /\ published' = published
    BY <1>1, ConcludesIs DEF Stays
  <1>3. Sound(f, state, kept, o) /\ Settles(f, state, o) /\ journal' \in Journals
    BY <1>1 DEF Ends, Settles
  <1>4. /\ o.keep = "same" => Ref(p) = Ref(op)
        /\ state.uncertain = s.uncertain /\ state.pending = op
    BY <1>2, <1>3, AfterIs DEF Sound, Learner
  <1>5. flow'[f].at \notin Calling
    BY <1>2 DEF Calling
  <1>6. o.keep # "same" =>
            /\ history'.open = history.open \ {Ref(op)}
            /\ \A g \in Flows : g # f /\ Ref(flow[g].pending) = Ref(op) => Ref(op) \in history'.moot
    BY <1>3, <1>4 DEF Settles
  <1>7. Harmless => Harmless'
    BY <1>2, <1>5 DEF Harmless
  <1>8. Writes(f) =>
            /\ history.open \subseteq {Ref(op)}
            /\ \A g \in Flows : g # f /\ flow[g].at \in Calling =>
                   Ref(flow[g].pending) \in {Ref(op)} \cup history.moot
            /\ s.at \in Calling \/ Ref(op) = Ref(journal.pending) \/ Harmless
            /\ s.at \in Calling => journal.pending = op
    BY <1>2, WriterIs
  <1>9. Writes(f) /\ o.keep # "same" => Harmless'
    BY <1>2, <1>5, <1>6, <1>8 DEF Harmless
  <1>10. CASE journal' = journal
    <2>1. (history.open \subseteq {Ref(journal.pending)})'
      BY <1>2, <1>10, RecordedAre
    <2>2. ASSUME NEW g \in Flows PROVE CallerOf(g)' /\ WriterOf(g)'
      <3>1. CASE g # f
        <4>1. CallerOf(g)'
          BY <1>2, <1>10, <3>1, RecordedAre, CallerStays
        <4>2. WriterOf(g)'
          BY <1>2, <1>7, <1>10, <3>1, RecordedAre DEF WriterOf, Writes
        <4> QED
          BY <4>1, <4>2
      <3>2. CASE g = f
        <4>1. CallerOf(f)'
          BY <1>5 DEF CallerOf
        <4>2. ASSUME Writes(f)', flow'[f].at = "idle",
                     (Ref(flow[f].pending) # Ref(journal.pending))'
              PROVE  Harmless'
          <5>1. f = published
            BY <1>2, <4>2, BlankIs
          <5>2. f \in journal.fresh /\ ~flow'[f].uncertain
            BY <1>10, <4>2 DEF Writes
          <5>3. Lands(f, p, a) \/ ~s.uncertain
            BY <1>3, <1>4, <5>1, <5>2 DEF Settles
          <5>4. Writes(f)
            BY <5>2, <5>3 DEF Lands, Writes
          <5>5. CASE o.keep = "same"
            <6>1. Ref(op) # Ref(journal.pending)
              BY <1>2, <1>4, <1>10, <4>2, <5>1, <5>5
            <6> QED
              BY <1>7, <1>8, <5>4, <6>1
          <5> QED
            BY <1>9, <5>4, <5>5
        <4> QED
          BY <1>2, <3>2, <4>1, <4>2 DEF WriterOf
      <3> QED
        BY <3>1, <3>2
    <2> QED
      BY <1>3, <2>1, <2>2, RecordedFrom
  <1>11. CASE /\ Writes(f) /\ journal'.pending = p /\ journal'.anchor = a
              /\ journal'.fresh \subseteq {f}
    <2>1. (history.open \subseteq {Ref(journal.pending)})'
      BY <1>2, <1>4, <1>8, <1>9, <1>11 DEF Harmless
    <2>2. ASSUME NEW g \in Flows PROVE CallerOf(g)' /\ WriterOf(g)'
      <3>1. CASE g # f
        <4>1. g \notin journal'.fresh
          BY <1>11, <3>1
        <4>2. flow'[g] = flow[g]
          BY <1>2, <3>1
        <4>3. CASE flow[g].at \in Calling
          <5>1. g # published
            BY <1>11, <3>1, <4>3, RecordedAre DEF CallerOf, Writes
          <5>2. Ref(flow[g].pending) \in {Ref(journal'.pending)} \cup history'.moot
            <6>1. CASE o.keep = "same"
              BY <1>2, <1>4, <1>8, <1>11, <3>1, <4>3, <6>1
            <6>2. CASE o.keep # "same"
              BY <1>9, <1>11, <4>2, <4>3, <6>2 DEF Harmless
            <6> QED
              BY <6>1, <6>2
          <5> QED
            BY <1>2, <4>1, <4>2, <5>1, <5>2 DEF CallerOf, WriterOf, Writes
        <4>4. CASE flow[g].at \notin Calling
          BY <4>1, <4>2, <4>4 DEF CallerOf, WriterOf, Writes
        <4> QED
          BY <4>3, <4>4
      <3>2. CASE g = f
        <4>1. CallerOf(f)'
          BY <1>5 DEF CallerOf
        <4>2. flow'[f].at = "idle" => flow'[f].pending = journal'.pending
          BY <1>2, <1>11, BlankIs
        <4> QED
          BY <1>2, <3>2, <4>1, <4>2 DEF WriterOf
      <3> QED
        BY <3>1, <3>2
    <2> QED
      BY <1>3, <2>1, <2>2, RecordedFrom
  <1> QED
    BY <1>2, <1>10, <1>11

LEMMA ConcludesIssuer ==
    ASSUME UpdateInv, NEW f \in Flows, Concludes(f)
    PROVE  IssuerInv'
  <1> USE PartsAre
  <1>1. PICK state, kept, o : Ends(f, state, kept, o)
    BY DEF Concludes
  <1> DEFINE s == flow[f]
             op == s.pending
             p == PendingAfter(state, o)
             a == AnchorAfter(state, o)
  <1>2. /\ op # NoOp /\ op \in AnyOp /\ op.id # 0
        /\ \/ journal' = journal
           \/ journal'.pending = p /\ journal'.anchor = a
        /\ \A g \in Flows : g # f => flow'[g] = flow[g]
        /\ flow'[f].at \in {"idle", "none"}
        /\ f # published => flow'[f] = Blank
        /\ f = published => /\ flow'[f].pending = p /\ flow'[f].anchor = a
                            /\ flow'[f].act \in {s.act, 0} /\ flow'[f].act = state.act
        /\ registry' = registry
    BY <1>1, ConcludesIs DEF Stays
  <1>3. Sound(f, state, kept, o)
    BY <1>1 DEF Ends
  <1>4. NoOp.id = 0
    BY NoOpIs
  <1>5. ~Issuing(f)'
    BY <1>2 DEF Issuing
  <1>6. ASSUME NEW g \in Flows, Issuing(g), g # f
        PROVE  LET id == flow[g].pending.id IN
               /\ OnlyIssues(p, a, id)
               /\ OnlyIssues(flow[f].pending, flow[f].anchor, id)'
               /\ flow'[f].act = id => flow'[f].pending.id = id
    <2> DEFINE id == flow[g].pending.id
    <2>1. /\ s.anchor.id # id /\ (op.id = id => op.kind = "issue" /\ ~Issuing(f))
          /\ s.act = id => op.id = id
          /\ registry.receipts[id] \in {"prepared", "none"} /\ id # 0
      BY <1>6, IssuersAre DEF IssuerInv, OnlyIssues
    <2>2. /\ o.keep = "same" => p.kind = op.kind /\ p.id = op.id
          /\ o.keep # "same" => p = NoOp
          /\ \/ a \in {s.anchor, NoOp} /\ o.keep \in {"same", "none"}
             \/ /\ op.kind = "issue" /\ o.keep = "pending" /\ a.id = op.id
                /\ registry.receipts[op.id] = "pending"
             \/ op.kind = "confirm" /\ o.keep = "confirmed" /\ a.id = op.id
      BY <1>2, <1>3, AfterIs
    <2>3. OnlyIssues(p, a, id)
      BY <1>4, <2>1, <2>2 DEF OnlyIssues
    <2>4. OnlyIssues(flow[f].pending, flow[f].anchor, id)'
      <3>1. flow'[g] = flow[g]
        BY <1>2, <1>6
      <3> QED
        BY <1>2, <1>4, <2>1, <2>3, <3>1, BlankIs DEF OnlyIssues
    <2>5. ASSUME flow'[f].act = id PROVE flow'[f].pending.id = id
      <3>1. f = published /\ s.act = id /\ state.act # 0 /\ op.id = id /\ op.kind = "issue"
        BY <1>2, <2>1, <2>5, BlankIs
      <3>2. ~Issuing(f)
        BY <2>1, <3>1
      <3>3. s.at \notin {"call", "bound", "marked"}
        BY <3>1, <3>2 DEF Issuing
      <3>4. o.keep # "none"
        BY <1>3, <3>1, <3>3 DEF Sound
      <3>5. o.keep = "same"
        BY <2>1, <2>2, <3>1, <3>4
      <3> QED
        BY <1>2, <2>2, <3>1, <3>5
    <2> QED
      BY <2>3, <2>4, <2>5
  <1>7. ASSUME NEW g \in Flows, Issuing(g)'
        PROVE  /\ OnlyIssues(journal.pending, journal.anchor, flow[g].pending.id)'
               /\ registry'.receipts[flow'[g].pending.id] =
                      IF flow'[g].at \in {"prepared", "moved"} THEN "prepared" ELSE "none"
               /\ flow'[g].at = "prepared" => registry'.selected = 0
               /\ flow'[g].at = "moved" => registry'.selected = flow'[g].pending.id
               /\ flow'[g].anchor.id # flow'[g].pending.id
               /\ \A h \in Flows \ {g} :
                    /\ OnlyIssues(flow[h].pending, flow[h].anchor, flow[g].pending.id)'
                    /\ flow'[h].act = flow'[g].pending.id =>
                           flow'[h].pending.id = flow'[g].pending.id
                    /\ flow'[h].pending.id = flow'[g].pending.id => ~Issuing(h)'
    <2>1. g # f /\ flow'[g] = flow[g]
      BY <1>2, <1>5, <1>7
    <2>2. Issuing(g)
      BY <1>7, <2>1 DEF Issuing
    <2>3. OnlyIssues(journal.pending, journal.anchor, flow[g].pending.id)
      BY <2>2 DEF IssuerInv
    <2>4. OnlyIssues(journal.pending, journal.anchor, flow[g].pending.id)'
      BY <1>2, <1>6, <2>1, <2>2, <2>3 DEF OnlyIssues
    <2>5. /\ registry'.receipts[flow'[g].pending.id] =
                 IF flow'[g].at \in {"prepared", "moved"} THEN "prepared" ELSE "none"
          /\ flow'[g].at = "prepared" => registry'.selected = 0
          /\ flow'[g].at = "moved" => registry'.selected = flow'[g].pending.id
          /\ flow'[g].anchor.id # flow'[g].pending.id
      BY <1>2, <2>1, <2>2 DEF IssuerInv
    <2>6. ASSUME NEW h \in Flows \ {g}
          PROVE  /\ OnlyIssues(flow[h].pending, flow[h].anchor, flow[g].pending.id)'
                 /\ flow'[h].act = flow'[g].pending.id =>
                        flow'[h].pending.id = flow'[g].pending.id
                 /\ flow'[h].pending.id = flow'[g].pending.id => ~Issuing(h)'
      <3>1. CASE h = f
        BY <1>5, <1>6, <2>1, <2>2, <3>1 DEF OnlyIssues
      <3>2. CASE h # f
        <4>1. flow'[h] = flow[h]
          BY <1>2, <3>2
        <4>2. Issuing(h)' => Issuing(h)
          BY <4>1 DEF Issuing
        <4> QED
          BY <2>1, <2>2, <4>1, <4>2 DEF IssuerInv, OnlyIssues
      <3> QED
        BY <3>1, <3>2
    <2> QED
      BY <2>4, <2>5, <2>6
  <1> QED
    BY <1>7 DEF IssuerInv

LEMMA ConcludesKeep ==
    ASSUME UpdateInv, NEW f \in Flows, Concludes(f)
    PROVE  UpdateInv'
  <1> USE PartsAre
  <1>1. PICK state, kept, o : Ends(f, state, kept, o)
    BY DEF Concludes
  <1> DEFINE s == flow[f]
             op == s.pending
             p == PendingAfter(state, o)
             a == AnchorAfter(state, o)
  <1>2. /\ s.at \in Calling \/ (f = published /\ s.at = "idle")
        /\ op # NoOp /\ op \in AnyOp /\ op.kind \in RemoteKinds \cup LocalKinds
        /\ op.id \in Ids /\ op.id # 0 /\ op.id < nextId
        /\ host = "ready" /\ ~Starting /\ (f # published => history.overtaken)
        /\ \/ journal' = journal
           \/ journal'.pending = p /\ journal'.anchor = a
        /\ \A g \in Flows : g # f => flow'[g] = flow[g]
        /\ f # published => flow'[f] = Blank
        /\ f = published => /\ flow'[f].at = "idle"
                            /\ flow'[f].pending = p /\ flow'[f].anchor = a
                            /\ flow'[f].act \in {s.act, 0} /\ flow'[f].act = state.act
        /\ flow'[f].at \in {"idle", "none"}
        /\ history'.open \subseteq history.open
        /\ history'.overtaken = history.overtaken /\ history'.whole = history.whole
        /\ Stays /\ TypeOK'
    BY <1>1, ConcludesIs
  <1>3. Sound(f, state, kept, o) /\ SessionKeeps(kept) /\ remote'.out = remote.out
    BY <1>1 DEF Ends, Concludes, RemoteKeeps
  <1>4. /\ NoOp.kind = "none" /\ NoOp.id = 0 /\ op.kind # "none"
        /\ op.kind \notin AnchorKinds
    BY <1>2, NoOpIs, KindsAre
  <1>5. /\ o.keep = "same" => p.kind = op.kind /\ p.id = op.id
        /\ o.keep # "same" => p = NoOp
        /\ \/ a = s.anchor
           \/ a = NoOp /\ op.kind = "rollback" /\ registry.selected = 0
           \/ /\ op.kind \in {"issue", "confirm"} /\ o.keep \in AnchorKinds
              /\ a.kind \in AnchorKinds /\ a.id = op.id
    BY <1>2, <1>3, AfterIs, KindsAre
  <1>6. UNCHANGED <<published, host, runtime, registry, nextId>>
    BY <1>2 DEF Stays
  <1>7. IdentitiesInv'
    <2>1. /\ NamesMinted(op, s.anchor) /\ s.act < nextId
          /\ op.id \in 1 .. nextId - 1
      BY <1>2 DEF IdentitiesInv, NamesMinted, Minted
    <2>2. NamesMinted(p, a)
      <3>1. Minted(p) /\ p.kind \notin AnchorKinds
        BY <1>4, <1>5, <2>1, KindsAre DEF Minted
      <3>2. Minted(a) /\ a.kind \in AnchorKinds \cup {"none"}
        BY <1>4, <1>5, <2>1, KindsAre DEF Minted, NamesMinted
      <3>3. p.kind = "confirm" => a # NoOp
        BY <1>4, <1>5, <2>1, KindsAre DEF NamesMinted
      <3> QED
        BY <3>1, <3>2, <3>3 DEF NamesMinted
    <2>3. NamesMinted(NoOp, NoOp) /\ 0 < nextId
      <3>1. 0 < nextId
        BY TypeIs, SMT
      <3> QED
        BY <1>4, <3>1, KindsAre DEF NamesMinted, Minted
    <2>4. ASSUME NEW g \in Flows
          PROVE  NamesMinted(flow'[g].pending, flow'[g].anchor) /\ flow'[g].act < nextId
      <3>1. CASE g # f
        BY <1>2, <3>1 DEF IdentitiesInv
      <3>2. CASE g = f
        BY <1>2, <2>1, <2>2, <2>3, <3>2, BlankIs
      <3> QED
        BY <3>1, <3>2
    <2>5. NamesMinted(journal'.pending, journal'.anchor)
      BY <1>2, <2>2 DEF IdentitiesInv
    <2>6. /\ remote'.out \subseteq RemoteKinds \X Ids /\ <<"none", 0>> \notin history'.open
          /\ \A i \in Ids : i >= nextId' => registry'.receipts[i] = "none"
      BY <1>2, <1>3, <1>6 DEF IdentitiesInv
    <2> QED
      BY <1>6, <2>4, <2>5, <2>6 DEF IdentitiesInv, NamesMinted, Minted
  <1>8. FlowsInv'
    <2>1. published \in Flows \cup {NoFlow}
      BY TypeIs
    <2>2. published' # NoFlow => flow'[published'].at # "none"
      BY <1>2, <1>6, <2>1 DEF FlowsInv
    <2>3. ASSUME NEW g \in Flows, g # f
          PROVE  /\ flow'[g] = flow[g] /\ published' = published
                 /\ history'.overtaken = history.overtaken /\ history'.whole = history.whole
      BY <1>2, <1>6, <2>3
    <2>4. flow'[f].at = "none" => flow'[f] = Blank
      BY <1>2
    <2>5. f # published => flow'[f].at = "none"
      BY <1>2, BlankIs
    <2> QED
      BY <1>2, <1>6, <2>2, <2>3, <2>4, <2>5 DEF FlowsInv, Calling
  <1>9. ReceiptsInv'
    BY <1>2, <1>6 DEF ReceiptsInv, Calling, SelectionIsReversible
  <1>10. StartedInv'
    <2>1. ~Starting'
      BY <1>2, <1>6 DEF Starting
    <2> QED
      BY <1>2, <1>6, <2>1 DEF StartedInv
  <1>11. KnownInv'
    <2>1. ASSUME ~history'.whole, ~history'.overtaken
          PROVE  /\ f = published /\ Knows(journal'.pending, journal'.anchor)
                 /\ Knows(p, a)
      <3>1. /\ f = published /\ flow[f].at # "none"
            /\ Knows(journal.pending, journal.anchor) /\ Knows(op, s.anchor)
            /\ Issuing(f) /\ flow[f].at \notin {"prepared", "moved"} =>
                   registry.selected = 0 \/ s.anchor # NoOp
        BY <1>2, <2>1 DEF KnownInv, Calling
      <3>2. ASSUME registry.selected # 0, a = NoOp PROVE p.kind = "issue"
        <4>1. s.anchor = NoOp
          BY <1>4, <1>5, <3>2, KindsAre
        <4>2. op.kind = "issue"
          BY <3>1, <3>2, <4>1 DEF Knows
        <4>3. o.keep # "none"
          <5>1. s.at \notin {"call", "bound", "marked"}
            BY <3>1, <3>2, <4>1, <4>2 DEF Issuing
          <5> QED
            BY <1>3, <3>2, <4>2, <5>1 DEF Sound
        <4>4. o.keep \in {"same", "none"} \cup AnchorKinds
          BY <1>3, SMT DEF Sound, Outcomes
        <4>5. o.keep = "same"
          <5>1. /\ o.keep = "pending" => a.kind = "pending"
                /\ o.keep # "confirmed"
            BY <1>2, <1>3, <4>2, AfterIs DEF Sound
          <5> QED
            BY <1>4, <3>2, <4>3, <4>4, <5>1, KindsAre
        <4> QED
          BY <1>5, <4>2, <4>5
      <3>3. Knows(p, a)
        BY <3>2 DEF Knows
      <3> QED
        BY <1>2, <3>1, <3>3
    <2>2. ASSUME ~history'.whole, ~history'.overtaken, NEW g \in Flows, flow'[g].at # "none"
          PROVE  /\ Knows(flow'[g].pending, flow'[g].anchor) /\ ~Issuing(g)'
      <3>1. g = f
        BY <1>2, <2>1, <2>2 DEF FlowsInv
      <3> QED
        BY <1>2, <2>1, <2>2, <3>1 DEF Issuing
    <2> QED
      BY <1>6, <2>1, <2>2 DEF KnownInv, Knows
  <1>12. SessionInv'
    <2>1. ASSUME ~history'.overtaken PROVE session'.state = "open"
      <3>1. ~Settled(f) /\ flow[f].at # "none"
        BY <1>2 DEF Settled, Calling
      <3>2. session.state = "open"
        BY <1>2, <2>1, <3>1, OpenIs
      <3> QED
        BY <1>3, <3>2 DEF SessionKeeps
    <2>2. \A g \in Flows : g # f /\ ~history.overtaken => flow[g].at = "none"
      BY <1>2 DEF FlowsInv
    <2> QED
      BY <1>2, <2>1, <2>2 DEF SessionInv
  <1>13. EvidenceInv' /\ RecordedInv' /\ IssuerInv'
    BY ConcludesEvidence, ConcludesRecorded, ConcludesIssuer
  <1> QED
    BY <1>2, <1>7, <1>8, <1>9, <1>10, <1>11, <1>12, <1>13 DEF UpdateInv

-----------------------------------------------------------------------------
(* The start, the end and the reconnects of the desktop, and the remote host. *)

LEMMA NothingUp ==
    ASSUME FlowsInv, host # "ready"
    PROVE  \A f \in Flows : flow[f].at = "none" /\ ~Issuing(f) /\ flow[f].at \notin Calling
  BY DEF FlowsInv, Issuing, Calling

LEMMA OwnerSet ==
    ASSUME TypeOK, NEW x \in {"alive", "exited", "released"},
           remote' = [remote EXCEPT !.owner = x]
    PROVE  RemoteKeeps
  <1>1. remote \in Remotes
    BY TypeIs
  <1> QED
    BY <1>1, SMT DEF RemoteKeeps, Remotes

LEMMA StartServerKeeps == ASSUME UpdateInv, StartServer PROVE UpdateInv'
  <1> USE PartsAre
  <1>1. RemoteKeeps
    BY OwnerSet DEF StartServer
  <1>2. /\ host # "ready" /\ host' = "serving" /\ runtime' = registry.selected
        /\ UNCHANGED <<flow, published, journal, session, registry, nextId, used, history>>
        /\ \A f \in Flows : flow[f].at = "none"
    BY NothingUp DEF StartServer
  <1>3. TypeOK'
    <2>1. registry.selected \in 0 .. MaxOps
      BY TypeIs, SMT DEF Registries
    <2> QED
      BY <1>1, <1>2, <2>1, TypeIs
         DEF RemoteKeeps, TypeOK, Journals, SessionStates, Receipts, Bindings, Registries,
             Remotes, Uses, Histories
  <1>4. IdentitiesInv' /\ FlowsInv'
    BY <1>1, <1>2 DEF IdentitiesInv, FlowsInv, NamesMinted, Minted, RemoteKeeps, Calling
  <1>5. EvidenceInv'
    BY <1>1, <1>2 DEF EvidenceInv, Established, SourceKept, RemoteKeeps
  <1>6. RecordedInv' /\ IssuerInv' /\ ReceiptsInv'
    BY <1>2 DEF RecordedInv, IssuerInv, ReceiptsInv, Issuing, OnlyIssues, SelectionIsReversible
  <1>7. StartedInv'
    BY <1>2 DEF StartedInv, Starting
  <1>8. KnownInv' /\ SessionInv'
    BY <1>2 DEF KnownInv, SessionInv, Knows, Issuing, Settled
  <1> QED
    BY <1>3, <1>4, <1>5, <1>6, <1>7, <1>8 DEF UpdateInv

\* What the confirmation at a start does to the receipts.
LEMMA ConfirmSelectedIs ==
    ASSUME TypeOK, ConfirmSelected
    PROVE  /\ registry' \in Registries /\ registry'.selected = registry.selected
           /\ \A i \in Ids : registry'.receipts[i] =
                  IF i = registry.selected /\ registry.receipts[i] \in Unconfirmed
                  THEN "confirmed" ELSE registry.receipts[i]
  <1> DEFINE R == [i \in Ids |-> IF i = registry.selected /\ registry.receipts[i] \in Unconfirmed
                                 THEN "confirmed" ELSE registry.receipts[i]]
  <1>1. registry \in Registries /\ registry.receipts \in [Ids -> Receipts]
    BY TypeIs, SMT DEF Registries
  <1>2. R \in [Ids -> Receipts]
    BY <1>1, Zenon DEF Receipts
  <1>3. registry' = [registry EXCEPT !.receipts = R]
    BY DEF ConfirmSelected
  <1>4. \A i \in Ids : R[i] = IF i = registry.selected /\ registry.receipts[i] \in Unconfirmed
                              THEN "confirmed" ELSE registry.receipts[i]
    OBVIOUS
  <1> HIDE DEF R
  <1>5. registry' \in Registries /\ registry'.selected = registry.selected /\ registry'.receipts = R
    BY <1>1, <1>2, <1>3, SMT DEF Registries
  <1> QED
    BY <1>4, <1>5

LEMMA ConfirmSelectedKeeps == ASSUME UpdateInv, ConfirmSelected PROVE UpdateInv'
  <1> USE PartsAre
  <1>1. /\ host = "serving" /\ host' = "open"
        /\ UNCHANGED <<flow, published, runtime, journal, session, remote, nextId, used,
                       history>>
        /\ \A f \in Flows : flow[f].at = "none" /\ ~Issuing(f) /\ flow[f].at \notin Calling
    BY NothingUp DEF ConfirmSelected
  <1>2. /\ registry' \in Registries /\ registry'.selected = registry.selected
        /\ \A i \in Ids : registry'.receipts[i] =
               IF i = registry.selected /\ registry.receipts[i] \in Unconfirmed
               THEN "confirmed" ELSE registry.receipts[i]
    BY ConfirmSelectedIs
  <1>3. TypeOK'
    BY <1>1, <1>2, TypeIs
       DEF TypeOK, Journals, SessionStates, Receipts, Bindings, Registries, Remotes, Uses,
           Histories
  <1>4. IdentitiesInv' /\ FlowsInv'
    <2>1. \A i \in Ids : i >= nextId => registry'.receipts[i] = "none"
      BY <1>2 DEF IdentitiesInv, Unconfirmed
    <2> QED
      BY <1>1, <2>1 DEF IdentitiesInv, FlowsInv, NamesMinted, Minted
  <1>5. EvidenceInv'
    BY <1>1, <1>2 DEF EvidenceInv, Established, SourceKept
  <1>6. RecordedInv' /\ IssuerInv'
    BY <1>1 DEF RecordedInv, IssuerInv, Issuing
  <1>7. registry.selected # 0 => /\ registry.selected \in Ids
                                 /\ registry'.receipts[registry.selected] = "confirmed"
    <2>1. registry.selected # 0 => registry.selected \in Ids
      BY TypeIs, SMT DEF Registries, Ids
    <2> QED
      BY <1>2, <2>1 DEF ReceiptsInv, SelectionIsReversible, Unconfirmed
  <1>8. ReceiptsInv'
    <2>1. \A i \in Ids : registry'.receipts[i] \in Unconfirmed =>
                             registry.receipts[i] \in Unconfirmed
      BY <1>2 DEF Unconfirmed
    <2>2. SelectionIsReversible'
      BY <1>2, <1>7, <2>1 DEF ReceiptsInv, SelectionIsReversible
    <2> QED
      BY <1>1, <2>2 DEF ReceiptsInv, Calling
  <1>9. StartedInv'
    BY <1>1, <1>2, <1>7 DEF StartedInv
  <1>10. KnownInv' /\ SessionInv'
    BY <1>1, <1>2 DEF KnownInv, SessionInv, Knows, Issuing, Settled
  <1> QED
    BY <1>3, <1>4, <1>5, <1>6, <1>8, <1>9, <1>10 DEF UpdateInv

LEMMA CompositionFailsKeeps == ASSUME UpdateInv, CompositionFails PROVE UpdateInv'
  <1> USE PartsAre
  <1>1. /\ host = "open" /\ host' = "ready" /\ used' \in Uses
        /\ UNCHANGED <<flow, published, runtime, journal, session, registry, remote, nextId,
                       history>>
        /\ \A f \in Flows : flow[f].at = "none"
    BY NothingUp, FaultIs DEF CompositionFails
  <1>2. TypeOK'
    BY <1>1, TypeIs
       DEF TypeOK, Journals, SessionStates, Receipts, Bindings, Registries, Remotes, Uses,
           Histories
  <1>3. IdentitiesInv' /\ FlowsInv'
    BY <1>1 DEF IdentitiesInv, FlowsInv, NamesMinted, Minted
  <1>4. EvidenceInv' /\ RecordedInv' /\ IssuerInv' /\ ReceiptsInv'
    BY <1>1 DEF EvidenceInv, Established, SourceKept, RecordedInv, IssuerInv, ReceiptsInv,
                Issuing, OnlyIssues, SelectionIsReversible
  <1>5. StartedInv' /\ KnownInv' /\ SessionInv'
    BY <1>1 DEF StartedInv, Starting, KnownInv, SessionInv, Knows, Issuing, Settled
  <1> QED
    BY <1>2, <1>3, <1>4, <1>5 DEF UpdateInv

LEMMA ReconnectKeeps == ASSUME UpdateInv, Reconnect PROVE UpdateInv'
  <1> USE PartsAre
  <1> DEFINE q == published
             busy == flow[q].at \in Calling \cup {"hook"}
  <1>1. /\ host = "ready" /\ q \in Flows /\ published' = NoFlow /\ NoFlow \notin Flows
        /\ UNCHANGED <<host, runtime, journal, session, registry, nextId>>
    BY TypeIs, FlowsAssumption DEF Reconnect
  <1>2. RemoteKeeps
    BY OwnerSet DEF Reconnect
  <1>3. used' \in Uses
    <2>1. /\ used \in Uses /\ used.reconnects < MaxReconnects
          /\ used' = [used EXCEPT !.reconnects = used.reconnects + 1]
      BY TypeIs DEF Reconnect
    <2> QED
      BY <2>1, LimitsAssumption, SMT DEF Uses
  <1>4. /\ history' \in Histories /\ history'.open = history.open
        /\ history'.moot = history.moot /\ history'.whole = history.whole
        /\ history'.overtaken <=> history.overtaken \/ busy
    <2> DEFINE x == history.overtaken \/ busy
    <2>1. history \in Histories /\ x \in BOOLEAN
      BY TypeIs
    <2>2. history' = [history EXCEPT !.overtaken = x]
      BY DEF Reconnect
    <2> HIDE DEF x
    <2>3. \A h \in Histories : \A y \in BOOLEAN : [h EXCEPT !.overtaken = y] \in Histories
      BY SMT DEF Histories
    <2>4. /\ history'.overtaken = x /\ history'.open = history.open
          /\ history'.moot = history.moot /\ history'.whole = history.whole
      BY <2>1, <2>2, SMT DEF Histories
    <2> QED
      BY <2>1, <2>2, <2>3, <2>4, Zenon DEF x
  <1>5. /\ flow' \in [Flows -> FlowStates]
        /\ \A g \in Flows : g # q => flow'[g] = flow[g]
        /\ busy => flow'[q] = flow[q]
        /\ ~busy => flow'[q] = Blank
    <2>1. CASE busy
      BY <2>1, TypeIs DEF Reconnect
    <2>2. CASE ~busy
      <3>1. flow' = [flow EXCEPT ![q] = Blank]
        BY <2>2 DEF Reconnect
      <3> QED
        BY <1>1, <2>2, <3>1, BlankIs, ReplacedIs, Zenon DEF OthersStay
    <2> QED
      BY <2>1, <2>2
  <1>6. TypeOK'
    <2>1. published' \in Flows \cup {NoFlow}
      BY <1>1
    <2> QED
      BY <1>1, <1>2, <1>3, <1>4, <1>5, <2>1, TypeIs
         DEF RemoteKeeps, TypeOK, Journals, SessionStates, Receipts, Bindings, Registries,
             Remotes, Uses, Histories
  <1>7. /\ \A g \in Flows : flow'[g] = flow[g] \/ flow'[g] = Blank
        /\ \A g \in Flows : flow'[g].at \in Calling \cup {"hook", "none"}
        /\ \A g \in Flows : flow'[g].at # "none" => flow'[g] = flow[g]
    BY <1>1, <1>5, BlankIs DEF FlowsInv
  <1>8. /\ NoOp.kind = "none" /\ NoOp.id = 0
        /\ \A g \in Flows : Issuing(g) => flow[g].pending.id # 0
        /\ 0 < nextId
    <2>1. 0 < nextId
      BY TypeIs, SMT
    <2> QED
      BY <2>1, NoOpIs, IssuersAre
  <1>9. IdentitiesInv'
    <2>1. NamesMinted(NoOp, NoOp)
      BY <1>8, KindsAre DEF NamesMinted, Minted
    <2>2. ASSUME NEW g \in Flows
          PROVE  NamesMinted(flow'[g].pending, flow'[g].anchor) /\ flow'[g].act < nextId
      BY <1>7, <1>8, <2>1, BlankIs DEF IdentitiesInv
    <2> QED
      BY <1>1, <1>2, <1>4, <2>2 DEF IdentitiesInv, NamesMinted, Minted, RemoteKeeps
  <1>10. FlowsInv'
    <2>1. \A g \in Flows : flow'[g].at = "none" => flow'[g] = Blank
      BY <1>7, BlankIs DEF FlowsInv
    <2>2. ~history'.overtaken => \A g \in Flows : flow'[g].at = "none"
      BY <1>1, <1>4, <1>5, BlankIs DEF FlowsInv
    <2>3. ASSUME NEW g \in Flows
          PROVE  /\ flow'[g].at \in Calling => flow'[g].pending # NoOp
                 /\ flow'[g].at \in {"bound", "marked", "prepared", "moved"} =>
                        flow'[g].pending.kind = "issue"
                 /\ flow'[g].at = "restoring" => flow'[g].pending.kind = "rollback"
                 /\ flow'[g].at # "resume"
                 /\ flow'[g].at = "hook" => /\ history'.whole /\ flow'[g].pending = NoOp
                                            /\ flow'[g].stage = "ready"
                                            /\ flow'[g].code = "plain"
      <3>1. CASE flow'[g] = flow[g]
        BY <1>4, <1>7, <3>1 DEF FlowsInv, Calling
      <3>2. CASE flow'[g] = Blank
        BY <3>2, BlankIs DEF Calling
      <3> QED
        BY <1>7, <3>1, <3>2
    <2> QED
      BY <1>1, <1>7, <2>1, <2>2, <2>3 DEF FlowsInv
  <1>11. EvidenceInv'
    <2>1. Grows /\ (SourceKept => SourceKept')
      BY <1>1, <1>2, <1>4 DEF Grows, RemoteKeeps, SourceKept
    <2>2. ASSUME NEW g \in Flows PROVE EvidenceOf(g)'
      <3>1. CASE flow'[g] = flow[g]
        BY <2>1, <3>1, EvidenceAre, EvidenceStays
      <3>2. CASE flow'[g] = Blank
        <4>1. /\ flow'[g].index = 0 /\ flow'[g].pending.kind = "none" /\ ~flow'[g].backup
              /\ flow'[g].anchor = NoOp /\ flow'[g].act = 0
          BY <1>8, <3>2, BlankIs
        <4> QED
          BY <4>1, KindsAre, NoOpIs, SMT DEF EvidenceOf, Reached, Pinned
      <3> QED
        BY <1>7, <3>1, <3>2
    <2> QED
      BY <1>1, <2>1, <2>2, EvidenceAre, EstablishedStays, EvidenceFrom
  <1>12. RecordedInv'
    <2>1. Harmless => Harmless'
      BY <1>4, <1>7 DEF Harmless, Calling
    <2>2. ASSUME NEW g \in Flows PROVE CallerOf(g)' /\ WriterOf(g)'
      <3>1. CASE flow'[g] = flow[g]
        BY <1>1, <1>4, <2>1, <3>1, RecordedAre DEF CallerOf, WriterOf, Writes
      <3>2. CASE flow'[g].at = "none"
        BY <3>2 DEF CallerOf, WriterOf, Calling
      <3> QED
        BY <1>7, <3>1, <3>2
    <2>3. journal' \in Journals
      BY <1>1, TypeIs
    <2> QED
      BY <1>1, <1>4, <2>2, <2>3, RecordedAre, RecordedFrom
  <1>13. \A g \in Flows : Issuing(g)' => Issuing(g) /\ flow'[g] = flow[g]
    BY <1>7 DEF Issuing
  <1>14. IssuerInv'
    <2>1. ASSUME NEW g \in Flows, Issuing(g)', NEW h \in Flows \ {g}
          PROVE  /\ OnlyIssues(flow[h].pending, flow[h].anchor, flow[g].pending.id)'
                 /\ flow'[h].act = flow'[g].pending.id => flow'[h].pending.id = flow'[g].pending.id
                 /\ flow'[h].pending.id = flow'[g].pending.id => ~Issuing(h)'
      <3>1. Issuing(g) /\ flow'[g] = flow[g]
        BY <1>13, <2>1
      <3>2. CASE flow'[h] = flow[h]
        BY <1>13, <3>1, <3>2 DEF IssuerInv, OnlyIssues
      <3>3. CASE flow'[h] = Blank
        BY <1>8, <1>13, <3>1, <3>3, BlankIs DEF OnlyIssues
      <3> QED
        BY <1>7, <3>2, <3>3
    <2>2. ASSUME NEW g \in Flows, Issuing(g)'
          PROVE  /\ OnlyIssues(journal.pending, journal.anchor, flow[g].pending.id)'
                 /\ registry'.receipts[flow'[g].pending.id] =
                        IF flow'[g].at \in {"prepared", "moved"} THEN "prepared" ELSE "none"
                 /\ flow'[g].at = "prepared" => registry'.selected = 0
                 /\ flow'[g].at = "moved" => registry'.selected = flow'[g].pending.id
                 /\ flow'[g].anchor.id # flow'[g].pending.id
      BY <1>1, <1>13, <2>2 DEF IssuerInv, OnlyIssues
    <2> QED
      BY <2>1, <2>2 DEF IssuerInv
  <1>15. ReceiptsInv'
    BY <1>1, <1>7 DEF ReceiptsInv, SelectionIsReversible, Calling
  <1>16. StartedInv'
    BY <1>1, <1>7 DEF StartedInv, Starting, Calling
  <1>17. ~history'.overtaken => \A g \in Flows : flow'[g].at = "none"
    BY <1>10, <1>1 DEF FlowsInv
  <1>18. KnownInv'
    BY <1>1, <1>4, <1>17 DEF KnownInv, Knows
  <1>19. SessionInv'
    BY <1>1, <1>4, <1>17 DEF SessionInv
  <1> QED
    BY <1>6, <1>9, <1>10, <1>11, <1>12, <1>14, <1>15, <1>16, <1>18, <1>19 DEF UpdateInv

LEMMA DownKeeps == ASSUME UpdateInv, Down, used' \in Uses PROVE UpdateInv'
  <1> USE PartsAre
  <1>1. /\ host' = "down" /\ published' = NoFlow /\ flow' = [f \in Flows |-> Blank]
        /\ UNCHANGED <<runtime, session, registry, nextId>>
    BY DEF Down
  <1>2. /\ journal' \in Journals /\ journal'.pending = journal.pending
        /\ journal'.anchor = journal.anchor /\ journal'.fresh = {}
    <2>1. journal \in Journals /\ journal' = [journal EXCEPT !.fresh = {}]
      BY TypeIs DEF Down
    <2> QED
      BY <2>1, SMT DEF Journals
  <1>3. /\ history' \in Histories /\ history'.open = history.open
        /\ history'.overtaken = history.overtaken /\ history'.whole = history.whole
    <2>1. history \in Histories /\ history' = [history EXCEPT !.moot = {}]
      BY TypeIs DEF Down
    <2> QED
      BY <2>1, SMT DEF Histories
  <1>4. RemoteKeeps
    <2>1. remote \in Remotes /\ 0 \in 0 .. MaxOps /\ remote' = [remote EXCEPT !.stopper = 0]
      BY TypeIs, LimitsAssumption, SMT DEF Down
    <2> QED
      BY <2>1, SMT DEF RemoteKeeps, Remotes
  <1>5. /\ flow' \in [Flows -> FlowStates]
        /\ \A f \in Flows : flow'[f] = Blank /\ flow'[f].at = "none"
    BY <1>1, BlankIs
  <1>6. TypeOK'
    BY <1>1, <1>2, <1>3, <1>4, <1>5, TypeIs
       DEF RemoteKeeps, TypeOK, Journals, SessionStates, Receipts, Bindings, Registries,
           Remotes, Uses, Histories
  <1>7. IdentitiesInv'
    <2>1. 0 < nextId /\ NoOp.kind = "none"
      BY TypeIs, NoOpIs, SMT
    <2>2. NamesMinted(NoOp, NoOp)
      BY <2>1, KindsAre DEF NamesMinted, Minted
    <2>3. ASSUME NEW g \in Flows
          PROVE  NamesMinted(flow'[g].pending, flow'[g].anchor) /\ flow'[g].act < nextId
      BY <1>5, <2>1, <2>2, BlankIs
    <2> QED
      BY <1>1, <1>2, <1>3, <1>4, <2>3 DEF IdentitiesInv, NamesMinted, Minted, RemoteKeeps
  <1>8. FlowsInv'
    BY <1>1, <1>5 DEF FlowsInv, Calling
  <1>9. EvidenceInv'
    <2>1. Grows /\ (SourceKept => SourceKept')
      BY <1>1, <1>3, <1>4 DEF Grows, RemoteKeeps, SourceKept
    <2>2. ASSUME NEW g \in Flows PROVE EvidenceOf(g)'
      <3>1. /\ flow'[g].index = 0 /\ flow'[g].pending.kind = "none" /\ ~flow'[g].backup
            /\ flow'[g].anchor = NoOp /\ flow'[g].act = 0
        BY <1>5, NoOpIs, BlankIs
      <3> QED
        BY <3>1, KindsAre, NoOpIs, SMT DEF EvidenceOf, Reached, Pinned
    <2>3. Established(journal.pending, journal.anchor)'
      BY <1>2, <2>1, EvidenceAre DEF Established, Grows
    <2> QED
      BY <1>1, <2>1, <2>2, <2>3, EvidenceAre, EvidenceFrom
  <1>10. RecordedInv' /\ IssuerInv' /\ ReceiptsInv'
    BY <1>1, <1>2, <1>3, <1>5
       DEF RecordedInv, IssuerInv, ReceiptsInv, Issuing, Calling, SelectionIsReversible
  <1>11. StartedInv' /\ KnownInv' /\ SessionInv'
    BY <1>1, <1>2, <1>3, <1>5 DEF StartedInv, Starting, KnownInv, SessionInv, Knows
  <1> QED
    BY <1>6, <1>7, <1>8, <1>9, <1>10, <1>11 DEF UpdateInv

LEMMA CrashKeeps == ASSUME UpdateInv, Crash \/ RestartDesktop PROVE UpdateInv'
  <1>1. Down /\ used' \in Uses
    BY PartsAre, TypeIs, FaultIs DEF Crash, RestartDesktop
  <1> QED
    BY <1>1, DownKeeps

\* A request that reaches the host takes nothing away there.
LEMMA ArrivesIs ==
    ASSUME TypeOK, NEW r \in remote.out, remote.out \subseteq RemoteKinds \X Ids, Arrives(r)
    PROVE  /\ remote' \in Remotes /\ remote'.out \subseteq remote.out
           /\ remote.placed # 0 => remote'.placed # 0
           /\ remote.archives # {} => remote'.archives # {}
           /\ UNCHANGED <<flow, published, host, runtime, journal, session, registry,
                          nextId, used, history>>
  <1> DEFINE out == remote.out \ {r}
             gone == [remote EXCEPT !.out = out]
             archives == remote.archives \cup {r[2]}
             restores == remote.restores \cup {r[2]}
  <1>1. /\ remote \in Remotes /\ out \in SUBSET Refs /\ r[2] \in Ids
        /\ remote.archives \in SUBSET Ids /\ remote.restores \in SUBSET Ids
    <2>1. remote \in Remotes
      BY TypeIs
    <2>2. remote.out \in SUBSET Refs /\ remote.archives \in SUBSET Ids
          /\ remote.restores \in SUBSET Ids
      BY <2>1, SMT DEF Remotes
    <2>3. r[2] \in Ids
      BY SMT
    <2> QED
      BY <2>1, <2>2, <2>3
  <1>2. /\ archives \in SUBSET Ids /\ archives # {} /\ restores \in SUBSET Ids
        /\ r[2] \in 0 .. MaxOps /\ r[2] # 0 /\ 0 \in 0 .. MaxOps
    <2>1. r[2] \in 0 .. MaxOps /\ r[2] # 0
      BY <1>1, IdsAre
    <2>2. 0 \in 0 .. MaxOps
      BY LimitsAssumption, SMT
    <2> QED
      BY <1>1, <2>1, <2>2
  <1> DEFINE id == r[2]
  <1>3. id \in 0 .. MaxOps /\ id # 0
    BY <1>2
  <1>4. \/ remote' = gone
        \/ remote' \in Stopped(gone, id)
        \/ (remote' = [gone EXCEPT !.placed = id] /\ remote.placed = 0)
        \/ remote' = [gone EXCEPT !.archives = archives]
        \/ remote' = [gone EXCEPT !.restores = restores]
    <2>1. gone.archives = remote.archives /\ gone.restores = remote.restores
      BY <1>1, SMT DEF Remotes
    <2> DEFINE by == CASE r[1] = "stop" -> Stopped(gone, r[2])
                       [] r[1] = "prepare" /\ remote.placed = 0 -> {[gone EXCEPT !.placed = r[2]]}
                       [] r[1] = "backup" /\ remote.owner # "alive" ->
                              {[gone EXCEPT !.archives = gone.archives \cup {r[2]}]}
                       [] r[1] = "restore" /\ remote.owner # "alive" ->
                              {[gone EXCEPT !.restores = gone.restores \cup {r[2]}]}
                       [] OTHER -> {}
    <2>2. remote' \in {gone} \cup by
      BY DEF Arrives
    <2> HIDE DEF gone
    <2>3. \/ by = Stopped(gone, id)
          \/ by = {[gone EXCEPT !.placed = id]} /\ remote.placed = 0
          \/ by = {[gone EXCEPT !.archives = archives]}
          \/ by = {[gone EXCEPT !.restores = restores]}
          \/ by = {}
      BY <2>1, Zenon
    <2> HIDE DEF by
    <2> QED
      BY <2>2, <2>3
  <1> HIDE DEF out, archives, restores, id
  <1>5. gone \in Remotes /\ gone.out = out /\ gone.placed = remote.placed
        /\ gone.archives = remote.archives
    BY <1>1, SMT DEF Remotes
  <1> HIDE DEF gone
  <1>6. CASE remote' \in Stopped(gone, id)
    <2>1. \/ remote' = gone
          \/ remote' = [gone EXCEPT !.owner = "exited"]
          \/ \E x \in {id, 0} : remote' = [gone EXCEPT !.owner = "released", !.stopper = x]
      BY <1>6 DEF Stopped
    <2>2. \A x \in {id, 0} : x \in 0 .. MaxOps
      BY <1>2, <1>3
    <2> DEFINE Like(m) == /\ m \in Remotes /\ m.out = gone.out
                          /\ m.placed = gone.placed /\ m.archives = gone.archives
    <2>3. Like(gone) /\ Like([gone EXCEPT !.owner = "exited"])
      BY <1>5, SMT DEF Remotes
    <2>4. \A x \in 0 .. MaxOps :
              Like([gone EXCEPT !.owner = "released", !.stopper = x])
      <3> DEFINE freed == [gone EXCEPT !.owner = "released"]
      <3>1. Like(freed)
        BY <1>5, SMT DEF Remotes
      <3> HIDE DEF freed
      <3>2. \A x \in 0 .. MaxOps : Like([freed EXCEPT !.stopper = x])
        BY <3>1, SMT DEF Remotes
      <3>3. ASSUME NEW x \in 0 .. MaxOps
            PROVE  Like([gone EXCEPT !.owner = "released", !.stopper = x])
        <4> DEFINE y == [gone EXCEPT !.owner = "released", !.stopper = x]
                   z == [freed EXCEPT !.stopper = x]
        <4>1. y = z
          BY Zenon DEF freed
        <4>2. Like(z)
          BY <3>2
        <4> HIDE DEF Like, y, z
        <4>3. Like(y)
          BY <4>1, <4>2
        <4> QED
          BY <4>3 DEF y
      <3> QED
        BY <3>3
    <2> HIDE DEF Like
    <2>5. Like(remote')
      BY <2>1, <2>2, <2>3, <2>4
    <2> QED
      BY <1>5, <2>5 DEF out, Arrives, Like
  <1>7. CASE remote' = [gone EXCEPT !.placed = id]
    <2>1. /\ remote' \in Remotes /\ remote'.out = gone.out
          /\ remote'.placed = id /\ remote'.archives = gone.archives
      BY <1>3, <1>5, <1>7, SMT DEF Remotes
    <2> QED
      BY <1>3, <1>5, <2>1 DEF out, Arrives
  <1>8. CASE remote' = [gone EXCEPT !.archives = archives]
    <2>1. /\ remote' \in Remotes /\ remote'.out = gone.out
          /\ remote'.placed = gone.placed /\ remote'.archives = archives
      BY <1>2, <1>5, <1>8, SMT DEF Remotes
    <2> QED
      BY <1>2, <1>5, <2>1 DEF out, Arrives
  <1>9. CASE remote' = [gone EXCEPT !.restores = restores]
    <2>1. /\ remote' \in Remotes /\ remote'.out = gone.out
          /\ remote'.placed = gone.placed /\ remote'.archives = gone.archives
      BY <1>2, <1>5, <1>9, SMT DEF Remotes
    <2> QED
      BY <1>5, <2>1 DEF out, Arrives
  <1>10. CASE remote' = gone
    BY <1>5, <1>10 DEF out, Arrives
  <1> QED
    BY <1>4, <1>6, <1>7, <1>8, <1>9, <1>10

LEMMA ArrivesKeeps == ASSUME UpdateInv, NEW r \in remote.out, Arrives(r) PROVE UpdateInv'
  <1> USE PartsAre
  <1>1. /\ remote' \in Remotes /\ remote'.out \subseteq remote.out
        /\ remote.placed # 0 => remote'.placed # 0
        /\ remote.archives # {} => remote'.archives # {}
        /\ UNCHANGED <<flow, published, host, runtime, journal, session, registry, nextId,
                       used, history>>
    BY ArrivesIs DEF IdentitiesInv
  <1>2. TypeOK'
    BY <1>1, TypeIs
       DEF TypeOK, Journals, SessionStates, Receipts, Bindings, Registries, Remotes, Uses,
           Histories
  <1>3. IdentitiesInv' /\ FlowsInv'
    BY <1>1 DEF IdentitiesInv, FlowsInv, NamesMinted, Minted
  <1>4. EvidenceInv'
    <2>1. Grows /\ (SourceKept => SourceKept')
      BY <1>1 DEF Grows, SourceKept
    <2>2. \A f \in Flows : EvidenceOf(f)'
      BY <1>1, <2>1, EvidenceAre, EvidenceStays
    <2> QED
      BY <1>1, <2>1, <2>2, EvidenceAre, EstablishedStays, EvidenceFrom
  <1>5. RecordedInv' /\ IssuerInv' /\ ReceiptsInv'
    BY <1>1 DEF RecordedInv, IssuerInv, ReceiptsInv, Issuing, OnlyIssues,
                SelectionIsReversible
  <1>6. StartedInv' /\ KnownInv' /\ SessionInv'
    BY <1>1 DEF StartedInv, Starting, KnownInv, SessionInv, Knows, Issuing, Settled
  <1> QED
    BY <1>2, <1>3, <1>4, <1>5, <1>6 DEF UpdateInv

-----------------------------------------------------------------------------
(* The composition of a flow. *)

\* How far the recorded identities say the update is.
LEMMA ResumedIs ==
    ASSUME TypeOK
    PROVE  LET p == journal.pending  a == journal.anchor  n == ResumedIndex IN
           /\ n \in 0 .. 7
           /\ p = NoOp /\ a = NoOp => n = 0
           /\ a # NoOp => n >= 5
           /\ p.kind \in LocalKinds => n >= 5
           /\ a = NoOp /\ p.kind \in {"prepare", "stop", "backup"} => n = Position(p.kind)
           /\ p.kind = "restore" => n >= 3
           /\ a = NoOp /\ p.kind = "restore" => n = 3
           /\ n > 0 => p # NoOp \/ a # NoOp
  <1> DEFINE p == journal.pending
             a == journal.anchor
             n == ResumedIndex
             x == IF a = NoOp THEN 0
                  ELSE Position("activate") + (IF a.kind = "pending" THEN 0 ELSE 1)
             y == IF p = NoOp THEN 0 ELSE Position(StageOf(p.kind))
  <1>1. p.kind \in OpKinds /\ a.kind \in OpKinds
    <2>1. p \in AnyOp /\ a \in AnyOp
      BY TypeIs, SMT DEF Journals
    <2> QED
      BY <2>1, SMT DEF AnyOp
  <1>2. x \in {0, 5, 6} /\ (a = NoOp => x = 0) /\ (a # NoOp => x \in {5, 6})
    BY PositionIs, SMT
  <1>3. /\ p = NoOp => y = 0
        /\ p.kind = "prepare" => y = 1
        /\ p.kind = "stop" => y = 2
        /\ p.kind \in {"backup", "restore"} => y = 3
        /\ p.kind \in LocalKinds => y = 5
    BY PositionIs, StageIs, NoOpIs, KindsAre
  <1>4. y \in 0 .. 6
    <2>1. StageOf(p.kind) \in {"prepare", "stop", "backup", "activate"}
      BY <1>1, KindsAre, SMT DEF StageOf
    <2> QED
      BY <2>1, PositionIs, SMT
  <1>5. n = IF x > y THEN x ELSE y
    BY DEF ResumedIndex
  <1> HIDE DEF x, y, n
  <1>6. /\ n \in 0 .. 7 /\ (x = 0 => n = y) /\ (y = 0 => n = x)
        /\ x >= 5 => n >= 5
        /\ y >= 5 => n >= 5
        /\ y = 3 => n >= 3
    BY <1>2, <1>4, <1>5, SMT
  <1>7. /\ p = NoOp /\ a = NoOp => n = 0
        /\ n > 0 => p # NoOp \/ a # NoOp
    BY <1>2, <1>3, <1>6
  <1>8. a # NoOp => n >= 5
    BY <1>2, <1>6
  <1>9. /\ p.kind \in LocalKinds => n >= 5
        /\ p.kind = "restore" => n >= 3
        /\ a = NoOp /\ p.kind = "restore" => n = 3
    BY <1>2, <1>3, <1>6
  <1>10. a = NoOp /\ p.kind \in {"prepare", "stop", "backup"} => n = Position(p.kind)
    BY <1>2, <1>3, <1>6, PositionIs
  <1> QED
    BY <1>6, <1>7, <1>8, <1>9, <1>10 DEF n

LEMMA AdoptedIs ==
    ASSUME TypeOK
    PROVE  LET p == journal.pending  a == journal.anchor  s == Adopted IN
           /\ s \in FlowStates /\ s.at \in {"idle", "resume"}
           /\ s.at = "resume" => host = "open" /\ p = NoOp /\ a.kind = "pending"
           /\ s.pending = p /\ s.anchor = a /\ s.uncertain = FALSE /\ s.owed = {}
           /\ s.index = ResumedIndex
           /\ s.backup <=> ResumedIndex > 3
           /\ s.act = IF p.kind \in LocalKinds THEN p.id ELSE a.id
  <1> DEFINE p == journal.pending
             a == journal.anchor
             at == IF host = "open" /\ p = NoOp /\ a.kind = "pending" THEN "resume" ELSE "idle"
             stage == IF p # NoOp THEN "unknown" ELSE "run"
             code == IF p # NoOp THEN OpenCode(p.kind)
                     ELSE IF a.kind = "pending" THEN "restart" ELSE "plain"
             n == ResumedIndex
             act == IF p.kind \in LocalKinds THEN p.id ELSE a.id
             kept == p.kept \/ a.kept
             proven == ProvenBackup
             retained == session.prepared
             source == session.source
             s1 == [Blank EXCEPT !.at = at, !.stage = stage, !.code = code]
             s2 == [s1 EXCEPT !.index = n, !.act = act, !.kept = kept]
             s3 == [s2 EXCEPT !.backup = proven, !.pending = p, !.anchor = a]
             s4 == [s3 EXCEPT !.retained = retained, !.source = source]
  <1>1. p \in AnyOp /\ a \in AnyOp /\ session \in SessionStates /\ n \in 0 .. 7
    BY TypeIs, ResumedIs, SMT DEF Journals
  <1>2. /\ at \in Places /\ stage \in Stages /\ act \in 0 .. MaxOps /\ code \in Codes
        /\ at \in {"idle", "resume"}
        /\ at = "resume" => host = "open" /\ p = NoOp /\ a.kind = "pending"
    <2>1. p.id \in 0 .. MaxOps /\ a.id \in 0 .. MaxOps
      BY <1>1, SMT DEF AnyOp
    <2> QED
      BY <2>1, PlacesAre DEF Stages, Codes, OpenCode
  <1>3. kept \in BOOLEAN /\ proven \in BOOLEAN /\ (proven <=> n > 3)
    BY PositionIs DEF ProvenBackup
  <1>4. retained \in BOOLEAN /\ source \in BOOLEAN
    BY <1>1, SMT DEF SessionStates
  <1>5. Adopted = [Blank EXCEPT !.at = at, !.stage = stage, !.code = code, !.index = n,
                                !.act = act, !.kept = kept, !.backup = proven,
                                !.pending = p, !.anchor = a, !.retained = retained,
                                !.source = source]
    BY DEF Adopted
  <1> HIDE DEF p, a, at, stage, code, n, act, kept, proven, retained, source
  <1>6. Adopted = s4
    BY <1>5, Zenon
  <1>7. s1 \in FlowStates
    BY <1>2, BlankIs, FieldSet, Zenon
  <1>8. s1.at = at /\ s1.uncertain = FALSE /\ s1.owed = {}
    BY <1>2, BlankIs, SMT DEF FlowStates
  <1> HIDE DEF s1
  <1>9. s2 \in FlowStates
    BY <1>1, <1>2, <1>3, <1>7, FieldSet, Zenon
  <1>10. s2.at = s1.at /\ s2.uncertain = s1.uncertain /\ s2.owed = s1.owed
         /\ s2.index = n /\ s2.act = act
    BY <1>1, <1>2, <1>7, SMT DEF FlowStates
  <1> HIDE DEF s2
  <1>11. s3 \in FlowStates
    BY <1>1, <1>3, <1>9, FieldSet, Zenon
  <1>12. s3.at = s2.at /\ s3.uncertain = s2.uncertain /\ s3.owed = s2.owed
         /\ s3.index = s2.index /\ s3.act = s2.act /\ s3.pending = p /\ s3.anchor = a
         /\ s3.backup = proven
    BY <1>1, <1>9, SMT DEF FlowStates
  <1> HIDE DEF s3
  <1>13. /\ \A x \in BOOLEAN : [s3 EXCEPT !.retained = x] \in FlowStates
         /\ \A s \in FlowStates : \A x \in BOOLEAN : [s EXCEPT !.source = x] \in FlowStates
    BY <1>11, SMT DEF FlowStates
  <1>14. s4 \in FlowStates
    BY <1>4, <1>13, Zenon
  <1>15. s4.at = s3.at /\ s4.uncertain = s3.uncertain /\ s4.owed = s3.owed
         /\ s4.index = s3.index /\ s4.act = s3.act /\ s4.pending = s3.pending
         /\ s4.anchor = s3.anchor /\ s4.backup = s3.backup
    BY <1>11, SMT DEF FlowStates
  <1> HIDE DEF s4
  <1> QED
    BY <1>2, <1>3, <1>6, <1>8, <1>10, <1>12, <1>14, <1>15 DEF p, a, n, act

LEMMA ComposeKeeps == ASSUME UpdateInv, NEW f \in Flows, Compose(f) PROVE UpdateInv'
  <1> USE PartsAre
  <1> DEFINE p == journal.pending
             a == journal.anchor
             s == flow'[f]
             n == ResumedIndex
  <1>1. /\ host \in {"open", "ready"} /\ host' = "ready"
        /\ published = NoFlow /\ published' = f /\ f # NoFlow /\ NoFlow \notin Flows
        /\ flow[f].at = "none" /\ flow[f] = Blank
        /\ UNCHANGED <<runtime, registry, remote, nextId, used, history>>
    BY FlowsAssumption DEF Compose, FlowsInv
  <1>2. /\ flow' \in [Flows -> FlowStates] /\ s = Adopted
        /\ \A g \in Flows : g # f => flow'[g] = flow[g]
    BY AdoptedIs, ReplacedIs DEF Compose, OthersStay
  <1>3. /\ s.at \in {"idle", "resume"}
        /\ s.at = "resume" => host = "open" /\ p = NoOp /\ a.kind = "pending"
        /\ s.pending = p /\ s.anchor = a /\ s.uncertain = FALSE /\ s.owed = {}
        /\ s.index = n /\ (s.backup <=> n > 3)
        /\ s.act = IF p.kind \in LocalKinds THEN p.id ELSE a.id
    BY <1>2, AdoptedIs
  <1>4. /\ journal' \in Journals /\ journal'.pending = p /\ journal'.anchor = a
        /\ journal'.fresh = journal.fresh \cup {f}
    <2> DEFINE fresh == journal.fresh \cup {f}
    <2>1. journal \in Journals
      BY TypeIs
    <2>2. fresh \in SUBSET Flows
      BY <2>1, SMT DEF Journals
    <2>3. journal' = [journal EXCEPT !.fresh = fresh]
      BY DEF Compose
    <2> HIDE DEF fresh
    <2>4. /\ journal' \in Journals /\ journal'.pending = p /\ journal'.anchor = a
          /\ journal'.fresh = fresh
      BY <2>1, <2>2, <2>3, SMT DEF Journals
    <2> QED
      BY <2>4 DEF fresh
  <1>5. /\ session' \in SessionStates /\ session'.state = "open"
        /\ session'.source = session.source
    <2>1. session \in SessionStates /\ session' = [session EXCEPT !.state = "open"]
      BY TypeIs DEF Compose
    <2>2. \A x \in SessionStates : [x EXCEPT !.state = "open"] \in SessionStates
      BY SMT DEF SessionStates
    <2>3. session'.state = "open" /\ session'.source = session.source
      BY <2>1, SMT DEF SessionStates
    <2> QED
      BY <2>1, <2>2, <2>3, Zenon
  <1>6. TypeOK'
    <2>1. published' \in Flows \cup {NoFlow}
      BY <1>1
    <2> QED
      BY <1>1, <1>2, <1>4, <1>5, <2>1, TypeIs
         DEF TypeOK, Journals, SessionStates, Receipts, Bindings, Registries, Remotes, Uses,
             Histories
  <1>7. /\ s.at \notin Calling \cup {"none", "hook"} /\ ~Issuing(f)'
        /\ NoOp.kind = "none" /\ NoOp.id = 0
    BY <1>3, NoOpIs DEF Calling, Issuing
  <1>8. \A g \in Flows : g # f => flow[g].at \in Calling \cup {"hook", "none"}
    BY <1>1 DEF FlowsInv
  <1>9. IdentitiesInv'
    <2>1. NamesMinted(p, a) /\ 0 < nextId
      BY TypeIs, SMT DEF IdentitiesInv
    <2>2. s.act < nextId
      <3>1. /\ p = NoOp \/ p.id \in 1 .. nextId - 1
            /\ a = NoOp \/ a.id \in 1 .. nextId - 1
        BY <2>1 DEF NamesMinted, Minted
      <3>2. p.id < nextId /\ a.id < nextId
        BY <1>7, <2>1, <3>1, TypeIs, SMT
      <3> QED
        BY <1>3, <3>2
    <2>3. ASSUME NEW g \in Flows
          PROVE  NamesMinted(flow'[g].pending, flow'[g].anchor) /\ flow'[g].act < nextId
      BY <1>2, <1>3, <2>1, <2>2 DEF IdentitiesInv
    <2> QED
      BY <1>1, <1>4, <2>3 DEF IdentitiesInv, NamesMinted, Minted
  <1>10. FlowsInv'
    <2>1. ASSUME NEW g \in Flows, g # f
          PROVE  /\ flow'[g] = flow[g] /\ flow[g].at \in Calling \cup {"hook", "none"}
                 /\ history'.overtaken = history.overtaken /\ history'.whole = history.whole
                 /\ ~history.overtaken => flow[g].at = "none"
      BY <1>1, <1>2, <1>8, <2>1 DEF FlowsInv
    <2>2. \A g \in Flows :
              /\ flow'[g].at = "none" => flow'[g] = Blank
              /\ g # published' => flow'[g].at \in Calling \cup {"hook", "none"}
              /\ g # published' /\ ~history'.overtaken => flow'[g].at = "none"
      BY <1>1, <1>7, <2>1 DEF FlowsInv
    <2>3. ASSUME NEW g \in Flows
          PROVE  /\ flow'[g].at \in Calling => flow'[g].pending # NoOp
                 /\ flow'[g].at \in {"bound", "marked", "prepared", "moved"} =>
                        flow'[g].pending.kind = "issue"
                 /\ flow'[g].at = "restoring" => flow'[g].pending.kind = "rollback"
                 /\ flow'[g].at = "resume" => flow'[g].pending = NoOp
                                              /\ flow'[g].anchor.kind = "pending"
                 /\ flow'[g].at = "hook" => /\ history'.whole /\ flow'[g].pending = NoOp
                                            /\ flow'[g].stage = "ready"
                                            /\ flow'[g].code = "plain"
      <3>1. CASE g = f
        BY <1>3, <3>1 DEF Calling
      <3>2. CASE g # f
        BY <2>1, <3>2 DEF FlowsInv, Calling
      <3> QED
        BY <3>1, <3>2
    <2> QED
      BY <1>1, <1>7, <2>2, <2>3 DEF FlowsInv
  <1>11. EvidenceInv'
    <2>1. Grows /\ (SourceKept => SourceKept')
      BY <1>1, <1>5 DEF Grows, SourceKept
    <2>2. /\ p.kind \in {"stop", "backup", "restore"} => remote.placed # 0
          /\ p.kind \in LocalKinds \/ a # NoOp =>
                 remote.placed # 0 /\ remote.archives # {} /\ SourceKept
          /\ p.kind \in {"prepare", "stop", "backup"} => a = NoOp
      BY EvidenceAre DEF Established
    <2>3. /\ n \in 0 .. 7
          /\ p = NoOp /\ a = NoOp => n = 0
          /\ a # NoOp => n >= 5
          /\ p.kind \in LocalKinds => n >= 5
          /\ a = NoOp /\ p.kind \in {"prepare", "stop", "backup"} => n = Position(p.kind)
          /\ p.kind = "restore" => n >= 3
          /\ a = NoOp /\ p.kind = "restore" => n = 3
      BY ResumedIs
    <2>4. p # NoOp => p.kind \in RemoteKinds \cup LocalKinds
      <3>1. p.kind \in OpKinds /\ p.kind \notin AnchorKinds /\ (p # NoOp => p.kind # "none")
        <4>1. p \in AnyOp
          BY TypeIs, SMT DEF Journals
        <4>2. p.kind \in OpKinds
          BY <4>1, SMT DEF AnyOp
        <4> QED
          BY <4>2 DEF IdentitiesInv, NamesMinted, Minted
      <3> QED
        BY <3>1, KindsAre
    <2>5. /\ n >= 2 => remote.placed # 0
          /\ n >= 4 => remote.archives # {} /\ SourceKept
      <3>1. CASE p.kind \in LocalKinds \/ a # NoOp
        BY <2>2, <3>1
      <3>2. CASE p.kind \notin LocalKinds /\ a = NoOp
        <4>1. p = NoOp \/ p.kind \in {"prepare", "stop", "backup", "restore"}
          BY <2>4, <3>2, KindsAre
        <4>2. /\ p = NoOp => n = 0
              /\ p.kind = "prepare" => n = 1
              /\ p.kind \in {"stop", "backup", "restore"} => n \in {2, 3}
          BY <2>3, <3>2, PositionIs
        <4> QED
          BY <2>2, <4>1, <4>2
      <3> QED
        BY <3>1, <3>2
    <2>6. Reached(f)'
      <3>1. /\ n >= 2 => remote.placed # 0
            /\ n >= 4 => remote.archives # {}
            /\ n >= 5 => SourceKept
        <4>1. n >= 5 => n >= 4
          BY <2>3, SMT
        <4> QED
          BY <2>5, <4>1
      <3> QED
        BY <1>3, <2>1, <3>1 DEF Reached, Grows
    <2>7. Pinned(f)'
      <3>1. s.act # 0 => p.kind \in LocalKinds \/ a # NoOp
        BY <1>3, <1>7
      <3> QED
        BY <1>3, <2>2, <2>3, <3>1 DEF Pinned
    <2>8. s.backup => Archived(f)'
      <3>1. n > 3 => n >= 3 /\ n >= 4
        BY <2>3, SMT
      <3>2. n > 3 => n >= 3 /\ remote'.archives # {} /\ SourceKept'
        BY <2>1, <2>5, <3>1 DEF Grows
      <3> QED
        BY <1>3, <3>2 DEF Archived
    <2>9. EvidenceOf(f)'
      BY <2>6, <2>7, <2>8 DEF EvidenceOf
    <2>10. Established(journal.pending, journal.anchor)'
      BY <1>4, <2>1, EvidenceAre DEF Established, Grows
    <2> QED
      BY <1>1, <1>2, <2>1, <2>9, <2>10, EvidenceAre, EvidenceStays, EvidenceFrom
  <1>12. RecordedInv'
    <2>1. Harmless => Harmless'
      BY <1>1, <1>2, <1>7 DEF Harmless
    <2>2. ASSUME NEW g \in Flows PROVE CallerOf(g)' /\ WriterOf(g)'
      <3>1. CASE g # f
        <4>1. CallerOf(g)'
          BY <1>1, <1>2, <1>4, <3>1, RecordedAre DEF CallerOf
        <4>2. WriterOf(g)'
          BY <1>1, <1>2, <1>4, <2>1, <3>1, RecordedAre DEF WriterOf, Writes
        <4> QED
          BY <4>1, <4>2
      <3>2. CASE g = f
        BY <1>3, <1>4, <1>7, <3>2 DEF CallerOf, WriterOf
      <3> QED
        BY <3>1, <3>2
    <2>3. (history.open \subseteq {Ref(journal.pending)})'
      BY <1>1, <1>4, RecordedAre
    <2> QED
      BY <1>4, <2>2, <2>3, RecordedFrom
  <1>13. IssuerInv'
    <2>1. ASSUME NEW g \in Flows, Issuing(g)'
          PROVE  /\ g # f /\ Issuing(g) /\ flow'[g] = flow[g]
                 /\ OnlyIssues(p, a, flow[g].pending.id) /\ flow[g].pending.id # 0
      <3>1. g # f /\ flow'[g] = flow[g]
        BY <1>2, <1>7, <2>1
      <3>2. Issuing(g)
        BY <2>1, <3>1 DEF Issuing
      <3> QED
        BY <3>1, <3>2, IssuersAre DEF IssuerInv
    <2>2. ASSUME NEW g \in Flows, Issuing(g)'
          PROVE  /\ OnlyIssues(journal.pending, journal.anchor, flow[g].pending.id)'
                 /\ registry'.receipts[flow'[g].pending.id] =
                        IF flow'[g].at \in {"prepared", "moved"} THEN "prepared" ELSE "none"
                 /\ flow'[g].at = "prepared" => registry'.selected = 0
                 /\ flow'[g].at = "moved" => registry'.selected = flow'[g].pending.id
                 /\ flow'[g].anchor.id # flow'[g].pending.id
      BY <1>1, <1>4, <2>1, <2>2 DEF IssuerInv, OnlyIssues
    <2>3. ASSUME NEW g \in Flows, Issuing(g)', NEW h \in Flows \ {g}
          PROVE  /\ OnlyIssues(flow[h].pending, flow[h].anchor, flow[g].pending.id)'
                 /\ flow'[h].act = flow'[g].pending.id => flow'[h].pending.id = flow'[g].pending.id
                 /\ flow'[h].pending.id = flow'[g].pending.id => ~Issuing(h)'
      <3>1. CASE h = f
        BY <1>3, <1>7, <2>1, <2>3, <3>1 DEF OnlyIssues
      <3>2. CASE h # f
        <4>1. flow'[h] = flow[h] /\ (Issuing(h)' => Issuing(h))
          BY <1>2, <3>2 DEF Issuing
        <4> QED
          BY <2>1, <2>3, <4>1 DEF IssuerInv, OnlyIssues
      <3> QED
        BY <3>1, <3>2
    <2> QED
      BY <2>2, <2>3 DEF IssuerInv
  <1>14. ReceiptsInv'
    BY <1>1, <1>2, <1>7 DEF ReceiptsInv, SelectionIsReversible, Calling
  <1>15. StartedInv'
    <2>1. Starting' => s.at = "resume"
      BY <1>1, <1>2, <1>8 DEF Starting, Calling
    <2>2. s.at = "resume" => Starting
      BY <1>3 DEF Starting
    <2> QED
      BY <1>1, <1>2, <2>1, <2>2 DEF StartedInv
  <1>16. KnownInv'
    <2>1. ASSUME ~history.whole, ~history.overtaken
          PROVE  Knows(p, a) /\ \A g \in Flows : g # f => flow[g].at = "none"
      BY <1>1, <2>1 DEF KnownInv, FlowsInv
    <2> QED
      BY <1>1, <1>2, <1>3, <1>4, <1>7, <2>1 DEF KnownInv, Knows
  <1>17. SessionInv'
    <2>1. ~history.overtaken => \A g \in Flows : g # f => flow[g].at = "none"
      BY <1>1 DEF FlowsInv
    <2> QED
      BY <1>1, <1>2, <1>5, <1>7, <2>1 DEF SessionInv
  <1> QED
    BY <1>6, <1>9, <1>10, <1>11, <1>12, <1>13, <1>14, <1>15, <1>16, <1>17 DEF UpdateInv

-----------------------------------------------------------------------------
(* The invariant, for the update as a whole. *)

\* A desktop that never ran an update has nothing on record and nothing selected.
LEMMA InitHolds == ASSUME Init PROVE UpdateInv
  <1>1. \A f \in Flows : flow[f] = Blank
    BY Zenon DEF Init
  <1>2. /\ registry.selected = 0 /\ \A i \in Ids : registry.receipts[i] = "none"
        /\ registry \in Registries
    <2>1. registry = [selected |-> 0, receipts |-> [i \in Ids |-> "none"],
                      bindings |-> [i \in Ids |-> "none"]]
      BY DEF Init
    <2> QED
      BY <2>1, LimitsAssumption, SMT DEF Registries, Receipts, Bindings
  <1>3. /\ journal \in Journals /\ journal.pending = NoOp /\ journal.anchor = NoOp
        /\ journal.fresh = {}
    <2>1. journal = [pending |-> NoOp, anchor |-> NoOp, fresh |-> {}]
      BY DEF Init
    <2> HIDE DEF NoOp
    <2> QED
      BY <2>1, NoOpIs, SMT DEF Journals
  <1>4. /\ session \in SessionStates /\ remote \in Remotes /\ remote.out = {}
        /\ history \in Histories /\ history.open = {} /\ ~history.whole
        /\ history.moot = {} /\ ~history.overtaken
        /\ used \in Uses /\ nextId \in 1 .. MaxOps + 1 /\ nextId = 1
    <2>1. session \in SessionStates
      BY SMT DEF Init, SessionStates
    <2>2. remote \in Remotes /\ remote.out = {}
      BY LimitsAssumption, SMT DEF Init, Remotes
    <2>3. /\ history \in Histories /\ history.open = {} /\ history.moot = {}
      BY SMT DEF Init, Histories
    <2>4. used \in Uses /\ nextId \in 1 .. MaxOps + 1 /\ nextId = 1
      BY LimitsAssumption, SMT DEF Init, Uses
    <2>5. ~history.whole /\ ~history.overtaken
      BY Zenon DEF Init
    <2> QED
      BY <2>1, <2>2, <2>3, <2>4, <2>5
  <1>5. published = NoFlow /\ host = "down" /\ runtime = 0
    BY DEF Init
  <1>6. \A f \in Flows : /\ flow[f].at = "none" /\ flow[f].at \notin Calling
                         /\ flow[f].pending = NoOp /\ flow[f].anchor = NoOp
                         /\ flow[f].act = 0 /\ flow[f].index = 0 /\ ~flow[f].backup
                         /\ flow[f] \in FlowStates /\ ~Issuing(f)
    BY <1>1, BlankIs, CallingPlaces DEF CallingAre, Issuing
  <1>7. TypeOK
    <2>1. flow \in [Flows -> FlowStates]
      BY BlankIs, Zenon DEF Init
    <2>2. runtime \in 0 .. MaxOps
      BY <1>5, LimitsAssumption, SMT
    <2> QED
      BY <1>2, <1>3, <1>4, <1>5, <2>1, <2>2, TypeIs
  <1>8. IdentitiesInv
    <2>1. Minted(NoOp) /\ NamesMinted(NoOp, NoOp)
      BY NoOpIs, KindsAre, Zenon DEF Minted, NamesMinted
    <2>2. \A f \in Flows : flow[f].act < nextId
      BY <1>4, <1>6, SMT
    <2> QED
      BY <1>2, <1>3, <1>4, <1>6, <2>1, <2>2 DEF IdentitiesInv
  <1>9. FlowsInv
    BY <1>1, <1>5, <1>6 DEF FlowsInv
  <1>10. Established(NoOp, NoOp)
    BY NoOpIs, KindsAre DEF Established
  <1>11. EvidenceInv
    <2>1. \A f \in Flows : ~(flow[f].index >= 2) /\ ~(flow[f].index >= 4) /\ ~(flow[f].index >= 5)
      BY <1>6, SMT
    <2>2. \A f \in Flows : /\ flow[f].pending.kind = "none"
                           /\ flow[f].pending.kind \notin LocalKinds
      BY <1>6, NoOpIs, KindsAre
    <2> QED
      BY <1>2, <1>3, <1>6, <1>10, <2>1, <2>2 DEF EvidenceInv
  <1>12. RecordedInv
    BY <1>3, <1>4, <1>6 DEF RecordedInv
  <1>13. IssuerInv
    BY <1>6 DEF IssuerInv
  <1>14. ReceiptsInv
    BY <1>2, <1>6 DEF ReceiptsInv, SelectionIsReversible, Unconfirmed
  <1>15. StartedInv
    BY <1>2, <1>5, <1>6 DEF StartedInv, Starting
  <1>16. KnownInv
    BY <1>2, <1>6 DEF KnownInv, Knows
  <1>17. SessionInv
    BY <1>3, <1>6 DEF SessionInv
  <1> QED
    BY <1>7, <1>8, <1>9, <1>11, <1>12, <1>13, <1>14, <1>15, <1>16, <1>17, PartsAre

LEMMA StutterKeeps == ASSUME UpdateInv, UNCHANGED vars PROVE UpdateInv'
  <1> USE DEF vars
  <1>1. TypeOK'
    BY TypeIs DEF UpdateInv, TypeOK
  <1>2. IdentitiesInv' /\ FlowsInv'
    BY DEF UpdateInv, IdentitiesInv, FlowsInv, NamesMinted, Minted
  <1>3. EvidenceInv' /\ RecordedInv'
    BY DEF UpdateInv, EvidenceInv, RecordedInv, Established, SourceKept
  <1>4. IssuerInv' /\ ReceiptsInv'
    BY DEF UpdateInv, IssuerInv, ReceiptsInv, Issuing, SelectionIsReversible
  <1>5. StartedInv' /\ KnownInv' /\ SessionInv'
    BY DEF UpdateInv, StartedInv, KnownInv, SessionInv, Starting, Knows, Issuing, Settled
  <1> QED
    BY <1>1, <1>2, <1>3, <1>4, <1>5 DEF UpdateInv

LEMMA FlowStepKeeps == ASSUME UpdateInv, NEW f \in Flows, FlowStep(f) PROVE UpdateInv'
  <1>1. CASE Compose(f)
    BY <1>1, ComposeKeeps
  <1>2. CASE ~Compose(f)
    <2>1. Classes(f)
      BY <1>2, FlowStepIs, PartsAre
    <2>2. CASE Reads(f)
      BY <2>2, ReadsKeep
    <2>3. CASE Verifies(f)
      BY <2>3, VerifiesKeep
    <2>4. CASE Retires(f)
      BY <2>4, RetiresKeep
    <2>5. CASE Concludes(f)
      BY <2>5, ConcludesKeep
    <2>6. CASE Moves(f)
      BY <2>6, MovesKeep
    <2>7. ASSUME NEW kind, NEW id, Calls(f, kind, id) PROVE UpdateInv'
      BY <2>7, CallsKeep
    <2> QED
      BY <2>1, <2>2, <2>3, <2>4, <2>5, <2>6, <2>7 DEF Classes
  <1> QED
    BY <1>1, <1>2

LEMMA NextKeeps == ASSUME UpdateInv, [Next]_vars PROVE UpdateInv'
  <1>1. ASSUME NEW f \in Flows, FlowStep(f) PROVE UpdateInv'
    BY <1>1, FlowStepKeeps
  <1>2. ASSUME NEW r \in remote.out, Arrives(r) PROVE UpdateInv'
    BY <1>2, ArrivesKeeps
  <1>3. CASE StartServer
    BY <1>3, StartServerKeeps
  <1>4. CASE ConfirmSelected
    BY <1>4, ConfirmSelectedKeeps
  <1>5. CASE CompositionFails
    BY <1>5, CompositionFailsKeeps
  <1>6. CASE Reconnect
    BY <1>6, ReconnectKeeps
  <1>7. CASE Crash \/ RestartDesktop
    BY <1>7, CrashKeeps
  <1>8. CASE UNCHANGED vars
    BY <1>8, StutterKeeps
  <1> QED
    BY <1>1, <1>2, <1>3, <1>4, <1>5, <1>6, <1>7, <1>8 DEF Next

\* Whatever the calls, the lost answers, the failing writes, the reconnects and the
\* crashes of an update are, the journal, the session record, the registry and the
\* flows of the process stay in step as UpdateInv says: an identity is recorded
\* before its call, one instance writes the journal, evidence precedes the stage
\* that relies on it, and a selected candidate is known to whoever may act on it.
THEOREM UpdateInvariant == Spec => []UpdateInv
  <1>1. Init => UpdateInv
    BY InitHolds
  <1>2. UpdateInv /\ [Next]_vars => UpdateInv'
    BY NextKeeps
  <1> QED
    BY <1>1, <1>2, PTL DEF Spec

\* The flow, the journal, the session record, the registry and the remote host keep
\* their shapes, and no more identities are minted than there are.
THEOREM UpdateTypeCorrect == Spec => []TypeOK
  <1>1. UpdateInv => TypeOK
    BY PartsAre
  <1> QED
    BY <1>1, UpdateInvariant, PTL

\* _issue_locked records an identity before the port is called, and nothing that
\* happens while the call is out puts another identity on record.
THEOREM UpdateInFlightIsRecorded == Spec => []InFlightIsRecorded
  <1>1. UpdateInv => InFlightIsRecorded
    <2> SUFFICES ASSUME UpdateInv, NEW f \in Flows, published = f, flow[f].at \in Calling
                 PROVE  journal.pending = flow[f].pending
      BY DEF InFlightIsRecorded
    <2>1. CallerOf(f)
      BY RecordedAre, PartsAre
    <2> QED
      BY <2>1 DEF CallerOf
  <1> QED
    BY <1>1, UpdateInvariant, PTL

\* An identity that may have had an effect and has no outcome is the one on record,
\* although a flow that a reconnect retired may still be inside its call.
THEOREM UpdateOpenIsRecorded == Spec => []OpenIsRecorded
  <1>1. UpdateInv => OpenIsRecorded
    BY RecordedAre, PartsAre DEF OpenIsRecorded
  <1> QED
    BY <1>1, UpdateInvariant, PTL

\* Between any two file operations of an activation or a rollback, the registry
\* selects nothing that its receipt cannot take back, and one activation waits.
THEOREM UpdateSelectionIsReversible == Spec => []SelectionIsReversible
  <1>1. UpdateInv => SelectionIsReversible
    BY PartsAre DEF ReceiptsInv
  <1> QED
    BY <1>1, UpdateInvariant, PTL

\* A selected candidate of an incomplete update has its anchor, or the unsettled
\* call on it, in the journal.
THEOREM UpdateAnchorWhileSelected == Spec => []AnchorWhileSelected
  <1>1. UpdateInv => AnchorWhileSelected
    BY PartsAre, KindsAre DEF KnownInv, Knows, AnchorWhileSelected
  <1> QED
    BY <1>1, UpdateInvariant, PTL

\* The completion hook retires the session record only after the journal was
\* emptied: what is on record can be addressed by the next process.
THEOREM UpdateUnsettledIsAddressable == Spec => []UnsettledIsAddressable
  <1>1. UpdateInv => UnsettledIsAddressable
    BY PartsAre DEF SessionInv, UnsettledIsAddressable
  <1> QED
    BY <1>1, UpdateInvariant, PTL

\* The registry does not move before the source of a restore is durable.
THEOREM UpdateSourceKeptBeforeActivation == Spec => []SourceKeptBeforeActivation
  <1>1. UpdateInv => SourceKeptBeforeActivation
    BY EvidenceAre, PartsAre DEF SourceKept, SourceKeptBeforeActivation
  <1> QED
    BY <1>1, UpdateInvariant, PTL

-----------------------------------------------------------------------------
(* The update implements ManagedUpdate. *)

Covered == remote.archives # {} /\ remote.placed # 0
Final == {i \in Ids : registry.receipts[i] = "confirmed"}
Abides == [Managed!Next]_(Managed!updateVars)

\* What the host holds for the candidate is not taken away.
LEMMA CoveredStays ==
    ASSUME remote'.placed = remote.placed, remote'.archives = remote.archives
    PROVE  Covered' = Covered
  BY Zenon DEF Covered

LEMMA FinalStays ==
    ASSUME \A i \in Ids : registry'.receipts[i] = "confirmed" <=> registry.receipts[i] = "confirmed"
    PROVE  Final' = Final
  BY Zenon DEF Final

LEMMA RestsUpdate ==
    ASSUME registry'.selected = registry.selected, runtime' = runtime, Covered' = Covered,
           Final' = Final
    PROVE  Abides
  <1>1. UNCHANGED Managed!updateVars
    BY Zenon DEF Managed!updateVars, Covered, Final
  <1> QED
    BY <1>1, Zenon DEF Abides

\* A step that neither writes a receipt nor moves the registry is none of the update.
LEMMA AsideUpdate ==
    ASSUME registry' = registry, runtime' = runtime, remote'.placed = remote.placed,
           remote'.archives = remote.archives
    PROVE  Abides
  BY CoveredStays, FinalStays, RestsUpdate

LEMMA CoversUpdate ==
    ASSUME registry' = registry, runtime' = runtime, Covered' \/ ~Covered
    PROVE  Abides
  <1>1. Final' = Final
    BY FinalStays
  <1>2. CASE Covered'
    <2>1. Covered' = TRUE
      BY <1>2, Zenon DEF Covered
    <2>2. Managed!Cover
      BY <1>1, <2>1, Zenon DEF Managed!Cover, Covered, Final
    <2> QED
      BY <2>2, Zenon DEF Abides, Managed!Next
  <1>3. CASE ~Covered'
    <2>1. Covered' = Covered
      BY <1>3, Zenon DEF Covered
    <2> QED
      BY <1>1, <2>1, RestsUpdate
  <1> QED
    BY <1>2, <1>3

\* The registry moves to a candidate only from the previous server, with a verified
\* backup and a staged candidate, and never to one that was kept before.
LEMMA SelectsUpdate ==
    ASSUME NEW id \in Ids, Covered, Covered' = Covered, registry.selected = 0, id \notin Final,
           registry'.selected = id, runtime' = runtime, Final' = Final
    PROVE  Abides
  <1>1. Managed!Select(id)
    BY Zenon DEF Managed!Select, Covered, Final
  <1> QED
    BY <1>1, Zenon DEF Abides, Managed!Next

LEMMA UndoesUpdate ==
    ASSUME registry.selected \notin Final, Covered' = Covered, registry'.selected = 0,
           runtime' = runtime, Final' = Final
    PROVE  Abides
  <1>1. Managed!Undo
    BY Zenon DEF Managed!Undo, Covered, Final
  <1> QED
    BY <1>1, Zenon DEF Abides, Managed!Next

LEMMA MovesUpdate == ASSUME UpdateInv, NEW f \in Flows, Moves(f) PROVE Abides
  <1> DEFINE id == flow[f].pending.id
  <1> USE PartsAre
  <1>1. /\ runtime' = runtime /\ Touches(f) /\ Covered' = Covered
        /\ id \in Ids /\ id # 0 /\ flow[f].at \in Calling
    <2>1. /\ UNCHANGED <<published, host, runtime, journal, nextId>> /\ Sends /\ Touches(f)
          /\ flow[f].at \in Calling
      BY DEF Moves
    <2>2. id \in Ids
      BY <2>1, InsideIs
    <2> QED
      BY <2>1, <2>2, CoveredStays, IdsAre DEF Sends
  <1>2. \A i \in Ids : i # id => registry'.receipts[i] = registry.receipts[i]
    BY <1>1 DEF Touches
  <1>3. ASSUME registry.receipts[id] # "confirmed", registry'.receipts[id] # "confirmed"
        PROVE  Final' = Final
    BY <1>2, <1>3, FinalStays
  <1>4. ASSUME registry'.receipts = registry.receipts
        PROVE  Final' = Final
    BY <1>4, FinalStays
  <1>5. CASE SameFiles
    BY <1>1, <1>4, <1>5, RestsUpdate DEF SameFiles
  <1>6. CASE /\ flow[f].pending.kind = "issue" /\ flow[f].at = "marked"
             /\ registry.selected = 0 /\ registry'.selected = 0
             /\ registry'.receipts[id] = "prepared"
    <2>1. registry.receipts[id] = "none"
      BY <1>6 DEF IssuerInv, Issuing
    <2> QED
      BY <1>1, <1>3, <1>6, <2>1, RestsUpdate
  <1>7. CASE /\ flow[f].pending.kind = "issue" /\ flow[f].at = "prepared"
             /\ registry'.selected = id /\ registry'.receipts = registry.receipts
    <2>1. registry.receipts[id] = "prepared" /\ registry.selected = 0
      BY <1>7 DEF IssuerInv, Issuing
    <2>2. Covered
      <3>1. flow[f].pending.kind \in LocalKinds
        BY <1>7, KindsAre
      <3>2. flow[f].index >= 5
        BY <3>1, EvidenceAre DEF EvidenceOf, Pinned
      <3>3. flow[f].index \in 0 .. 7
        BY FlowType, StateType
      <3>4. flow[f].index >= 2 /\ flow[f].index >= 4
        BY <3>2, <3>3, SMT
      <3> QED
        BY <3>4, EvidenceAre DEF EvidenceOf, Reached, Covered
    <2>3. id \notin Final
      BY <2>1 DEF Final
    <2> QED
      BY <1>1, <1>4, <1>7, <2>1, <2>2, <2>3, SelectsUpdate
  <1>8. CASE /\ flow[f].pending.kind = "issue" /\ flow[f].at = "moved"
             /\ registry'.selected = registry.selected /\ registry'.receipts[id] = "pending"
    <2>1. registry.receipts[id] = "prepared"
      BY <1>8 DEF IssuerInv, Issuing
    <2> QED
      BY <1>1, <1>3, <1>8, <2>1, RestsUpdate
  <1>9. CASE /\ registry.selected = id /\ registry'.selected = 0
             /\ registry'.receipts = registry.receipts
             /\ registry.receipts[id] \in Unconfirmed \cup {"restored"}
    <2>1. registry.selected \notin Final
      BY <1>9 DEF Final, Unconfirmed
    <2> QED
      BY <1>1, <1>4, <1>9, <2>1, UndoesUpdate
  <1>10. CASE /\ flow[f].at = "restoring"
              /\ registry'.selected = registry.selected /\ registry'.receipts[id] = "restored"
    <2>1. registry.receipts[id] \in Unconfirmed \cup {"restored"}
      BY <1>10 DEF ReceiptsInv
    <2>2. registry.receipts[id] # "confirmed"
      BY <2>1 DEF Unconfirmed
    <2> QED
      BY <1>1, <1>3, <1>10, <2>2, RestsUpdate
  <1> QED
    BY <1>1, <1>5, <1>6, <1>7, <1>8, <1>9, <1>10 DEF Touches

LEMMA FlowStepUpdate == ASSUME UpdateInv, NEW f \in Flows, FlowStep(f) PROVE Abides
  <1>1. CASE Compose(f)
    BY <1>1, AsideUpdate DEF Compose
  <1>2. CASE ~Compose(f)
    <2>1. Classes(f)
      BY <1>2, FlowStepIs, PartsAre
    <2>2. CASE Reads(f) \/ Verifies(f) \/ Retires(f)
      BY <2>2, AsideUpdate DEF Reads, Verifies, Retires
    <2>3. CASE Concludes(f)
      BY <2>3, AsideUpdate DEF Concludes, Stays, RemoteKeeps
    <2>4. CASE Moves(f)
      BY <2>4, MovesUpdate
    <2>5. ASSUME NEW kind, NEW id, Calls(f, kind, id) PROVE Abides
      BY <2>5, AsideUpdate DEF Calls, Issues
    <2> QED
      BY <2>1, <2>2, <2>3, <2>4, <2>5 DEF Classes
  <1> QED
    BY <1>1, <1>2

LEMMA StartServerUpdate == ASSUME UpdateInv, StartServer PROVE Abides
  <1>1. /\ runtime' = registry.selected /\ registry' = registry
        /\ remote'.placed = remote.placed /\ remote'.archives = remote.archives
    BY PartsAre, OwnerSet DEF StartServer, RemoteKeeps
  <1>2. Covered' = Covered /\ Final' = Final
    BY <1>1, CoveredStays, FinalStays
  <1>3. Managed!Start
    BY <1>1, <1>2, Zenon DEF Managed!Start, Covered, Final
  <1> QED
    BY <1>3, Zenon DEF Abides, Managed!Next

\* The start confirms nothing but what it runs from.
LEMMA ConfirmSelectedUpdate == ASSUME UpdateInv, ConfirmSelected PROVE Abides
  <1> DEFINE id == registry.selected
  <1>1. /\ host = "serving" /\ runtime' = runtime /\ remote' = remote
    BY DEF ConfirmSelected
  <1>2. /\ registry'.selected = id
        /\ \A i \in Ids : registry'.receipts[i] =
               IF i = id /\ registry.receipts[i] \in Unconfirmed
               THEN "confirmed" ELSE registry.receipts[i]
    BY PartsAre, ConfirmSelectedIs
  <1>3. Covered' = Covered
    BY <1>1, CoveredStays
  <1>4. runtime = id /\ id \in 0 .. MaxOps
    BY <1>1, PartsAre, TypeIs DEF StartedInv, Registries
  <1>5. CASE id = 0
    <2>1. id \notin Ids
      BY <1>5, IdsAre
    <2>2. Final' = Final
      BY <1>2, <2>1, FinalStays
    <2> QED
      BY <1>1, <1>2, <1>3, <2>2, RestsUpdate
  <1>6. CASE id # 0
    <2>1. id \in Ids
      BY <1>4, <1>6, SMT DEF Ids
    <2>2. registry.receipts[id] \in Unconfirmed \cup {"confirmed"}
      BY <1>6, PartsAre DEF ReceiptsInv, SelectionIsReversible, Unconfirmed
    <2>3. Final' = Final \cup {id}
      BY <1>2, <2>1, <2>2 DEF Final
    <2>4. Managed!Confirm
      BY <1>1, <1>2, <1>3, <1>4, <1>6, <2>3, Zenon DEF Managed!Confirm, Covered, Final
    <2> QED
      BY <2>4, Zenon DEF Abides, Managed!Next
  <1> QED
    BY <1>5, <1>6

LEMMA NextUpdate == ASSUME UpdateInv, [Next]_vars PROVE Abides
  <1>1. ASSUME NEW f \in Flows, FlowStep(f) PROVE Abides
    BY <1>1, FlowStepUpdate
  <1>2. ASSUME NEW r \in remote.out, Arrives(r) PROVE Abides
    <2>1. /\ remote.placed # 0 => remote'.placed # 0
          /\ remote.archives # {} => remote'.archives # {}
          /\ registry' = registry /\ runtime' = runtime
      BY <1>2, PartsAre, ArrivesIs DEF IdentitiesInv
    <2>2. Covered' \/ ~Covered
      BY <2>1 DEF Covered
    <2> QED
      BY <2>1, <2>2, CoversUpdate
  <1>3. CASE StartServer
    BY <1>3, StartServerUpdate
  <1>4. CASE ConfirmSelected
    BY <1>4, ConfirmSelectedUpdate
  <1>5. CASE CompositionFails
    BY <1>5, AsideUpdate DEF CompositionFails
  <1>6. CASE Reconnect
    <2>1. RemoteKeeps /\ registry' = registry /\ runtime' = runtime
      BY <1>6, PartsAre, OwnerSet DEF Reconnect
    <2> QED
      BY <2>1, AsideUpdate DEF RemoteKeeps
  <1>7. CASE Crash \/ RestartDesktop
    <2>1. Down
      BY <1>7 DEF Crash, RestartDesktop
    <2>2. registry' = registry /\ runtime' = runtime
      BY <2>1 DEF Down
    <2>3. remote'.placed = remote.placed /\ remote'.archives = remote.archives
      BY <2>1, PartsAre, TypeIs, SMT DEF Down, Remotes
    <2> QED
      BY <2>2, <2>3, AsideUpdate
  <1>8. CASE UNCHANGED vars
    BY <1>8, AsideUpdate DEF vars
  <1> QED
    BY <1>1, <1>2, <1>3, <1>4, <1>5, <1>6, <1>7, <1>8 DEF Next

\* The selection moves only to a covered candidate, is final only for one that a
\* process runs from, and is never undone after that: whichever call, restart or
\* crash comes in between.
THEOREM UpdateImplementsManagedUpdate == Spec => ImplementsManagedUpdate
  <1>1. Init => Managed!Init
    <2> SUFFICES ASSUME Init PROVE Managed!Init
      OBVIOUS
    <2>1. registry.selected = 0 /\ \A i \in Ids : registry.receipts[i] = "none"
      <3>1. registry = [selected |-> 0, receipts |-> [i \in Ids |-> "none"],
                        bindings |-> [i \in Ids |-> "none"]]
        BY DEF Init
      <3> QED
        BY <3>1, SMT
    <2>2. Final = {}
      BY <2>1 DEF Final
    <2>3. remote.archives = {}
      BY SMT DEF Init
    <2>4. Covered = FALSE
      BY <2>3, Zenon DEF Covered
    <2>5. runtime = 0
      BY DEF Init
    <2> QED
      BY <2>1, <2>2, <2>4, <2>5, Zenon DEF Managed!Init, Covered, Final
  <1>2. UpdateInv /\ [Next]_vars => [Managed!Next]_(Managed!updateVars)
    BY NextUpdate DEF Abides
  <1> QED
    BY <1>1, <1>2, UpdateInvariant, PTL DEF Spec, ImplementsManagedUpdate, Managed!Spec
=============================================================================
