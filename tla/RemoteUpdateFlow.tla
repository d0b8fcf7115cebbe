-------------------------- MODULE RemoteUpdateFlow --------------------------
(***************************************************************************)
(* The desktop-managed update of a remote server, with what it drives:     *)
(* the journal of its identities, the session record that lets a later     *)
(* process address them, the gate in front of its mutations, the           *)
(* connection registry with its activation receipts, and the remote host.  *)
(*                                                                         *)
(* One desktop runs one update attempt.  A flow is one composition of it:  *)
(* a restart composes a new one, and so does a reconnect, which retires    *)
(* the flow on screen and leaves a call that flow has out to end by        *)
(* itself.  A stop, a backup, a staging and a restore are requests to the  *)
(* remote host, which may take effect after the flow gave up waiting; an   *)
(* activation and a rollback are a series of local file operations, and    *)
(* one step below is one of them.  An answer may be lost at any time; a    *)
(* write that fails and a process that dies are the faults.                *)
(***************************************************************************)
EXTENDS Naturals, Sequences, FiniteSets

CONSTANTS
    Flows,         \* compositions of the flow
    NoFlow,        \* no flow is published
    Plans,         \* what a preview may say of data migration
    RestoreProves, \* TRUE: a restore reports the pre-migration data back
    MaxOps,        \* bound: operation identities minted
    MaxFaults,     \* bound: faults (an answer may be lost at any time and is none)
    MaxReconnects  \* bound: reconnects within one process

ASSUME FlowsAssumption == Flows # {} /\ NoFlow \notin Flows
ASSUME PlansAssumption == Plans # {} /\ Plans \subseteq {"no", "yes", "unknown"}
ASSUME LimitsAssumption ==
    /\ RestoreProves \in BOOLEAN
    /\ MaxOps \in Nat
    /\ MaxFaults \in Nat
    /\ MaxReconnects \in Nat

VARIABLES
    flow,      \* the state of each composition
    published, \* the flow on screen, or NoFlow
    host,      \* how far the desktop has started
    runtime,   \* the selection this desktop process was started from
    journal,   \* the journal, and the instances that observed its last record
    session,   \* the session record of the attempt
    registry,  \* the registry's selection, activation receipts and bindings
    remote,    \* the owner, requests on their way, staging, archives, restores
    nextId,    \* the next operation identity
    used,      \* faults and reconnects so far
    history    \* identities in effect without an outcome, and whether the update is whole

vars == <<flow, published, host, runtime, journal, session, registry, remote,
          nextId, used, history>>

Ids == 1 .. MaxOps

\* PREPARE_FIRST_RUN_ORDER, the order the host composes every flow with.
Order == <<"preview", "prepare", "stop", "backup", "probe", "activate", "verify">>
Position(stage) == (CHOOSE i \in 1 .. Len(Order) : Order[i] = stage) - 1

\* The kinds of MUTATIONS: those that are requests or calls in flight, and
\* those that stay on record as the anchor of an activation.
RemoteKinds == {"stop", "backup", "prepare", "restore"}
LocalKinds == {"issue", "confirm", "rollback"}
AnchorKinds == {"pending", "confirmed"}
StageOf(kind) == CASE kind \in {"stop", "backup", "prepare"} -> kind
                   [] kind = "restore" -> "backup"
                   [] OTHER -> "activate"

\* A PendingOperation: kind, identity, and whether preparation proved that the
\* previous application was kept.  0 is the identity of none.
Op(kind, id, kept) == [kind |-> kind, id |-> id, kept |-> kept]
NoOp == Op("none", 0, FALSE)
Ref(op) == <<op.kind, op.id>>

\* The published codes, down to what control tells apart.
Codes == {"plain", "unrecoverable", "restart", "recovery", "settled", "pairing"}
OpenCode(kind) == IF kind \in {"restore", "rollback"} THEN "recovery" ELSE "plain"
RefusedCode(kind) == IF kind = "confirm" THEN "restart" ELSE OpenCode(kind)

\* Where a composition is: not composed, waiting for a call of the screen, about
\* to resume at a start, or inside a call.
Calling == {"call", "wait", "bound", "marked", "prepared", "moved", "restoring"}
Places == Calling \cup {"none", "idle", "resume", "hook"}

Blank == [at |-> "none", stage |-> "run", code |-> "plain", index |-> 0,
          act |-> 0, kept |-> FALSE, restored |-> FALSE, backup |-> FALSE,
          plan |-> "unknown", pending |-> NoOp, anchor |-> NoOp,
          uncertain |-> FALSE, staged |-> 0, retained |-> FALSE,
          source |-> FALSE, owed |-> {}]

Init ==
    /\ flow = [f \in Flows |-> Blank]
    /\ published = NoFlow
    /\ host = "down"
    /\ runtime = 0
    /\ journal = [pending |-> NoOp, anchor |-> NoOp, fresh |-> {}]
    /\ session = [state |-> "absent", prepared |-> FALSE, source |-> FALSE]
    /\ registry = [selected |-> 0, receipts |-> [i \in Ids |-> "none"],
                   bindings |-> [i \in Ids |-> "none"]]
    /\ remote = [owner |-> "alive", stopper |-> 0, out |-> {}, placed |-> 0,
                 archives |-> {}, restores |-> {}]
    /\ nextId = 1
    /\ used = [faults |-> 0, reconnects |-> 0]
    /\ history = [open |-> {}, moot |-> {}, overtaken |-> FALSE, whole |-> FALSE]

Fault == /\ used.faults < MaxFaults
         /\ used' = [used EXCEPT !.faults = @ + 1]

\* A call of the screen ends: a published flow waits for the next one, and one
\* that a reconnect retired meanwhile is dropped.
Ended(f, state) == IF f = published THEN [state EXCEPT !.at = "idle"] ELSE Blank

-----------------------------------------------------------------------------
(* The start of the desktop, and the composition of a flow. *)

\* The server of the registry's selection is brought up.
StartServer ==
    /\ host = "down"
    /\ host' = "serving"
    /\ runtime' = registry.selected
    /\ remote' = [remote EXCEPT !.owner = "alive"]
    /\ UNCHANGED <<flow, published, journal, session, registry, nextId, used, history>>

Unconfirmed == {"prepared", "pending"}

\* The start confirms the receipt of the selection it brought up; a start that
\* cannot ends here.
ConfirmSelected ==
    /\ host = "serving"
    /\ host' = "open"
    /\ registry' = [registry EXCEPT !.receipts =
           [i \in Ids |-> IF i = registry.selected /\ @[i] \in Unconfirmed
                          THEN "confirmed" ELSE @[i]]]
    /\ UNCHANGED <<flow, published, runtime, journal, session, remote, nextId, used,
                   history>>

\* The furthest point that the recorded identities establish.
ResumedIndex ==
    LET anchored == IF journal.anchor = NoOp THEN 0
                    ELSE Position("activate")
                         + (IF journal.anchor.kind = "pending" THEN 0 ELSE 1)
        unsettled == IF journal.pending = NoOp THEN 0
                     ELSE Position(StageOf(journal.pending.kind))
    IN  IF anchored > unsettled THEN anchored ELSE unsettled

\* A later stage on record proves that the backup verified before the restart.
ProvenBackup == ResumedIndex > Position("backup")

\* What a flow makes of the journal it loads.
Adopted ==
    LET p == journal.pending  a == journal.anchor IN
    [Blank EXCEPT
        !.at = IF host = "open" /\ p = NoOp /\ a.kind = "pending" THEN "resume" ELSE "idle",
        !.stage = IF p # NoOp THEN "unknown" ELSE "run",
        !.code = IF p # NoOp THEN OpenCode(p.kind)
                 ELSE IF a.kind = "pending" THEN "restart" ELSE "plain",
        !.index = ResumedIndex,
        !.act = IF p.kind \in LocalKinds THEN p.id ELSE a.id,
        !.kept = p.kept \/ a.kept,
        !.backup = ProvenBackup,
        !.pending = p,
        !.anchor = a,
        !.retained = session.prepared,
        !.source = session.source]

\* The host composes a flow: the journal is loaded and the session record is
\* written before the flow is published.  Only the first composition of a start
\* resumes a pending activation.  One attempt is modelled.
Compose(f) ==
    /\ host \in {"open", "ready"}
    /\ published = NoFlow
    /\ flow[f].at = "none" /\ f = CHOOSE g \in Flows : flow[g].at = "none"
    /\ session.state # "retired"
    /\ host' = "ready"
    /\ published' = f
    /\ flow' = [flow EXCEPT ![f] = Adopted]
    /\ journal' = [journal EXCEPT !.fresh = @ \cup {f}]
    /\ session' = [session EXCEPT !.state = "open"]
    /\ UNCHANGED <<runtime, registry, remote, nextId, used, history>>

\* A start whose composition is refused, or whose session record does not land, has
\* no flow to resume: a later one is composed when the page is opened.
CompositionFails ==
    /\ host = "open"
    /\ Fault
    /\ host' = "ready"
    /\ UNCHANGED <<flow, published, runtime, journal, session, registry, remote, nextId,
                   history>>

\* A reconnect brings a server up again under a new token, which retires the
\* published flow.  A call it has out is not interrupted.
Reconnect ==
    /\ host = "ready"
    /\ published # NoFlow
    /\ used.reconnects < MaxReconnects
    /\ used' = [used EXCEPT !.reconnects = @ + 1]
    /\ published' = NoFlow
    /\ LET busy == flow[published].at \in Calling \cup {"hook"} IN
           /\ flow' = IF busy THEN flow ELSE [flow EXCEPT ![published] = Blank]
           /\ history' = [history EXCEPT !.overtaken = @ \/ busy]
    /\ remote' = [remote EXCEPT !.owner = "alive"]
    /\ UNCHANGED <<host, runtime, journal, session, registry, nextId>>

\* The process ends.  Requests on their way to the remote host go on.
Down ==
    /\ host' = "down"
    /\ published' = NoFlow
    /\ flow' = [f \in Flows |-> Blank]
    /\ journal' = [journal EXCEPT !.fresh = {}]
    /\ history' = [history EXCEPT !.moot = {}]
    /\ remote' = [remote EXCEPT !.stopper = 0]
    /\ UNCHANGED <<runtime, session, registry, nextId>>

Crash == host # "down" /\ Fault /\ Down

\* restart_desktop, offered while an activation waits for its restart.
RestartDesktop ==
    /\ published # NoFlow
    /\ flow[published].at = "idle" /\ flow[published].code = "restart"
    /\ Down
    /\ UNCHANGED used

-----------------------------------------------------------------------------
(* The journal. *)

\* Mutant: an instance replaces a record it did not observe.
RecordUnfenced(f, pending, anchor, landed, raised) ==
    /\ ~flow[f].uncertain
    /\ journal' = [pending |-> pending, anchor |-> anchor, fresh |-> {f}]
    /\ flow' = [flow EXCEPT ![f] = landed]
    /\ UNCHANGED used

\* A flow records both identities: after a landed record its state is "landed";
\* a raised one leaves "raised".  An instance that did not observe the record on
\* disk, or whose own last replace is unresolved, is refused.
Record(f, pending, anchor, landed, raised) ==
    \/ /\ f \in journal.fresh /\ ~flow[f].uncertain
       /\ journal' = [pending |-> pending, anchor |-> anchor, fresh |-> {f}]
       /\ flow' = [flow EXCEPT ![f] = landed]
       /\ UNCHANGED used
    \/ /\ IF f \in journal.fresh /\ ~flow[f].uncertain THEN Fault ELSE UNCHANGED used
       /\ flow' = [flow EXCEPT ![f] = raised]
       /\ UNCHANGED journal
    \/ /\ f \in journal.fresh /\ ~flow[f].uncertain
       /\ Fault
       /\ flow' = [flow EXCEPT ![f] = IF raised = Blank THEN Blank
                                      ELSE [raised EXCEPT !.uncertain = TRUE]]
       /\ \/ UNCHANGED journal
          \/ journal' = [pending |-> pending, anchor |-> anchor, fresh |-> {}]

\* Mutant: a record that raises does not keep the call from being made.
IssueUnrecorded(f, state, kind, id) ==
    LET issued == [state EXCEPT !.pending = Op(kind, id, state.kept), !.at = "call"] IN
    /\ Record(f, issued.pending, state.anchor, issued, issued)
    /\ UNCHANGED <<published, host, runtime, session, registry, remote, history>>

\* _issue_locked, up to the port call: the identity is recorded first, and a
\* record that raises leaves it pending in this process with nothing issued.
Issue(f, state, kind, id) ==
    LET op == Op(kind, id, state.kept) IN
    /\ Record(f, op, state.anchor,
              [state EXCEPT !.pending = op, !.at = "call"],
              Ended(f, [state EXCEPT !.pending = op]))
    /\ UNCHANGED <<published, host, runtime, session, registry, remote, history>>

IssueNew(f, state, kind) ==
    /\ nextId \in Ids
    /\ nextId' = nextId + 1
    /\ Issue(f, IF kind = "issue" THEN [state EXCEPT !.act = nextId] ELSE state,
             kind, nextId)

\* An outcome: the stage and code to publish, which record stays ("same": the
\* identity itself, "pending" or "confirmed": the anchor, "none"), and whether
\* the run order moves on.
Outcome(stage, code, keep, moves) ==
    [stage |-> stage, code |-> code, keep |-> keep, moves |-> moves]
Unsettled(kind) == Outcome("unknown", OpenCode(kind), "same", FALSE)
Refused(kind) == Outcome("failed", RefusedCode(kind), "none", FALSE)

\* _settle_locked: a kept identity stays pending, a receipt becomes the anchor,
\* and anything else releases the identity; a verified rollback ends the anchor.
Settle(f, state, outcome) ==
    LET op == state.pending
        again == Op(op.kind, op.id, state.kept)
        pending == IF outcome.keep = "same" THEN again ELSE NoOp
        anchor == IF outcome.keep \in AnchorKinds THEN Op(outcome.keep, op.id, state.kept)
                  ELSE IF op.kind = "rollback" /\ outcome.code = "settled" THEN NoOp
                  ELSE state.anchor
        settled == [state EXCEPT !.pending = pending, !.anchor = anchor]
        index == IF outcome.moves THEN Position(StageOf(op.kind)) + 1 ELSE state.index
        code == IF op.kind = "restore" /\ outcome.code = "settled" /\ state.anchor # NoOp
                THEN "pairing" ELSE outcome.code
    IN  /\ Record(f, pending, anchor,
                  Ended(f, [settled EXCEPT !.stage = outcome.stage, !.code = code,
                                           !.index = index]),
                  Ended(f, settled))
        /\ history' = IF outcome.keep = "same" THEN history
                      ELSE [history EXCEPT
                                !.open = @ \ {Ref(op)},
                                !.moot = IF \E g \in Flows \ {f} : Ref(flow[g].pending) = Ref(op)
                                         THEN @ \cup {Ref(op)} ELSE @]

-----------------------------------------------------------------------------
(* The calls of the screen.  The controller passes on only what the snapshot   *)
(* offers.                                                                     *)

Asked(f) == published = f /\ flow[f].at = "idle"
Still == UNCHANGED <<published, host, runtime, registry, remote, nextId, history>>

\* A stage that only reads publishes its answer and records nothing.
Publish(f, state) ==
    /\ flow' = [flow EXCEPT ![f] = state]
    /\ UNCHANGED <<journal, used>>
    /\ Still

\* advance and retry: the next stage of the run order, or a failed one again.
Runs(f, stage) ==
    /\ Asked(f)
    /\ flow[f].pending = NoOp /\ flow[f].anchor.kind # "pending"
    /\ flow[f].stage \notin {"ready", "cancelled"} /\ flow[f].code = "plain"
    /\ flow[f].index = Position(stage)

Failing(state, code) ==
    {[state EXCEPT !.stage = s, !.code = code] : s \in {"failed", "unknown"}}
Progressed(state, stage) ==
    [state EXCEPT !.stage = "run", !.code = "plain", !.index = Position(stage) + 1]

RunPreview(f) ==
    /\ Runs(f, "preview")
    /\ \E state \in Failing(flow[f], "plain")
                    \cup {Progressed([flow[f] EXCEPT !.plan = plan], "preview") : plan \in Plans} :
           Publish(f, state)
    /\ UNCHANGED session

RunMutation(f) ==
    /\ \/ Runs(f, "prepare") /\ IssueNew(f, flow[f], "prepare")
       \/ Runs(f, "stop") /\ IssueNew(f, flow[f], "stop")
       \/ Runs(f, "backup") /\ IssueNew(f, flow[f], "backup")
       \/ Runs(f, "activate") /\ IssueNew(f, flow[f], "issue")

\* The gate retries the evidence it is owed, under the identity it is owed for,
\* and lets a mutation pass only when all of it is durable.
GatePasses(f) == flow[f].owed = {} \/ published # NoFlow
Kept(evidence) ==
    session' = [session EXCEPT !.prepared = @ \/ "prepared" \in evidence,
                               !.source = @ \/ "source" \in evidence]
\* Mutant: evidence that is owed holds nothing up.
GatedWithoutEvidence(f) == published # NoFlow /\ Kept({})

Gated(f) == GatePasses(f) /\ Kept(flow[f].owed)

\* The candidate is read back under the staging of this process, or under the
\* evidence the session record kept.
Readable(state) == state.staged # 0 \/ state.retained

RunProbe(f) ==
    /\ Runs(f, "probe")
    /\ \/ /\ \E state \in Failing(flow[f], "plain") : Publish(f, state)
          /\ UNCHANGED session
       \/ /\ flow[f].backup /\ Gated(f) /\ Readable(flow[f])
          /\ LET passed == [flow[f] EXCEPT !.owed = {}] IN
             \E state \in Failing(passed, "plain") \cup Failing(passed, "unrecoverable")
                          \cup (IF remote.placed # 0 THEN {Progressed(passed, "probe")} ELSE {}) :
                 Publish(f, state)

\* Mutant: the hook runs although the release was not recorded.
RunVerifyRetires(f) ==
    /\ Runs(f, "verify")
    /\ Readable(flow[f])
    /\ runtime # 0 /\ registry.selected = runtime
    /\ LET ready == [flow[f] EXCEPT !.index = Len(Order), !.pending = NoOp, !.anchor = NoOp,
                                    !.stage = "ready", !.at = "hook"] IN
       Record(f, NoOp, NoOp, ready, ready)
    /\ UNCHANGED <<published, host, runtime, registry, remote, nextId, session, history>>

\* Only a runtime started from the activated selection can verify.  The anchor is
\* released before the update is called ready; a record that raises leaves the
\* flow past its last stage.
RunVerify(f) ==
    /\ Runs(f, "verify")
    /\ \/ /\ \E state \in Failing(flow[f], "plain") : Publish(f, state)
       \/ /\ Readable(flow[f])
          /\ runtime # 0 /\ registry.selected = runtime
          /\ LET released == [flow[f] EXCEPT !.index = Len(Order), !.pending = NoOp,
                                             !.anchor = NoOp] IN
             Record(f, NoOp, NoOp, [released EXCEPT !.stage = "ready", !.at = "hook"], released)
          /\ history' = [history EXCEPT !.whole = TRUE]
          /\ UNCHANGED <<published, host, runtime, registry, remote, nextId>>
    /\ UNCHANGED session

\* The completion hook retires the session record of the attempt.
RetireSession(f) ==
    /\ flow[f].at = "hook"
    /\ session' = [state |-> "retired", prepared |-> FALSE, source |-> FALSE]
    /\ Publish(f, Ended(f, flow[f]))

\* resume_after_restart: the retained receipt is confirmed on evidence that this
\* start selected it and serves the same workspace.
Resume(f) ==
    /\ flow[f].at = "resume" /\ published = f
    /\ LET id == flow[f].anchor.id
           waiting == [flow[f] EXCEPT !.at = "idle"] IN
       \/ Publish(f, waiting) /\ UNCHANGED session
       \/ /\ registry.bindings[id] # "none" /\ registry.selected # id
          /\ Publish(f, [waiting EXCEPT !.stage = "unknown", !.code = "restart"])
          /\ UNCHANGED session
       \/ /\ registry.bindings[id] # "none" /\ registry.selected = id
          /\ \/ \E state \in Failing(waiting, "unrecoverable") : Publish(f, state)
                                                                 /\ UNCHANGED session
             \/ Issue(f, waiting, "confirm", id) /\ UNCHANGED nextId

Cancel(f) ==
    /\ Asked(f)
    /\ flow[f].pending = NoOp /\ flow[f].anchor = NoOp
    /\ flow[f].stage \notin {"ready", "cancelled"}
    /\ flow[f].code \in {"plain", "unrecoverable"}
    /\ flow[f].index < Position("verify")
    /\ Publish(f, [flow[f] EXCEPT !.stage = "cancelled"])
    /\ UNCHANGED session

\* _data_migrated_locked, as far as rolling back asks: data known not migrated.
NotMigrated(state) ==
    state.restored \/ state.index <= Position("probe") \/ state.plan = "no"

Recovers(f) ==
    /\ Asked(f)
    /\ flow[f].pending = NoOp
    /\ \/ flow[f].code \in {"restart", "recovery"}
       \/ flow[f].stage \in {"failed", "unknown"} /\ flow[f].code \in {"plain", "unrecoverable"}

RestoreBackup(f) ==
    /\ Recovers(f)
    /\ flow[f].backup
    /\ IssueNew(f, flow[f], "restore")

RollbackActivation(f) ==
    /\ Recovers(f) \/ (Asked(f) /\ flow[f].pending = NoOp /\ flow[f].code = "pairing")
    /\ flow[f].act # 0 /\ flow[f].kept
    /\ flow[f].index >= Position("prepare") /\ NotMigrated(flow[f])
    /\ Issue(f, flow[f], "rollback", flow[f].act)
    /\ UNCHANGED nextId

-----------------------------------------------------------------------------
(* The port calls, after the identity is on record.  A port refuses before any *)
(* effect: its gate, its transport, or a check of its own.                     *)

CallRefused(f) ==
    /\ flow[f].at \in {"call", "bound"}
    /\ Settle(f, flow[f], Refused(flow[f].pending.kind))
    /\ UNCHANGED <<published, host, runtime, session, registry, remote, nextId>>

\* From here on the call may have an effect.  One that a retired flow makes late,
\* after its successor learned that it had none, is moot and does not count.
Begins(f) ==
    LET r == Ref(flow[f].pending) IN
    history' = IF r \in history.moot /\ f # published THEN history
               ELSE [history EXCEPT !.open = @ \cup {r}]

SendRequest(f) ==
    LET op == flow[f].pending IN
    /\ flow[f].at = "call" /\ op.kind \in RemoteKinds
    /\ op.kind = "prepare" => flow[f].staged = 0
    /\ op.kind = "restore" => flow[f].source
    /\ IF op.kind \in {"stop", "backup"}
       THEN /\ Gated(f)
            /\ flow' = [flow EXCEPT ![f].at = "wait", ![f].owed = {}]
       ELSE /\ flow' = [flow EXCEPT ![f].at = "wait"]
            /\ UNCHANGED session
    /\ remote' = [remote EXCEPT !.out = @ \cup {Ref(op)}]
    /\ Begins(f)
    /\ UNCHANGED <<published, host, runtime, journal, registry, nextId, used>>

\* A stop that confirms the exit removes the owner's receipt; one that does not
\* confirm it in time leaves the receipt of a process that ends later.
Stopped(state, id) ==
    LET awaited == \E f \in Flows :
                       flow[f].at = "wait" /\ Ref(flow[f].pending) = <<"stop", id>> IN
    IF state.owner = "released" THEN {state}
    ELSE {[state EXCEPT !.owner = "exited"],
          [state EXCEPT !.owner = "released", !.stopper = IF awaited THEN id ELSE 0]}

\* A request reaches the remote host, at any time after it was sent.  A backup and
\* a restore need the writer lease, a staging an absent directory.
Arrives(r) ==
    /\ r \in remote.out
    /\ LET gone == [remote EXCEPT !.out = @ \ {r}] IN
       remote' \in {gone} \cup
           CASE r[1] = "stop" -> Stopped(gone, r[2])
             [] r[1] = "prepare" /\ remote.placed = 0 -> {[gone EXCEPT !.placed = r[2]]}
             [] r[1] = "backup" /\ remote.owner # "alive" ->
                    {[gone EXCEPT !.archives = @ \cup {r[2]}]}
             [] r[1] = "restore" /\ remote.owner # "alive" ->
                    {[gone EXCEPT !.restores = @ \cup {r[2]}]}
             [] OTHER -> {}
    /\ UNCHANGED <<flow, published, host, runtime, journal, session, registry, nextId,
                   used, history>>

\* Evidence that this call learned is written to the session record at once; what
\* does not land is owed.
Learns(state, evidence) ==
    {[state |-> [state EXCEPT !.owed = IF lands THEN @ \ evidence ELSE @ \cup evidence],
      kept |-> IF lands THEN evidence ELSE {}] :
     lands \in IF published = NoFlow THEN {FALSE} ELSE BOOLEAN}

Progress == Outcome("run", "plain", "none", TRUE)
Failed(code) == {Outcome(s, code, "none", FALSE) : s \in {"failed", "unknown"}}

\* What the ports answer, about a request of this flow ("direct") or when asked
\* what became of an identity.  An answer is a flow state, what evidence it kept,
\* and an outcome.
Plainly(state, outcomes) ==
    {[state |-> state, kept |-> {}, outcome |-> o] : o \in outcomes}
Evidently(learnt, outcomes) ==
    {[state |-> l.state, kept |-> l.kept, outcome |-> o] : l \in learnt, o \in outcomes}

\* A stop progresses on a proven exit and two measured releases.  An observation
\* proves an exit by the owner's receipt, so it settles nothing once that is gone;
\* the answer of the stop that removed it does.
StopProves == {Progress, Refused("stop"), Unsettled("stop")}
StopObserved(state) ==
    Plainly(state,
        CASE remote.owner = "alive" ->
                 {Refused("stop"), Outcome("failed", "unrecoverable", "none", FALSE)}
          [] remote.owner = "exited" -> StopProves
          [] OTHER -> {Unsettled("stop")})
StopAnswers(state) ==
    IF remote.owner = "released" /\ remote.stopper = state.pending.id
    THEN Plainly(state, StopProves)
    ELSE StopObserved(state)

\* Mutant: any answer is taken for a verified backup.
BackupAnswersTrusting(state) ==
    Evidently(Learns([state EXCEPT !.backup = TRUE, !.source = TRUE], {"source"}), {Progress})

\* Mutant: an archive that is not there settles nothing.
BackupAnswersUnsettled(state) ==
    IF state.pending.id \in remote.archives
    THEN Evidently(Learns([state EXCEPT !.backup = TRUE, !.source = TRUE], {"source"}),
                   {Progress})
    ELSE Plainly([state EXCEPT !.backup = FALSE], {Unsettled("backup")})

BackupAnswers(state) ==
    IF state.pending.id \in remote.archives
    THEN Evidently(Learns([state EXCEPT !.backup = TRUE, !.source = TRUE], {"source"}),
                   {Progress})
    ELSE Plainly([state EXCEPT !.backup = FALSE], {Refused("backup")})

\* A verified staging also says whether the previous application was kept.
StagingVerdicts(state) ==
    Plainly([state EXCEPT !.kept = TRUE], {Progress})
    \cup Plainly([state EXCEPT !.kept = FALSE], Failed("unrecoverable"))

PrepareAnswers(state) ==
    IF remote.placed = state.pending.id
    THEN UNION {Evidently(Learns(a.state, {"prepared"}), {a.outcome}) :
                a \in StagingVerdicts([state EXCEPT !.staged = state.pending.id])}
    ELSE Plainly(state, {Refused("prepare")})

PrepareObserved(state) ==
    IF remote.placed # 0 THEN StagingVerdicts(state)
    ELSE Plainly(state, {Unsettled("prepare")})

RestoreAnswers(state) ==
    IF state.pending.id \notin remote.restores THEN Plainly(state, {Refused("restore")})
    ELSE IF RestoreProves
    THEN Plainly([state EXCEPT !.restored = TRUE], {Outcome("failed", "settled", "none", FALSE)})
    ELSE Plainly(state, {Unsettled("restore")})

\* Mutant: a pending receipt releases its identity.
IssueAnswersReleased(state) ==
    LET id == state.pending.id IN
    IF registry.receipts[id] = "pending" /\ registry.selected = id
    THEN Plainly(state, {Outcome("run", "restart", "none", FALSE)})
    ELSE Plainly(state, {Unsettled("issue")})

\* An issued activation ends pending.  Nothing written means that no receipt of
\* it exists, that it was marked as issued, and that the registry is the previous.
IssueAnswers(state) ==
    LET id == state.pending.id  receipt == registry.receipts[id] IN
    IF receipt = "none" /\ registry.bindings[id] = "issued" /\ registry.selected = 0
    THEN Plainly([state EXCEPT !.act = 0], {Refused("issue")})
    ELSE IF receipt = "pending" /\ registry.selected = id
    THEN Plainly(state, {Outcome("run", "restart", "pending", FALSE)})
    ELSE Plainly(state, {Unsettled("issue")})

ConfirmAnswers(state) ==
    LET id == state.pending.id IN
    Plainly(state, IF registry.receipts[id] = "confirmed" /\ registry.selected = id
                   THEN {Outcome("run", "plain", "confirmed", TRUE)}
                   ELSE {Unsettled("confirm")})

RollbackAnswers(state) ==
    LET id == state.pending.id  receipt == registry.receipts[id] IN
    IF receipt = "restored" /\ registry.selected = 0
    THEN Plainly([state EXCEPT !.act = 0], {Outcome("failed", "settled", "none", FALSE)})
    ELSE IF receipt = "confirmed" \/ (receipt \in Unconfirmed /\ registry.selected = id)
    THEN Plainly(state, {Refused("rollback")})
    ELSE Plainly(state, {Unsettled("rollback")})

Answered(f, answer) ==
    /\ Settle(f, answer.state, answer.outcome)
    /\ Kept(answer.kept)
    /\ UNCHANGED <<published, host, runtime, registry, nextId>>

\* The answer of a call: what happened, or a lost response.
Answer(f) ==
    LET op == flow[f].pending
        lost == IF op.kind = "prepare" THEN [flow[f] EXCEPT !.staged = op.id] ELSE flow[f] IN
    /\ flow[f].at = "wait"
    /\ \E answer \in Plainly(lost, {Unsettled(op.kind)})
                     \cup (IF Ref(op) \in remote.out THEN {} ELSE
                           CASE op.kind = "stop" -> StopAnswers(flow[f])
                             [] op.kind = "backup" -> BackupAnswers(flow[f])
                             [] op.kind = "prepare" -> PrepareAnswers(flow[f])
                             [] op.kind = "restore" -> RestoreAnswers(flow[f])
                             [] op.kind = "issue" -> IssueAnswers(flow[f])
                             [] op.kind = "confirm" -> ConfirmAnswers(flow[f])
                             [] OTHER -> RollbackAnswers(flow[f])) :
           Answered(f, answer)
    /\ remote' = [remote EXCEPT !.stopper = IF op.kind = "stop" THEN 0 ELSE @]

\* reconcile: the recorded identity is asked about, never issued again.  An
\* observation that is refused or gets no answer settles nothing.
Observable(op, state) ==
    CASE op.kind = "prepare" -> state.staged = op.id
      [] op.kind \in LocalKinds -> registry.bindings[op.id] # "none"
      [] OTHER -> TRUE

Observed(f) ==
    LET op == flow[f].pending IN
    CASE op.kind = "stop" -> StopObserved(flow[f])
      [] op.kind = "backup" -> BackupAnswers(flow[f])
      [] op.kind = "prepare" -> PrepareObserved(flow[f])
      [] op.kind = "restore" -> RestoreAnswers(flow[f])
      [] op.kind = "issue" -> IssueAnswers(flow[f])
      [] op.kind = "confirm" -> ConfirmAnswers(flow[f])
      [] OTHER -> RollbackAnswers(flow[f])

Reconcile(f) ==
    /\ Asked(f)
    /\ flow[f].pending # NoOp
    /\ Observable(flow[f].pending, flow[f])
    /\ \E answer \in Observed(f) : Answered(f, answer)
    /\ UNCHANGED remote

ObservationFails(f) ==
    /\ Asked(f)
    /\ flow[f].pending # NoOp
    /\ IF Observable(flow[f].pending, flow[f]) THEN Fault ELSE UNCHANGED used
    /\ flow' = [flow EXCEPT ![f].stage = "unknown",
                            ![f].code = OpenCode(flow[f].pending.kind)]
    /\ UNCHANGED <<journal, session>>
    /\ Still

-----------------------------------------------------------------------------
(* The activation and the rollback, one file operation at a time. *)

Holding(f, kind, at) == flow[f].at = at /\ flow[f].pending.kind = kind
Sole(id) == \A i \in Ids \ {id} : registry.receipts[i] \notin Unconfirmed
LocalStep(f, at) ==
    /\ flow' = [flow EXCEPT ![f].at = at]
    /\ UNCHANGED <<published, host, runtime, journal, remote, nextId>>

\* The candidate is another directory than the one selected, and is bound to the
\* identity before any effect.
Bind(f) ==
    LET id == flow[f].pending.id IN
    /\ Holding(f, "issue", "call")
    /\ registry.selected = 0
    /\ GatePasses(f) /\ Kept(flow[f].owed)
    /\ flow' = [flow EXCEPT ![f].at = "bound", ![f].owed = {}]
    /\ registry' = [registry EXCEPT !.bindings[id] = "bound"]
    /\ UNCHANGED <<published, host, runtime, journal, remote, nextId, used, history>>

MarkIssued(f) ==
    LET id == flow[f].pending.id IN
    /\ Holding(f, "issue", "bound")
    /\ Sole(id)
    /\ registry' = [registry EXCEPT !.bindings[id] = "issued"]
    /\ Begins(f)
    /\ LocalStep(f, "marked")
    /\ UNCHANGED <<session, used>>

\* Mutant: the receipt is written whatever became of the registry meanwhile.
WriteReceiptUnchecked(f) ==
    /\ Holding(f, "issue", "marked")
    /\ registry' = [registry EXCEPT !.receipts[flow[f].pending.id] = "prepared"]
    /\ LocalStep(f, "prepared")
    /\ UNCHANGED <<session, used, history>>

\* The receipt is written only on the registry that the candidate was built from.
WriteReceipt(f) ==
    LET id == flow[f].pending.id IN
    /\ Holding(f, "issue", "marked")
    /\ IF registry.selected = 0 /\ Sole(id)
       THEN /\ registry' = [registry EXCEPT !.receipts[id] = "prepared"]
            /\ LocalStep(f, "prepared")
            /\ UNCHANGED <<session, used, history>>
       ELSE /\ Settle(f, flow[f], Refused("issue"))
            /\ UNCHANGED <<published, host, runtime, session, registry, remote, nextId>>

ReplaceRegistry(f) ==
    /\ Holding(f, "issue", "prepared")
    /\ registry' = [registry EXCEPT !.selected = flow[f].pending.id]
    /\ LocalStep(f, "moved")
    /\ UNCHANGED <<session, used, history>>

FinishReceipt(f) ==
    /\ Holding(f, "issue", "moved")
    /\ registry' = [registry EXCEPT !.receipts[flow[f].pending.id] = "pending"]
    /\ LocalStep(f, "wait")
    /\ UNCHANGED <<session, used, history>>

\* A file operation fails: the rest of the series is not run.
LocalFails(f) ==
    /\ flow[f].at \in {"prepared", "moved", "restoring"}
    /\ Fault
    /\ LocalStep(f, "wait")
    /\ UNCHANGED <<session, registry, history>>

Confirmable(id) ==
    \/ registry.receipts[id] = "confirmed"
    \/ registry.receipts[id] \in Unconfirmed /\ registry.selected = id /\ Sole(id)

ConfirmReceipt(f) ==
    LET id == flow[f].pending.id IN
    /\ Holding(f, "confirm", "call")
    /\ registry.bindings[id] # "none" /\ Confirmable(id)
    /\ GatePasses(f) /\ Kept(flow[f].owed)
    /\ registry' = [registry EXCEPT !.receipts[id] = "confirmed"]
    /\ Begins(f)
    /\ flow' = [flow EXCEPT ![f].at = "wait", ![f].owed = {}]
    /\ UNCHANGED <<published, host, runtime, journal, remote, nextId, used>>

\* The previous registry is put back first and the receipt follows it; a rollback
\* that stopped between the two is only looked at.
Interrupted(id) == registry.receipts[id] \in Unconfirmed /\ registry.selected = 0
\* Mutant: the receipt is restored ahead of the registry.
RestoreRegistryReceiptFirst(f) ==
    LET id == flow[f].pending.id IN
    /\ Holding(f, "rollback", "call")
    /\ registry.receipts[id] \in Unconfirmed /\ registry.selected = id /\ Sole(id)
    /\ registry' = [registry EXCEPT !.receipts[id] = "restored"]
    /\ Begins(f)
    /\ LocalStep(f, "restoring")
    /\ UNCHANGED <<session, used>>

RestoreRegistry(f) ==
    LET id == flow[f].pending.id IN
    /\ Holding(f, "rollback", "call")
    /\ registry.bindings[id] # "none"
    /\ \/ registry.receipts[id] = "restored" \/ Interrupted(id)
       \/ registry.receipts[id] \in Unconfirmed /\ registry.selected = id /\ Sole(id)
    /\ registry' = [registry EXCEPT !.selected = IF @ = id THEN 0 ELSE @]
    /\ Begins(f)
    /\ LocalStep(f, IF registry.selected = id THEN "restoring" ELSE "wait")
    /\ UNCHANGED <<session, used>>

RestoreReceipt(f) ==
    /\ Holding(f, "rollback", "restoring")
    /\ registry' = [registry EXCEPT !.receipts[flow[f].pending.id] = "restored"]
    /\ LocalStep(f, "wait")
    /\ UNCHANGED <<session, used, history>>

-----------------------------------------------------------------------------
InCall(f) == \/ CallRefused(f) \/ SendRequest(f) \/ Answer(f)
             \/ Bind(f) \/ MarkIssued(f) \/ WriteReceipt(f) \/ ReplaceRegistry(f)
             \/ FinishReceipt(f) \/ LocalFails(f)
             \/ ConfirmReceipt(f) \/ RestoreRegistry(f) \/ RestoreReceipt(f)
             \/ RetireSession(f)

FlowStep(f) ==
    \/ Compose(f) \/ Resume(f)
    \/ RunPreview(f) \/ RunMutation(f) \/ RunProbe(f) \/ RunVerify(f)
    \/ Cancel(f) \/ RestoreBackup(f) \/ RollbackActivation(f)
    \/ Reconcile(f) \/ ObservationFails(f)
    \/ InCall(f)

Next ==
    \/ \E f \in Flows : FlowStep(f)
    \/ \E r \in remote.out : Arrives(r)
    \/ StartServer \/ ConfirmSelected \/ CompositionFails \/ Reconnect
    \/ Crash \/ RestartDesktop

Spec == Init /\ [][Next]_vars

-----------------------------------------------------------------------------
(* Fairness.  The desktop starts and ends its own calls, a request reaches the *)
(* host, and the operator, who is offered nothing else while an identity is    *)
(* unsettled, asks again until an answer is definite.                          *)

AskAgain(f) ==
    /\ Asked(f)
    /\ flow[f].pending # NoOp
    /\ Observable(flow[f].pending, flow[f])
    /\ \E answer \in Observed(f) : answer.outcome.keep # "same" /\ Answered(f, answer)
    /\ UNCHANGED remote

Fairness ==
    /\ WF_vars(StartServer) /\ WF_vars(ConfirmSelected)
    /\ WF_vars(\E r \in remote.out : Arrives(r))
    /\ WF_vars(\E f \in Flows : Compose(f) \/ Resume(f) \/ InCall(f))
    /\ SF_vars(\E f \in Flows : AskAgain(f))

FairSpec == Spec /\ Fairness

-----------------------------------------------------------------------------
(* Properties. *)

OpKinds == RemoteKinds \cup LocalKinds \cup AnchorKinds \cup {"none"}
AnyOp == [kind : OpKinds, id : 0 .. MaxOps, kept : BOOLEAN]
Refs == OpKinds \X (0 .. MaxOps)
FlowStates ==
    [at : Places, stage : {"run", "unknown", "failed", "ready", "cancelled"},
     code : Codes, index : 0 .. Len(Order), act : 0 .. MaxOps, kept : BOOLEAN,
     restored : BOOLEAN, backup : BOOLEAN, plan : Plans \cup {"unknown"},
     pending : AnyOp, anchor : AnyOp, uncertain : BOOLEAN, staged : 0 .. MaxOps,
     retained : BOOLEAN, source : BOOLEAN, owed : SUBSET {"prepared", "source"}]

\* Every variable keeps the shape that the code gives it.
TypeOK ==
    /\ flow \in [Flows -> FlowStates]
    /\ published \in Flows \cup {NoFlow}
    /\ host \in {"down", "serving", "open", "ready"}
    /\ runtime \in 0 .. MaxOps
    /\ journal \in [pending : AnyOp, anchor : AnyOp, fresh : SUBSET Flows]
    /\ session \in [state : {"absent", "open", "retired"}, prepared : BOOLEAN,
                    source : BOOLEAN]
    /\ registry \in [selected : 0 .. MaxOps,
                     receipts : [Ids -> {"none", "prepared", "pending", "confirmed", "restored"}],
                     bindings : [Ids -> {"none", "bound", "issued"}]]
    /\ remote \in [owner : {"alive", "exited", "released"}, stopper : 0 .. MaxOps,
                   out : SUBSET Refs, placed : 0 .. MaxOps, archives : SUBSET Ids,
                   restores : SUBSET Ids]
    /\ nextId \in 1 .. MaxOps + 1
    /\ used \in [faults : 0 .. MaxFaults, reconnects : 0 .. MaxReconnects]
    /\ history \in [open : SUBSET Refs, moot : SUBSET Refs, overtaken : BOOLEAN,
                    whole : BOOLEAN]

\* While the flow on screen is inside a call, the journal names exactly the
\* identity of that call, whatever a flow retired by a reconnect records
\* meanwhile: _issue_locked records before the port is called, and an instance
\* that did not observe the record on disk may not replace it.
InFlightIsRecorded ==
    \A f \in Flows : published = f /\ flow[f].at \in Calling =>
        journal.pending = flow[f].pending

\* An identity that may have had an effect, and whose outcome no flow learned, is
\* the one on record: a crash anywhere leaves the next process something to ask
\* about, and no retired flow and its successor record over each other.
OpenIsRecorded == history.open \subseteq {Ref(journal.pending)}

\* Whatever fails or dies between the file operations of an activation or of a
\* rollback, the registry never selects a candidate without a receipt that can
\* take it back, or one that its receipt calls restored, and at most one
\* activation waits to be confirmed.
SelectionIsReversible ==
    /\ registry.selected # 0 =>
           registry.receipts[registry.selected] \in {"prepared", "pending", "confirmed"}
    /\ \A i, j \in Ids :
           registry.receipts[i] \in Unconfirmed /\ registry.receipts[j] \in Unconfirmed => i = j

\* As long as a candidate is selected and the update is not complete, the journal
\* holds what takes it further or back: the anchor of the activation, or the
\* unsettled call on it.
AnchorWhileSelected ==
    registry.selected # 0 /\ ~history.whole /\ ~history.overtaken =>
        journal.anchor # NoOp \/ journal.pending.kind \in LocalKinds

\* A journal that names an identity is one a later process can address: the
\* session record of its attempt is still there.
UnsettledIsAddressable ==
    (journal.pending # NoOp \/ journal.anchor # NoOp) /\ ~history.overtaken =>
        session.state = "open"

\* The registry never moves before the location of the verified backup is in the
\* session record, from which a later process restores.
SourceKeptBeforeActivation ==
    registry.selected # 0 /\ ~history.whole => session.source

\* Why these hold.  UpdateInv is inductive, and its parts say what the code relies on.

\* An identity on record or in a flow was minted, and none is reused.
Minted(op) == op = NoOp \/ (op.kind # "none" /\ op.id \in 1 .. nextId - 1)
NamesMinted(pending, anchor) ==
    /\ Minted(pending) /\ pending.kind \notin AnchorKinds
    /\ Minted(anchor) /\ anchor.kind \in AnchorKinds \cup {"none"}
    /\ pending.kind = "confirm" => anchor # NoOp
IdentitiesInv ==
    /\ NamesMinted(journal.pending, journal.anchor)
    /\ \A f \in Flows : /\ NamesMinted(flow[f].pending, flow[f].anchor)
                        /\ flow[f].act < nextId
    /\ remote.out \subseteq RemoteKinds \X Ids
    /\ <<"none", 0>> \notin history.open
    /\ \A i \in Ids : i >= nextId => registry.receipts[i] = "none"

\* Flows live only while the desktop is up; a flow that is not on screen is one
\* that a reconnect left inside a call.  What a flow is at says what it holds.
FlowsInv ==
    /\ host # "ready" => \A f \in Flows : flow[f].at = "none"
    /\ published # NoFlow => flow[published].at # "none"
    /\ \A f \in Flows :
        /\ flow[f].at = "none" => flow[f] = Blank
        /\ f # published => flow[f].at \in Calling \cup {"hook", "none"}
        /\ f # published /\ ~history.overtaken => flow[f].at = "none"
        /\ flow[f].at \in Calling => flow[f].pending # NoOp
        /\ flow[f].at \in {"bound", "marked", "prepared", "moved"} =>
               flow[f].pending.kind = "issue"
        /\ flow[f].at = "restoring" => flow[f].pending.kind = "rollback"
        /\ flow[f].at = "resume" => flow[f].pending = NoOp /\ flow[f].anchor.kind = "pending"
        /\ flow[f].at = "hook" => /\ history.whole /\ flow[f].pending = NoOp
                                  /\ flow[f].stage = "ready" /\ flow[f].code = "plain"

\* The evidence that a later stage relies on: how far a flow or a record says the
\* update is, and what the remote host and the session record then hold.
SourceKept == session.source \/ history.whole
Established(pending, anchor) ==
    /\ pending.kind \in {"stop", "backup", "restore"} => remote.placed # 0
    /\ pending.kind \in LocalKinds \/ anchor # NoOp =>
           remote.placed # 0 /\ remote.archives # {} /\ SourceKept
    /\ pending.kind \in {"prepare", "stop", "backup"} => anchor = NoOp
EvidenceInv ==
    /\ Established(journal.pending, journal.anchor)
    /\ registry.selected # 0 => SourceKept
    /\ \A f \in Flows : LET s == flow[f] IN
        /\ s.index >= 2 => remote.placed # 0
        /\ s.index >= 4 => remote.archives # {}
        /\ s.index >= 5 => SourceKept
        /\ s.backup => /\ s.index >= 3 /\ remote.archives # {}
                       /\ SourceKept \/ "source" \in s.owed
        /\ s.pending.kind \in {"prepare", "stop", "backup"} =>
               s.index = Position(s.pending.kind)
        /\ s.pending.kind = "restore" => s.index >= 3
        /\ s.pending.kind \in LocalKinds \/ s.anchor # NoOp \/ s.act # 0 => s.index >= 5

\* Who may write the journal, and what a flow that may knows of it.
RecordedInv ==
    /\ history.open \subseteq {Ref(journal.pending)}
    /\ \A f \in Flows : flow[f].at \in Calling =>
        /\ f = published => journal.fresh = {f}
        /\ f \in journal.fresh => /\ ~flow[f].uncertain
                                  /\ journal.pending = flow[f].pending
        /\ Ref(flow[f].pending) \in {Ref(journal.pending)} \cup history.moot
    /\ \A f \in journal.fresh :
        flow[f].at \in {"idle", "resume", "hook"} /\ ~flow[f].uncertain
            /\ Ref(flow[f].pending) # Ref(journal.pending) =>
                /\ history.open = {}
                /\ \A g \in Flows : flow[g].at \in Calling =>
                       Ref(flow[g].pending) \in history.moot

\* An activation is written by the one flow that issued it, until it gave up or
\* everything is written: nobody else can mean the same identity.
Issuing(f) == /\ flow[f].pending.kind = "issue"
              /\ flow[f].at \in {"call", "bound", "marked", "prepared", "moved"}
OnlyIssues(pending, anchor, id) ==
    anchor.id # id /\ (pending.id = id => pending.kind = "issue")
IssuerInv ==
    \A f \in Flows : Issuing(f) =>
        LET id == flow[f].pending.id IN
        /\ OnlyIssues(journal.pending, journal.anchor, id)
        /\ registry.receipts[id] = IF flow[f].at \in {"prepared", "moved"} THEN "prepared"
                                   ELSE "none"
        /\ flow[f].at = "prepared" => registry.selected = 0
        /\ flow[f].at = "moved" => registry.selected = id
        /\ \A g \in Flows \ {f} :
            /\ OnlyIssues(flow[g].pending, flow[g].anchor, id)
            /\ flow[g].act = id => flow[g].pending.id = id
            /\ flow[g].pending.id = id => ~Issuing(g)
        /\ flow[f].anchor.id # id

\* A receipt that a rollback or a confirmation is writing.
ReceiptsInv ==
    /\ SelectionIsReversible
    /\ \A f \in Flows : LET id == flow[f].pending.id IN
        /\ flow[f].at = "restoring" =>
               registry.selected # id /\ registry.receipts[id] \in Unconfirmed \cup {"restored"}
        /\ flow[f].at \in Calling /\ flow[f].pending.kind = "confirm" =>
               registry.receipts[id] = "confirmed"

\* What a start knows of the selection that it brought up, until the first flow of
\* the start has looked at its activation.
Starting == host = "open" \/ \E f \in Flows : flow[f].at = "resume"
StartedInv ==
    /\ host \in {"serving", "open"} => runtime = registry.selected
    /\ Starting =>
           /\ registry.selected # 0 => registry.receipts[registry.selected] = "confirmed"
           /\ \A f \in Flows : flow[f].at \in {"none", "resume"}

\* Who knows of a candidate that is selected: the journal, and the flow.
Knows(pending, anchor) ==
    registry.selected # 0 => anchor # NoOp \/ pending.kind = "issue"
KnownInv ==
    ~history.whole /\ ~history.overtaken =>
        /\ Knows(journal.pending, journal.anchor)
        /\ \A f \in Flows : flow[f].at # "none" =>
            /\ Knows(flow[f].pending, flow[f].anchor)
            /\ Issuing(f) /\ flow[f].at \notin {"prepared", "moved"} =>
                   registry.selected = 0 \/ flow[f].anchor # NoOp

\* A session record is retired once nothing is left to record.
Settled(f) == /\ flow[f].pending = NoOp /\ flow[f].stage = "ready"
              /\ flow[f].code = "plain" /\ flow[f].at \in {"idle", "hook"}
SessionInv ==
    ~history.overtaken =>
        /\ session.state # "open" =>
               /\ journal.pending = NoOp /\ journal.anchor = NoOp
               /\ \A f \in Flows : flow[f].at = "none" \/ Settled(f)
        /\ session.state = "absent" => \A f \in Flows : flow[f].at = "none"
        /\ \A f \in Flows : flow[f].at = "hook" =>
               journal.pending = NoOp /\ journal.anchor = NoOp

\* At every step the journal, the session record, the registry with its receipts,
\* the remote host and the flows of the process (_issue_locked, _settle_locked,
\* resume_after_restart) agree on what was asked for and how far it got.
UpdateInv ==
    /\ TypeOK /\ IdentitiesInv /\ FlowsInv /\ EvidenceInv /\ RecordedInv /\ IssuerInv
    /\ ReceiptsInv /\ StartedInv /\ KnownInv /\ SessionInv

\* The update, for all its calls, refusals and restarts, does what ManagedUpdate
\* promises: see there.
Managed == INSTANCE ManagedUpdate WITH
    Candidates <- Ids,
    Previous <- 0,
    selected <- registry.selected,
    running <- runtime,
    covered <- remote.archives # {} /\ remote.placed # 0,
    final <- {i \in Ids : registry.receipts[i] = "confirmed"}
ImplementsManagedUpdate == Managed!Spec

\* The outcome of a stop or a backup that may have had its effect is learned in
\* the end, by the flow that issued it, by a flow composed after a reconnect, or
\* by a later process: unless the answer of a stop is lost that has removed the
\* receipt by which an observation would recognise its owner.
Unlearned == \E r \in history.open : r[1] \in {"stop", "backup"}
StopUnprovable == remote.owner = "released" /\ \E r \in history.open : r[1] = "stop"
UnknownSettles == []<>(~Unlearned \/ StopUnprovable)

\* The claim of _issue_locked: a crash between the record of an activation and its
\* outcome leaves a restart something to reconcile.  So an activation that is
\* still on record as issued when the restart has confirmed it is settled.
InterruptedActivationSettles ==
    (journal.pending.kind = "issue" /\ registry.receipts[journal.pending.id] = "confirmed")
        ~> journal.pending.kind # "issue"
=============================================================================
