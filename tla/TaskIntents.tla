---------------------------- MODULE TaskIntents ----------------------------
(***************************************************************************)
(* Keyed intents on the status of one Task, from the page to the store.    *)
(*                                                                         *)
(* The page holds two of them at most: the one of the status hook (mark as *)
(* started, and its own Undo) and the one of the Recent changes panel (the *)
(* Undo of a recorded change).  A call carries a frozen request under its  *)
(* key; the connection may break while the server still has the call, and  *)
(* the page retries with the same key.  A transaction of the server is one *)
(* step here, as the Store module shows it to be; one that raises or dies  *)
(* after its journal is written leaves the journal, which the next         *)
(* transaction replays before anything else.  External writers touch the   *)
(* documents at any time, but not this Task nor the receipts.              *)
(***************************************************************************)
EXTENDS Naturals

CONSTANTS
    Statuses,    \* the statuses a Task may have
    MaxRevision, \* bound: the revision of the Task
    MaxIntents,  \* bound: keys minted by the page
    MaxCalls,    \* bound: calls under way at a time
    MaxFaults,   \* bound: failed writes, dead servers and broken connections
    MaxEvents    \* bound: external edits, and changes of the page's owner (another
                 \* workspace and back), together

ASSUME StatusesAssumption == {"open", "started"} \subseteq Statuses
ASSUME BoundsAssumption ==
    /\ MaxRevision \in Nat /\ MaxIntents \in Nat /\ MaxCalls \in Nat
    /\ MaxFaults \in Nat /\ MaxEvents \in Nat

VARIABLES
    doc,     \* the Task, its recorded changes and the receipts
    journal, \* the target values of a commit that did not end, or NoDoc
    foreign, \* the targets of that journal hold bytes of an external writer
    sync,    \* what inspecting the other documents finds
    epoch,   \* the server process, which has a CSRF nonce of its own
    calls,   \* calls sent, and not yet answered to the page
    token,   \* the nonce the page holds
    hook,    \* the status hook
    panel,   \* the Undo of the Recent changes panel
    asked,   \* history: the intents expressed so far
    told,    \* history: what the page was told of them
    used     \* keys minted, faults and events so far

vars == <<doc, journal, foreign, sync, epoch, calls, token, hook, panel,
          asked, told, used>>

Revisions == 0 .. MaxRevision
Keys == 1 .. MaxIntents

\* A request of the hook asks for a status at a revision; one of the panel for
\* the Undo of the change with that revision.  "undoes" is the revision of the
\* change it is to reverse, 0 when it reverses none.
Requests == [key : Keys, op : {"status", "undo"}, revision : Revisions,
             status : Statuses, undoes : Revisions]
NoRequest == [key |-> 0, op |-> "status", revision |-> 0,
              status |-> "open", undoes |-> 0]

\* The planning fact of a status change, with the notice recorded with it.
Changes == [revision : Revisions, prior : Statuses, status : Statuses,
            by : Keys \cup {0}, undoes : Revisions]
Receipts == [request : Requests, revision : Revisions, status : Statuses]
Docs == [revision : Revisions, status : Statuses,
         changes : SUBSET Changes, receipts : SUBSET Receipts]
NoDoc == [revision |-> 0, status |-> "none", changes |-> {}, receipts |-> {}]

\* "broken" is the connection that ends without an answer; "ok" is 200, the
\* next three are 409, "refused" is 400 or 404, "forbidden" 403.
Conflicts == {"revision_conflict", "sync_required", "idempotency_conflict"}
Codes == {"none", "broken", "ok", "refused", "forbidden"} \cup Conflicts
Answers == [code : Codes, revision : Revisions, status : Statuses]
Without(code) == [code |-> code, revision |-> 0, status |-> "open"]
Silence == Without("none")

CallIds == 1 .. MaxCalls
Calls == [id : CallIds, from : {"hook", "panel"}, request : Requests,
          token : Nat, heard : BOOLEAN, answer : Answers]

\* What the hook offers to undo: its own change "by" that led to "revision".
Offers == [revision : Revisions, status : Statuses, by : Keys \cup {0}]
NoOffer == [revision |-> 0, status |-> "open", by |-> 0]

Verdicts == {"applied", "stale"}

TypeOK ==
    /\ doc \in Docs
    /\ journal \in Docs \cup {NoDoc}
    /\ foreign \in BOOLEAN
    /\ sync \in {"in-sync", "detected", "invalid"}
    /\ epoch \in Nat /\ token \in Nat
    /\ calls \in SUBSET Calls
    /\ hook \in [phase : {"idle", "pending", "unknown", "conflict"},
                 intent : Requests \cup {NoRequest}, attempt : CallIds \cup {0},
                 offer : Offers, latest : Revisions, born : Keys \cup {0},
                 view : [revision : Revisions, status : Statuses]]
    /\ panel \in [phase : {"none", "pending", "unknown", "undone", "conflict", "failed"},
                  intent : Requests \cup {NoRequest}, attempt : CallIds \cup {0}]
    /\ asked \in SUBSET Requests
    /\ told \in SUBSET [request : Requests, verdict : Verdicts]
    /\ used \in [minted : Keys \cup {0}, faults : Nat, events : Nat]

Init ==
    /\ doc = [revision |-> 0, status |-> "open", changes |-> {}, receipts |-> {}]
    /\ journal = NoDoc /\ foreign = FALSE /\ sync = "in-sync"
    /\ epoch = 0 /\ token = 0
    /\ calls = {}
    /\ hook = [phase |-> "idle", intent |-> NoRequest, attempt |-> 0,
               offer |-> NoOffer, latest |-> 0, born |-> 0,
               view |-> [revision |-> 0, status |-> "open"]]
    /\ panel = [phase |-> "none", intent |-> NoRequest, attempt |-> 0]
    /\ asked = {} /\ told = {}
    /\ used = [minted |-> 0, faults |-> 0, events |-> 0]

serverVars == <<doc, journal, foreign, sync, epoch>>
pageVars == <<token, hook, panel, asked, told>>

Fault == used.faults < MaxFaults /\ used' = [used EXCEPT !.faults = @ + 1]
Event == used.events < MaxEvents /\ used' = [used EXCEPT !.events = @ + 1]

-----------------------------------------------------------------------------
\* The page sends.  An attempt is one call: nothing resends it by itself.

NewCall(id, from, request) ==
    [id |-> id, from |-> from, request |-> request, token |-> token,
     heard |-> TRUE, answer |-> Silence]

Free(id) == \A c \in calls : c.id # id

\* The smallest number no call has.
IsNext(id) == Free(id) /\ \A i \in CallIds : i < id => ~Free(i)

HookSends(request) ==
    \E id \in CallIds :
        /\ IsNext(id)
        /\ calls' = calls \cup {NewCall(id, "hook", request)}
        /\ hook' = [hook EXCEPT !.phase = "pending", !.intent = request, !.attempt = id]
        /\ UNCHANGED panel

PanelSends(request) ==
    \E id \in CallIds :
        /\ IsNext(id)
        /\ calls' = calls \cup {NewCall(id, "panel", request)}
        /\ panel' = [phase |-> "pending", intent |-> request, attempt |-> id]
        /\ UNCHANGED hook

\* A key of its own for every new intent.
Mint(request) ==
    /\ used.minted < MaxIntents /\ request.revision < MaxRevision
    /\ request.key = used.minted + 1
    /\ used' = [used EXCEPT !.minted = @ + 1]
    /\ asked' = asked \cup {request}

\* One intent at a time, an unresolved one included.
HookIsFree == hook.phase \notin {"pending", "unknown"}

MarkInProgress ==
    /\ HookIsFree /\ hook.view.status = "open"
    /\ LET request == [key |-> used.minted + 1, op |-> "status",
                       revision |-> hook.view.revision, status |-> "started",
                       undoes |-> 0]
       IN Mint(request) /\ HookSends(request)
    /\ UNCHANGED <<serverVars, token, told>>

\* The offer is undoRef's, also one that no longer shows; an Undo that the page may
\* not send any more is only withdrawn.
UndoLast ==
    /\ hook.offer # NoOffer
    /\ LET request == [key |-> used.minted + 1, op |-> "status",
                       revision |-> hook.offer.revision, status |-> hook.offer.status,
                       undoes |-> hook.offer.revision]
       IN \/ HookIsFree /\ Mint(request) /\ HookSends(request)
          \/ /\ hook' = [hook EXCEPT !.offer = NoOffer]
             /\ UNCHANGED <<calls, panel, asked, used>>
    /\ UNCHANGED <<serverVars, token, told>>

\* The frozen body under the frozen key.
RetryIntent ==
    /\ hook.phase = "unknown"
    /\ HookSends(hook.intent)
    /\ UNCHANGED <<serverVars, token, asked, told, used>>

\* A row that was read from the list at any time before.
UndoNotice ==
    /\ panel.phase \notin {"pending", "unknown"}
    /\ \E n \in doc.changes :
          LET request == [key |-> used.minted + 1, op |-> "undo",
                          revision |-> n.revision, status |-> n.prior,
                          undoes |-> n.revision]
          IN Mint(request) /\ PanelSends(request)
    /\ UNCHANGED <<serverVars, token, told>>

RetryNotice ==
    /\ panel.phase = "unknown"
    /\ PanelSends(panel.intent)
    /\ UNCHANGED <<serverVars, token, asked, told, used>>
-----------------------------------------------------------------------------
\* The server.  A command ends with an answer; a call nobody waits for any more
\* is forgotten with it.

Answer(c, answer) ==
    calls' = (calls \ {c}) \cup
             (IF c.heard THEN {[c EXCEPT !.answer = answer]} ELSE {})

Accepted(D, request) ==
    [D EXCEPT !.receipts = @ \cup
        {[request |-> request, revision |-> D.revision, status |-> D.status]}]

\* append_transition and the notice, for a status that changes.
Changed(D, status, by, undoes) ==
    [D EXCEPT
        !.revision = @ + 1,
        !.status = status,
        !.changes = IF status = D.status THEN @
                    ELSE @ \cup {[revision |-> D.revision + 1, prior |-> D.status,
                                  status |-> status, by |-> by, undoes |-> undoes]}]

NoticesOf(request) == {n \in doc.changes : n.revision = request.undoes}

\* Mutant: a command is not held to the revision it was expressed against.
RefusalOfAnyRevision(request) ==
    IF request.op = "undo" /\ (NoticesOf(request) = {} \/
                               \E n \in NoticesOf(request) : n.prior = doc.status)
    THEN "refused"
    ELSE "none"

\* Why a command with an unused key is refused, "none" if it is not.
RefusalOf(request) ==
    IF request.op = "undo" /\ NoticesOf(request) = {} THEN "refused"
    ELSE IF request.revision # doc.revision THEN "revision_conflict"
    ELSE IF request.op = "undo" /\ \E n \in NoticesOf(request) : n.prior = doc.status
    THEN "refused"
    ELSE "none"

\* The values a command saves: the change, and the receipt with it.
Proposals(request) ==
    LET Moved(status) == Changed(doc, status, request.key, request.undoes)
    IN IF request.op = "undo"
       THEN {Accepted(Moved(n.prior), request) : n \in NoticesOf(request)}
       ELSE IF request.status = doc.status
       THEN {Accepted(doc, request)}
       ELSE {Accepted(Moved(request.status), request)}

Waiting(c) == c \in calls /\ c.answer = Silence

\* The nonce is compared before any transaction.
Forbid(c) ==
    /\ Waiting(c) /\ c.token # epoch
    /\ Answer(c, Without("forbidden"))
    /\ UNCHANGED <<serverVars, pageVars, used>>

\* A transaction finds a journal it may not replay.
RefuseRecovery(c) ==
    /\ Waiting(c) /\ c.token = epoch
    /\ journal # NoDoc /\ foreign
    /\ Answer(c, Without("refused"))
    /\ UNCHANGED <<serverVars, pageVars, used>>

\* Mutant: only a journal whose targets are in place is ended.
RecoverApplied ==
    /\ journal # NoDoc /\ ~foreign /\ doc = journal
    /\ journal' = NoDoc
    /\ UNCHANGED <<doc, foreign, sync, epoch, calls, pageVars, used>>

\* Every transaction, a reading one too, begins by replaying the journal.
Recover ==
    /\ journal # NoDoc /\ ~foreign
    /\ doc' = journal /\ journal' = NoDoc
    /\ UNCHANGED <<foreign, sync, epoch, calls, pageVars, used>>

Admitted(c) == Waiting(c) /\ c.token = epoch /\ journal = NoDoc

\* load() refuses while any document is invalid, and so before any receipt.
RefuseRead(c) ==
    /\ Admitted(c) /\ sync = "invalid"
    /\ Answer(c, Without("sync_required"))
    /\ UNCHANGED <<serverVars, pageVars, used>>

ReceiptsOf(request) == {r \in doc.receipts : r.request.key = request.key}

\* Mutant: the answer is what the Task is now, not what the receipt says.
ReplayCurrent(c) ==
    /\ Admitted(c) /\ sync # "invalid" /\ ReceiptsOf(c.request) # {}
    /\ Answer(c, [code |-> "ok", revision |-> doc.revision, status |-> doc.status])
    /\ UNCHANGED <<serverVars, pageVars, used>>

\* _idempotency_replay: before anything mutable is consulted.
Replay(c) ==
    /\ Admitted(c) /\ sync # "invalid"
    /\ \E r \in ReceiptsOf(c.request) :
          Answer(c, IF r.request = c.request
                    THEN [code |-> "ok", revision |-> r.revision, status |-> r.status]
                    ELSE Without("idempotency_conflict"))
    /\ UNCHANGED <<serverVars, pageVars, used>>

Fresh(c) == Admitted(c) /\ sync # "invalid" /\ ReceiptsOf(c.request) = {}

\* Mutant: the Task is consulted before the receipts.
RefuseFirst(c) ==
    /\ Admitted(c) /\ sync # "invalid" /\ RefusalOf(c.request) # "none"
    /\ Answer(c, Without(RefusalOf(c.request)))
    /\ UNCHANGED <<serverVars, pageVars, used>>

Refuse(c) ==
    /\ Fresh(c) /\ RefusalOf(c.request) # "none"
    /\ Answer(c, Without(RefusalOf(c.request)))
    /\ UNCHANGED <<serverVars, pageVars, used>>

\* save_many refuses before its journal.
RefuseSave(c) ==
    /\ Fresh(c) /\ RefusalOf(c.request) = "none" /\ sync = "detected"
    /\ Answer(c, Without("sync_required"))
    /\ UNCHANGED <<serverVars, pageVars, used>>

Saves(c) ==
    Fresh(c) /\ RefusalOf(c.request) = "none" /\ sync = "in-sync"

Commit(c) ==
    /\ Saves(c)
    /\ doc' \in Proposals(c.request)
    /\ Answer(c, [code |-> "ok", revision |-> doc'.revision, status |-> doc'.status])
    /\ UNCHANGED <<journal, foreign, sync, epoch, pageVars, used>>

\* The values are journaled, and some or all of them may be in place, when the
\* commit raises.
Journaled(target) ==
    /\ journal' = target
    /\ doc' \in {doc, target}

\* A write fails, before the journal is there or after.
CommitStops(c) ==
    /\ Saves(c) /\ Fault
    /\ \/ UNCHANGED <<doc, journal>>
       \/ \E target \in Proposals(c.request) : Journaled(target)
    /\ Answer(c, Without("broken"))
    /\ UNCHANGED <<foreign, sync, epoch, pageVars>>

\* An external writer changed a target, before it was compared with what was
\* written or after: the journal is retained, and the answer is a 4xx.
CommitRaces(c) ==
    /\ Saves(c) /\ Event
    /\ journal' \in Proposals(c.request)
    /\ foreign' = TRUE
    /\ \E code \in {"refused", "sync_required"} : Answer(c, Without(code))
    /\ UNCHANGED <<doc, sync, epoch, pageVars>>

Serve(c) ==
    \/ Forbid(c) \/ RefuseRecovery(c) \/ RefuseRead(c) \/ Replay(c)
    \/ Refuse(c) \/ RefuseSave(c) \/ Commit(c) \/ CommitStops(c) \/ CommitRaces(c)
-----------------------------------------------------------------------------
\* Other writers of the Task, and the world around the server.

\* A command without a key: the command line, or another surface of the page.
OtherCommand ==
    /\ journal = NoDoc /\ sync = "in-sync" /\ doc.revision < MaxRevision
    /\ \E status \in Statuses :
          LET target == Changed(doc, status, 0, 0)
          IN \/ doc' = target /\ UNCHANGED <<journal, used>>
             \/ Fault /\ Journaled(target)
    /\ UNCHANGED <<foreign, sync, epoch, calls, pageVars>>

\* The server dies and is started again, which replays a journal or fails: then
\* it is down until it can.  Whatever it had not sent, an answer too, is lost.
Restart ==
    /\ Fault /\ ~foreign /\ sync # "invalid"
    /\ epoch' = epoch + 1
    /\ doc' = IF journal = NoDoc THEN doc ELSE journal
    /\ journal' = NoDoc
    /\ calls' = {[c EXCEPT !.answer = Without("broken")] : c \in {d \in calls : d.heard}}
    /\ UNCHANGED <<foreign, sync, pageVars>>

EditDocuments ==
    /\ Event /\ sync' \in {"detected", "invalid"}
    /\ UNCHANGED <<doc, journal, foreign, epoch, calls, pageVars>>

\* The edit is accepted, or undone.
SettleDocuments ==
    /\ sync # "in-sync" /\ sync' = "in-sync"
    /\ UNCHANGED <<doc, journal, foreign, epoch, calls, pageVars, used>>

\* The bytes a retained journal may replace are back.
UndoForeign ==
    /\ foreign /\ foreign' = FALSE
    /\ UNCHANGED <<doc, journal, sync, epoch, calls, pageVars, used>>
-----------------------------------------------------------------------------
\* The page hears.

Tell(request, verdict) == told' = told \cup {[request |-> request, verdict |-> verdict]}

Release(phase, offer) ==
    hook' = [hook EXCEPT !.phase = phase, !.intent = NoRequest, !.attempt = 0,
                         !.offer = offer]

\* isSettledReceipt: the receipt answers the frozen intent.
Answers200(request, answer) ==
    /\ answer.code = "ok" /\ answer.status = request.status
    /\ answer.revision \in {request.revision, request.revision + 1}

\* isHistoricalReceipt: not newer than what the page already holds.
Historical(revision) == revision <= hook.latest \/ revision <= hook.view.revision

\* acceptReceipt: only a forward change that advanced the Task is reversible.
OfferAfter(request, revision) ==
    IF request.undoes = 0 /\ revision = request.revision + 1
    THEN [revision |-> revision, status |-> "open", by |-> request.key]
    ELSE NoOffer

\* The frozen body and key survive for an explicit retry.
KeepIntent == hook' = [hook EXCEPT !.phase = "unknown", !.attempt = 0]

\* What a completion means for the hook's frozen intent, when it may still act.
\* A historical receipt hides the offer on the screen and leaves the one the hook
\* would undo (undoRef) as it was.
HookSettles(answer) ==
    LET request == hook.intent
    IN \/ /\ Answers200(request, answer)
          /\ IF Historical(answer.revision)
             THEN Release("idle", hook.offer)
             ELSE hook' = [hook EXCEPT
                    !.phase = "idle", !.intent = NoRequest, !.attempt = 0,
                    !.latest = answer.revision,
                    !.offer = OfferAfter(request, answer.revision)]
          /\ Tell(request, "applied")
       \/ /\ answer.code \in Conflicts
          /\ Release("conflict", NoOffer)
          /\ IF answer.code = "revision_conflict" THEN Tell(request, "stale")
             ELSE UNCHANGED told
       \/ /\ ~Answers200(request, answer) /\ answer.code \notin Conflicts
          /\ KeepIntent
          /\ UNCHANGED told

\* Mutant: a receipt is accepted for the intent it answers, whoever waits for it.
HookHearsLate(c, answer) ==
    /\ UNCHANGED panel
    /\ IF Answers200(c.request, answer)
       THEN /\ Release("idle", OfferAfter(c.request, answer.revision))
            /\ Tell(c.request, "applied")
       ELSE UNCHANGED <<hook, told>>

\* A completion that is not the current attempt changes nothing; one the page
\* may not act on (writes are blocked by then) only releases the slot.
HookHears(c, answer) ==
    /\ UNCHANGED panel
    /\ \/ c.id = hook.attempt /\ HookSettles(answer)
       \/ c.id = hook.attempt /\ Release("idle", hook.offer) /\ UNCHANGED told
       \/ c.id # hook.attempt /\ UNCHANGED <<hook, told>>

PanelEnds(phase) == panel' = [phase |-> phase, intent |-> NoRequest, attempt |-> 0]

\* classifyMutationUndoFailure and recognizesCompensation.
PanelSettles(answer) ==
    LET request == panel.intent
        Recognized == /\ answer.status = request.status
                      /\ answer.revision = request.revision + 1
    IN \/ /\ answer.code = "ok" /\ Recognized
          /\ PanelEnds("undone") /\ Tell(request, "applied")
       \/ /\ answer.code = "revision_conflict"
          /\ PanelEnds("conflict") /\ Tell(request, "stale")
       \/ /\ answer.code \in (Conflicts \ {"revision_conflict"}) \cup {"refused", "forbidden"}
          /\ PanelEnds("failed") /\ UNCHANGED told
       \/ /\ answer.code = "broken" \/ (answer.code = "ok" /\ ~Recognized)
          /\ panel' = [panel EXCEPT !.phase = "unknown", !.attempt = 0]
          /\ UNCHANGED told

PanelHears(c, answer) ==
    /\ UNCHANGED hook
    /\ \/ c.id = panel.attempt /\ PanelSettles(answer)
       \/ c.id # panel.attempt /\ UNCHANGED <<panel, told>>

Hears(c, answer) ==
    IF c.from = "hook" THEN HookHears(c, answer) ELSE PanelHears(c, answer)

Deliver(c) ==
    /\ c \in calls /\ c.heard /\ c.answer # Silence
    /\ calls' = calls \ {c}
    /\ Hears(c, c.answer)
    /\ UNCHANGED <<serverVars, token, asked, used>>

\* The connection breaks, with the call on its way, at the server, or answered.
Lose(c) ==
    /\ c \in calls /\ c.heard /\ Fault
    /\ calls' = (calls \ {c}) \cup
                (IF c.answer = Silence THEN {[c EXCEPT !.heard = FALSE]} ELSE {})
    /\ Hears(c, Without("broken"))
    /\ UNCHANGED <<serverVars, token, asked>>

\* The page reads the workspace again.
Refresh ==
    /\ journal = NoDoc /\ sync # "invalid"
    /\ hook' = [hook EXCEPT !.view = [revision |-> doc.revision, status |-> doc.status]]
    /\ hook' # hook
    /\ UNCHANGED <<serverVars, calls, token, panel, asked, told, used>>

\* An ordinary mutation of the page meets a 403 and fetches the nonce again; a
\* single attempt does not.
RefreshToken ==
    /\ token # epoch /\ token' = epoch
    /\ UNCHANGED <<serverVars, calls, hook, panel, asked, told, used>>

\* To another workspace and back, or the notice that carries the hook goes: a
\* new lifetime, which inherits nothing.
ChangeOwner ==
    /\ Event
    /\ hook' = [hook EXCEPT !.phase = "idle", !.intent = NoRequest, !.attempt = 0,
                            !.offer = NoOffer, !.latest = 0, !.born = used.minted]
    /\ PanelEnds("none") \/ UNCHANGED panel
    /\ UNCHANGED <<serverVars, calls, token, asked, told>>

Dismiss ==
    /\ panel.phase \in {"undone", "conflict", "failed"}
    /\ PanelEnds("none")
    /\ UNCHANGED <<serverVars, calls, token, hook, asked, told, used>>
-----------------------------------------------------------------------------
Next ==
    \/ MarkInProgress \/ UndoLast \/ RetryIntent \/ UndoNotice \/ RetryNotice
    \/ Recover \/ OtherCommand \/ Restart
    \/ EditDocuments \/ SettleDocuments \/ UndoForeign
    \/ Refresh \/ RefreshToken \/ ChangeOwner \/ Dismiss
    \/ \E c \in calls : Serve(c) \/ Deliver(c) \/ Lose(c)

Spec == Init /\ [][Next]_vars

\* A call that is at the server ends and its answer arrives; the user retries
\* while an outcome is unknown, other mutations of the page go on, and external
\* bytes under a retained journal are eventually undone.
Fairness ==
    /\ \A id \in CallIds :
          WF_vars(\E c \in calls : c.id = id /\ (Serve(c) \/ Deliver(c)))
    /\ WF_vars(Recover) /\ WF_vars(UndoForeign)
    /\ WF_vars(RetryIntent) /\ WF_vars(RetryNotice) /\ WF_vars(RefreshToken)

FairSpec == Spec /\ Fairness
-----------------------------------------------------------------------------
\* Properties.

\* "n" is the change before "c", and c takes it back.
Reverses(c, n) ==
    /\ n.revision = c.undoes /\ c.revision = n.revision + 1
    /\ c.prior = n.status /\ c.status = n.prior

UndosExact(D) ==
    \A c \in D.changes : c.undoes # 0 => \E n \in D.changes : Reverses(c, n)

\* An Undo, of the hook or of the panel, reverses exactly the change it was
\* offered for: nothing happened to the Task in between, whoever else wrote it,
\* and the status of before that change is back (build_compensation and the
\* revision of the frozen body).
UndoIsExact == UndosExact(doc)

Made(D, by, revision, prior) ==
    \E c \in D.changes : c.by = by /\ c.revision = revision /\ c.prior = prior

\* What the hook offers to undo is a change of its own, made in this lifetime
\* of the page, whatever answers of an earlier one are still to come.
OfferIsItsOwn ==
    hook.offer # NoOffer =>
        /\ hook.offer.by > hook.born
        /\ Made(doc, hook.offer.by, hook.offer.revision, hook.offer.status)

Of(verdict) == {t.request : t \in {u \in told : u.verdict = verdict}}

Ledger == INSTANCE IntentLedger WITH
    Intents <- Requests, First <- "open",
    revision <- doc.revision, status <- doc.status,
    accepted <- {r.request : r \in doc.receipts},
    applied <- Of("applied"), stale <- Of("stale")

\* Whatever is lost, retried, interrupted or restarted, an intent is accepted
\* once at most, at its own revision, and the page is told "done" of accepted
\* ones only and "stale" of those that are never accepted afterwards.
ImplementsIntentLedger == Ledger!Spec

\* An intent of the hook, and one of the panel, does not stay in flight or
\* unknown: retried with its key, it ends with an answer.
IntentsSettle ==
    /\ hook.phase \in {"pending", "unknown"} ~> hook.phase \in {"idle", "conflict"}
    /\ panel.phase \in {"pending", "unknown"} ~> panel.phase \notin {"pending", "unknown"}
-----------------------------------------------------------------------------
(* The inductive invariant: why the properties hold. *)

\* Documents in one state: their changes lead to it, Undos are exact, and a
\* receipt of a mark as started that moved the Task has its change.
DocSound(D) ==
    /\ \A c \in D.changes :
          /\ c.revision # 0 /\ c.revision <= D.revision
          /\ c.revision = D.revision => c.status = D.status
    /\ UndosExact(D)
    /\ \A r \in D.receipts :
          /\ r.request \in asked
          /\ (r.request.undoes = 0 /\ r.revision = r.request.revision + 1)
                => Made(D, r.request.key, r.revision, "open")

\* E is what one command makes of D, or D.
Follows(D, E) ==
    /\ D.changes \subseteq E.changes
    /\ \/ E = D
       \/ E.revision = D.revision + 1 /\ E.receipts = D.receipts
       \/ \E q \in asked :
             /\ q.revision = D.revision
             /\ \A r \in D.receipts : r.request.key # q.key
             /\ E.receipts = D.receipts \cup
                   {[request |-> q, revision |-> E.revision, status |-> E.status]}
             /\ \/ E.revision = D.revision + 1 /\ E.status # D.status
                \/ E.revision = D.revision /\ E.status = D.status

DocumentsSound ==
    /\ DocSound(doc)
    /\ journal # NoDoc => DocSound(journal) /\ Follows(doc, journal)

\* An intent is expressed against a state the Task was in.
AskedSound ==
    \A q \in asked :
        /\ q.key <= used.minted /\ q.revision < MaxRevision
        /\ q.revision <= doc.revision
        /\ q.op = "undo" => q.undoes = q.revision /\ q.undoes # 0
        /\ q.op = "status" /\ q.undoes # 0 =>
              /\ q.undoes = q.revision
              /\ \E n \in doc.changes : n.revision = q.revision /\ n.prior = q.status
        /\ q.undoes = 0 /\ q.revision = doc.revision => doc.status = "open"

\* The Task has moved on, and q is not in force.
Dead(q) ==
    /\ q.revision < doc.revision
    /\ \A r \in doc.receipts : r.request # q

CallsSound ==
    \A c \in calls :
        /\ c.request \in asked
        /\ c.from = "hook" /\ c.id = hook.attempt => c.request = hook.intent
        /\ c.from = "panel" /\ c.id = panel.attempt => c.request = panel.intent
        /\ c.answer.code = "ok" =>
              \E r \in doc.receipts :
                 /\ r.request = c.request
                 /\ r.revision = c.answer.revision /\ r.status = c.answer.status
        /\ c.answer.code = "revision_conflict" => Dead(c.request)

Unresolved == {"pending", "unknown"}

PageSound ==
    /\ hook.view.revision <= doc.revision
    /\ hook.view.revision = doc.revision => hook.view.status = doc.status
    /\ hook.born <= used.minted
    /\ hook.attempt # 0 => hook.phase = "pending"
    /\ hook.phase \in Unresolved => hook.intent \in asked /\ hook.intent.key > hook.born
    /\ panel.attempt # 0 => panel.phase = "pending"
    /\ panel.phase \in Unresolved => panel.intent \in asked
    /\ OfferIsItsOwn
    /\ \A t \in told : t.verdict = "stale" => Dead(t.request)

\* What every step keeps: intents, calls, answers and documents agree.
IntentsInv ==
    TypeOK /\ DocumentsSound /\ AskedSound /\ CallsSound /\ PageSound
=============================================================================
