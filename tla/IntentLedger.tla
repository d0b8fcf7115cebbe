---------------------------- MODULE IntentLedger ----------------------------
(***************************************************************************)
(* What keyed intents on a Task promise to the one who sends them, with    *)
(* calls, retries, journals and restarts left out.  An intent is accepted  *)
(* at most once, and only at the revision it was expressed against; one    *)
(* that is reported accepted was, and one that is reported stale never is. *)
(***************************************************************************)
EXTENDS Naturals

CONSTANTS Intents,  \* records with a key, the revision they are expressed
                    \* against, and whatever else they ask for
          Statuses, \* the statuses of a Task
          First     \* the status a Task is created with

VARIABLES revision, \* of the Task
          status,
          asked,    \* the intents expressed so far
          accepted, \* those in force, for good
          applied,  \* those reported accepted to who expressed them
          stale     \* those reported stale

ledgerVars == <<revision, status, asked, accepted, applied, stale>>

Init ==
    /\ revision = 0 /\ status = First
    /\ asked = {} /\ accepted = {} /\ applied = {} /\ stale = {}

\* An intent has a key of its own.
Ask(q) ==
    /\ \A p \in asked : p.key # q.key
    /\ asked' = asked \cup {q}
    /\ UNCHANGED <<revision, status, accepted, applied, stale>>

Accept(q) ==
    /\ q.revision = revision
    /\ q \notin accepted \cup stale
    /\ accepted' = accepted \cup {q}
    /\ \/ /\ revision' = revision + 1
          /\ status' \in Statuses \ {status}
       \/ UNCHANGED <<revision, status>>
    /\ UNCHANGED <<asked, applied, stale>>

\* The Task is changed by someone else.
Change ==
    /\ revision' = revision + 1
    /\ status' \in Statuses
    /\ UNCHANGED <<asked, accepted, applied, stale>>

ReportAccepted(q) ==
    /\ q \in accepted
    /\ applied' = applied \cup {q}
    /\ UNCHANGED <<revision, status, asked, accepted, stale>>

ReportStale(q) ==
    /\ q \notin accepted
    /\ stale' = stale \cup {q}
    /\ UNCHANGED <<revision, status, asked, accepted, applied>>

Next ==
    \/ Change
    \/ \E q \in asked' \cap Intents : Ask(q)
    \/ \E q \in asked : Accept(q) \/ ReportAccepted(q) \/ ReportStale(q)

Spec == Init /\ [][Next]_ledgerVars
=============================================================================
