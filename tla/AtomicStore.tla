---------------------------- MODULE AtomicStore ----------------------------
(***************************************************************************)
(* What the collection Store promises about its accepted baseline, with    *)
(* the files, the lease, the processes and their crashes left out.         *)
(*                                                                         *)
(* A set of writes, once declared, stays declared until the baseline       *)
(* carries all of it; the baseline changes only by taking in the whole of  *)
(* the declared writes, or, while none are declared, by the acceptance of  *)
(* a complete candidate.                                                   *)
(***************************************************************************)
CONSTANTS Docs,   \* the documents of the roster
          Bodies  \* the bodies an accepted document may have

VARIABLES baseline, \* the accepted documents; the empty function at first
          declared  \* the writes of the commit under way; empty when none

vars == <<baseline, declared>>

Nothing == [d \in {} |-> {}]
Baselines == [Docs -> Bodies]
WriteSets == (UNION {[S -> Bodies] : S \in SUBSET Docs}) \ {Nothing}

With(files, writes) ==
    [d \in Docs |-> IF d \in DOMAIN writes THEN writes[d] ELSE files[d]]

Init == baseline = Nothing /\ declared = Nothing

\* The first baseline.
Establish ==
    /\ baseline = Nothing
    /\ baseline' \in Baselines
    /\ UNCHANGED declared

Declare ==
    /\ declared = Nothing
    /\ declared' \in WriteSets
    /\ UNCHANGED baseline

\* The commit takes effect, at once for every document it writes.
Commit ==
    /\ declared # Nothing
    /\ baseline # Nothing
    /\ baseline' = With(baseline, declared)
    /\ UNCHANGED declared

\* The commit is over; nothing of it may be missing from a baseline.
Finish ==
    /\ declared # Nothing
    /\ baseline # Nothing => baseline = With(baseline, declared)
    /\ declared' = Nothing
    /\ UNCHANGED baseline

Accept ==
    /\ declared = Nothing
    /\ baseline # Nothing
    /\ baseline' \in Baselines
    /\ UNCHANGED declared

Next == Establish \/ Declare \/ Commit \/ Finish \/ Accept

Spec == Init /\ [][Next]_vars
=============================================================================
