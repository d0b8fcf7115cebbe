------------------------------- MODULE OneOwner -------------------------------
(***************************************************************************)
(* What the owner receipt of a data directory promises, with receipts,     *)
(* guards, hosts and process identifiers left out: a server serves only    *)
(* under a claim of its own, a claim is never taken over from a process    *)
(* that serves, and nobody but that process gives up a claim it holds.     *)
(***************************************************************************)

CONSTANTS Owners, \* processes that may come to serve the directory
          None,   \* nothing claims it
          Legacy  \* a claim that names no process

VARIABLES claim,
          serving \* the owners that hold a claim and run

ownerVars == <<claim, serving>>

Init == claim \in {None, Legacy} /\ serving = {}

Take(o) ==
    /\ claim = None
    /\ claim' = o
    /\ serving' = serving \cup {o}

\* A claim outlives its owner.
Ends(o) ==
    /\ o \in serving
    /\ serving' = serving \ {o}
    /\ UNCHANGED claim

GivesUp(o) ==
    /\ o \in serving /\ claim = o
    /\ claim' = None
    /\ serving' = serving \ {o}

Clear ==
    /\ claim # None /\ claim \notin serving
    /\ claim' = None
    /\ UNCHANGED serving

Next == Clear \/ \E o \in Owners : Take(o) \/ Ends(o) \/ GivesUp(o)

Spec == Init /\ [][Next]_ownerVars
=============================================================================
