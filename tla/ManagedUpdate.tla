---------------------------- MODULE ManagedUpdate ----------------------------
(***************************************************************************)
(* What a managed update promises about the server a desktop selects.      *)
(* The selection moves to a candidate only when the workspace is backed up *)
(* and the candidate is in place; a candidate is final only once a process *)
(* runs from it; until then it may be undone, and never afterwards.        *)
(***************************************************************************)
CONSTANTS
    Candidates, \* selections that an update may produce
    Previous    \* the selection before the update, none of them

VARIABLES
    selected, \* what the next start of the desktop brings up
    running,  \* what this process was started from
    covered,  \* the workspace is backed up and a candidate is in place
    final     \* candidates that are kept for good

updateVars == <<selected, running, covered, final>>

Init ==
    /\ selected = Previous
    /\ running = Previous
    /\ covered = FALSE
    /\ final = {}

Cover ==
    /\ covered' = TRUE
    /\ UNCHANGED <<selected, running, final>>

Select(c) ==
    /\ covered
    /\ selected = Previous /\ c \notin final
    /\ selected' = c
    /\ UNCHANGED <<running, covered, final>>

Start ==
    /\ running' = selected
    /\ UNCHANGED <<selected, covered, final>>

Confirm ==
    /\ selected # Previous /\ running = selected
    /\ final' = final \cup {selected}
    /\ UNCHANGED <<selected, running, covered>>

Undo ==
    /\ selected \notin final
    /\ selected' = Previous
    /\ UNCHANGED <<running, covered, final>>

Next ==
    \/ \E c \in Candidates : Select(c)
    \/ Cover \/ Start \/ Confirm \/ Undo

Spec == Init /\ [][Next]_updateVars
=============================================================================
