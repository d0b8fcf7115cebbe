--------------------------- MODULE AtomicAuthority ---------------------------
(***************************************************************************)
(* What the v4 write session promises: an authority and its idempotency    *)
(* ledger move from one generation to the next by one whole operation at   *)
(* a time.  An operation that was prepared is never abandoned and never    *)
(* takes effect twice.                                                     *)
(***************************************************************************)
EXTENDS Naturals

CONSTANTS Targets, \* the artifacts of the authority, and the ledger
          Bodies   \* the bodies a target may have, "no file" included

VARIABLES generation, \* of the accepted authority
          content,    \* what it and its ledger hold
          operation,  \* the writes of the operation under way; empty when none
          effective   \* whether they are in force

vars == <<generation, content, operation, effective>>

Nothing == [t \in {} |-> 0]
Operations == (UNION {[S -> Bodies] : S \in SUBSET Targets}) \ {Nothing}

Init ==
    /\ generation = 0
    /\ content \in [Targets -> Bodies]
    /\ operation = Nothing
    /\ effective = FALSE

Prepare ==
    /\ operation = Nothing
    /\ operation' \in Operations
    /\ UNCHANGED <<generation, content, effective>>

\* The whole operation takes effect at once.
TakeEffect ==
    /\ operation # Nothing
    /\ ~effective
    /\ effective' = TRUE
    /\ generation' = generation + 1
    /\ content' = [t \in Targets |-> IF t \in DOMAIN operation
                                     THEN operation[t] ELSE content[t]]
    /\ UNCHANGED operation

\* It is over only after it took effect.
Finish ==
    /\ effective
    /\ operation' = Nothing
    /\ effective' = FALSE
    /\ UNCHANGED <<generation, content>>

Next == Prepare \/ TakeEffect \/ Finish

Spec == Init /\ [][Next]_vars
=============================================================================
