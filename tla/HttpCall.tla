------------------------------ MODULE HttpCall ------------------------------
(***************************************************************************)
(* One native call after another, as their caller sees them: a call runs   *)
(* and then returns one of the outcomes NativeResult lists.  Nothing is    *)
(* said of how it is made; Transport is shown to implement this.           *)
(***************************************************************************)
EXTENDS NativeResult

VARIABLES
    phase,      \* "running" or "returned"
    capture,    \* 1 when the caller gave paths for body and metadata
    outcome     \* of a call that returned

callvars == <<phase, capture, outcome>>

Init == phase = "running" /\ capture \in {0, 1} /\ outcome = NoOutcome

Return ==
    /\ phase = "running"
    /\ phase' = "returned"
    /\ outcome' \in Promise(capture)
    /\ UNCHANGED capture

CallAgain ==
    /\ phase = "returned"
    /\ phase' = "running" /\ capture' \in {0, 1} /\ outcome' = NoOutcome

Next == Return \/ CallAgain

Spec == Init /\ [][Next]_callvars

=============================================================================
