------------------------------ MODULE Transfer ------------------------------
(***************************************************************************)
(* What a caller of tds_transfer_to may rely on: the call moves the sector *)
(* it names, once, or reports failure; nothing is moved outside a call.    *)
(* FddService takes a transfer to be this; TdsEngine implements it.        *)
(***************************************************************************)
CONSTANTS Job, NoJob

VARIABLES asked,    \* the job of the call under way, or NoJob
          phase,    \* "idle", "asked", "moved" or "failed"
          result,   \* what the last call returned
          last      \* the last move the host made, or NoJob

vars == <<asked, phase, result, last>>

Init ==
    /\ asked = NoJob /\ phase = "idle"
    /\ result = "none" /\ last = NoJob

Ask(j) ==
    /\ phase = "idle"
    /\ asked' = j /\ phase' = "asked" /\ UNCHANGED <<result, last>>

Move ==
    /\ phase = "asked"
    /\ last' = asked /\ phase' = "moved" /\ UNCHANGED <<asked, result>>

Fail ==
    /\ phase = "asked"
    /\ phase' = "failed" /\ UNCHANGED <<asked, result, last>>

Return(ok) ==
    /\ phase = IF ok THEN "moved" ELSE "failed"
    /\ asked' = NoJob /\ phase' = "idle"
    /\ result' = IF ok THEN "ok" ELSE "failed"
    /\ UNCHANGED last

Next ==
    \/ \E j \in Job : Ask(j)
    \/ Move \/ Fail
    \/ \E ok \in BOOLEAN : Return(ok)

Spec == Init /\ [][Next]_vars
=============================================================================
