--------------------------- MODULE ReliableTether ---------------------------
(***************************************************************************)
(* What the Tether promises (SPEC.md 7.3, docs/concepts/tether.md): a turn *)
(* the agent produced is handed to a surface at once or waits for one; a   *)
(* waiting turn stays until it is handed over; none is handed over twice.  *)
(***************************************************************************)
CONSTANT Turns

VARIABLES waiting, delivered

Init == waiting = {} /\ delivered = {}

(* Turn t is produced while a surface takes it. *)
Push(t) ==
    /\ t \notin waiting \cup delivered
    /\ delivered' = delivered \cup {t}
    /\ UNCHANGED waiting

(* Turn t is produced while no surface is there. *)
Hold(t) ==
    /\ t \notin waiting \cup delivered
    /\ waiting' = waiting \cup {t}
    /\ UNCHANGED delivered

(* A surface came back and is given turn t. *)
Drain(t) ==
    /\ t \in waiting
    /\ waiting' = waiting \ {t}
    /\ delivered' = delivered \cup {t}

Next == \E t \in Turns : Push(t) \/ Hold(t) \/ Drain(t)

Spec == Init /\ [][Next]_<<waiting, delivered>>
=============================================================================
