------------------------------ MODULE ToolCalls ------------------------------
(***************************************************************************)
(* What the MCP bridge promises of tool calls (SPEC.md 10.3, 10.4): a call *)
(* is asked of an attached surface and ends in one way only.  It is        *)
(* answered, it expires, or it is cancelled; when the surface goes, every  *)
(* call in flight is cancelled with it.                                    *)
(***************************************************************************)
CONSTANT Calls

VARIABLES attached, pending, answered, expired, cancelled

vars == <<attached, pending, answered, expired, cancelled>>
Asked == pending \cup answered \cup expired \cup cancelled

Init ==
    /\ attached = FALSE
    /\ pending = {} /\ answered = {} /\ expired = {} /\ cancelled = {}

AttachSurface == attached' = TRUE /\ UNCHANGED <<pending, answered, expired, cancelled>>

Ask(k) ==
    /\ attached
    /\ k \notin Asked
    /\ pending' = pending \cup {k}
    /\ UNCHANGED <<attached, answered, expired, cancelled>>

Answer(k) ==
    /\ k \in pending
    /\ pending' = pending \ {k}
    /\ answered' = answered \cup {k}
    /\ UNCHANGED <<attached, expired, cancelled>>

Expire(k) ==
    /\ k \in pending
    /\ pending' = pending \ {k}
    /\ expired' = expired \cup {k}
    /\ UNCHANGED <<attached, answered, cancelled>>

SurfaceGoes ==
    /\ attached' = FALSE
    /\ pending' = {}
    /\ cancelled' = cancelled \cup pending
    /\ UNCHANGED <<answered, expired>>

Next ==
    \/ AttachSurface \/ SurfaceGoes
    \/ \E k \in Calls : Ask(k) \/ Answer(k) \/ Expire(k)

Spec == Init /\ [][Next]_vars
=============================================================================
