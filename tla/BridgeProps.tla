---------------------------- MODULE BridgeProps ----------------------------
(***************************************************************************)
(* What is asked of the tool calls of one session.                         *)
(***************************************************************************)
EXTENDS Bridge

TypeOK ==
    /\ socket \in [Conns -> {"none", "open", "lost", "closed"}]
    /\ handler \in [Conns -> {"new", "attached", "loop", "gone"}]
    /\ pushing \subseteq Conns
    /\ connection \in Conns \cup {None}
    /\ toolFutures \subseteq Calls
    /\ sessionCalls \subseteq Calls
    /\ future \in [Calls -> {"none", "pending", "result", "cancelled"}]
    /\ call \in [Calls -> {"new", "sending", "waiting"} \cup Outcomes]
    /\ via \in [Calls -> Conns \cup {None}]
    /\ asked \subseteq Calls

(* The two tables never part: a call that only one of them knew could not  *)
(* be cancelled with its surface, or would be cancelled as another's       *)
(* (ws_connection_manager.py:67-71, 126-127, 136-137, 151-152).            *)
TablesAgree == toolFutures = sessionCalls

(* The tables hold no call that is over, however it ended, but the calls   *)
(* whose caller was cancelled inside the send: that await stands outside   *)
(* the try, so their entries stay until the next disconnect                *)
(* (ws_connection_manager.py:129-152).                                     *)
NothingLeaks == \A k \in toolFutures : InFlight(k) \/ call[k] = "abandoned"

(* A request that still waits for an answer can be found by it, and by a   *)
(* disconnect, through every send failure and re-attach in between         *)
(* (ws_connection_manager.py:67-71, 161).                                  *)
PendingIsTracked == \A k \in Calls : InFlight(k) /\ future[k] = "pending" => k \in toolFutures

(* While no surface is registered no call is pending, not even one whose   *)
(* own surface was replaced or whose caller is gone                        *)
(* (ws_connection_manager.py:57-71, 120-127).                              *)
NoCallWithoutSurface == connection = None => toolFutures = {}

BridgeInv ==
    /\ TypeOK
    /\ TablesAgree
    /\ NothingLeaks
    /\ PendingIsTracked
    /\ NoCallWithoutSurface
    /\ \A k \in Calls : call[k] \in {"new", "refused"} => future[k] = "none"
    /\ \A k \in toolFutures : future[k] \in {"pending", "result"}

-----------------------------------------------------------------------------
(* Liveness.                                                               *)

(* A call whose session has lost its surface ends, without the help of any *)
(* timer: "not deadlock" (docs/reference/conformance-levels.md:136;        *)
(* ws_connection_manager.py:67-71, 143-152).                               *)
LossSettles == \A k \in Calls : InFlight(k) /\ connection = None ~> ~InFlight(k)

(* With the timer of wait_for running, every call ends, a surface that     *)
(* never answers or a registration nobody serves notwithstanding           *)
(* (ws_connection_manager.py:129-149).                                     *)
CallsSettle ==
    (\A k \in Calls : WF_vars(Timeout(k))) => \A k \in Calls : InFlight(k) ~> ~InFlight(k)

-----------------------------------------------------------------------------
(* The bridge implements the promise of tool calls: a call stands for its  *)
(* future, and has expired when its request gave up on an open one.        *)
Having(state) == {k \in Calls : future[k] = state}
PendingCalls == {k \in toolFutures : future[k] = "pending"}

Promise == INSTANCE ToolCalls WITH
    attached <- connection # None,
    pending <- PendingCalls,
    answered <- Having("result"),
    cancelled <- Having("cancelled"),
    expired <- Having("pending") \ PendingCalls

ImplementsToolCalls == Promise!Spec

-----------------------------------------------------------------------------
(* Promises of the documents that the code breaks.                         *)

(* ws_connection_manager.py:116-118: request_tool_call raises RuntimeError *)
(* or TimeoutError, never the CancelledError of its own future.            *)
RaisesAsDocumented == \A k \in Calls : call[k] # "cancelled"
=============================================================================
