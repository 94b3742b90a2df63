------------------------------- MODULE Bridge -------------------------------
(***************************************************************************)
(* The tool calls of one session: WSConnectionManager.request_tool_call    *)
(* and resolve_tool_call (ws_connection_manager.py), against the attaching,*)
(* replacing and vanishing of the surfaces that answer (sbp_ws.py).        *)
(*                                                                         *)
(* An action is the code between two suspensions of a coroutine.  Of a     *)
(* surface's handler only what the bridge can tell apart is kept: it is    *)
(* registered and not yet reading ("attached": acknowledging, draining),   *)
(* in its receive loop, or gone.  The Tether module has the rest.          *)
(***************************************************************************)
EXTENDS FiniteSets

CONSTANTS Conns,   (* the connections surfaces open, each attached once       *)
          Calls,   (* the tool calls, each with a call_id of its own (uuid4)  *)
          None,    (* Python's None                                           *)
          Faults   (* "drop": peers vanish; "overlap": a surface attaches
                      while another is served; "abandon": callers are
                      cancelled                                               *)

ASSUME BridgeAssumption ==
    /\ None \notin Conns
    /\ Faults \subseteq {"drop", "overlap", "abandon"}

VARIABLES socket,        (* socket[c]: the transport under connection c       *)
          handler,       (* handler[c]: where the handler of c stands         *)
          pushing,       (* the connections a turn is being sent on           *)
          connection,    (* manager._connections[session_id], or None         *)
          toolFutures,   (* the calls in manager._tool_futures                *)
          sessionCalls,  (* manager._session_tool_calls[session_id]           *)
          future,        (* future[k]: the Future of call k                   *)
          call,          (* call[k]: where request_tool_call stands           *)
          via,           (* via[k]: the WebSocket manager.send captured       *)
          asked          (* the calls whose TOOL_CALL was handed to a peer    *)

surfaces == <<socket, handler, pushing>>
tables == <<toolFutures, sessionCalls>>
requests == <<call, via, asked>>
vars == <<surfaces, connection, tables, future, requests>>

Outcomes == {"refused", "undelivered", "returned", "timeout", "cancelled", "abandoned"}
InFlight(k) == call[k] \in {"sending", "waiting"}

-----------------------------------------------------------------------------
(* WSConnectionManager.                                                    *)

(* Mutant: the registry entry goes, its calls stay. *)
DisconnectOnly(k) == connection' = None /\ UNCHANGED <<tables, future>>

(* Mutant: the calls are let go, and nobody tells their requests. *)
DisconnectQuietly(k) ==
    /\ connection' = None
    /\ toolFutures' = toolFutures \ (sessionCalls \cup {k})
    /\ sessionCalls' = {}
    /\ UNCHANGED future

(* disconnect(session_id): unregister whatever surface there is, and let   *)
(* go of all calls of the session, cancelling the unanswered.  k is the    *)
(* call whose own entries are dropped as well, or None.                    *)
Disconnect(k) ==
    /\ connection' = None
    /\ toolFutures' = toolFutures \ (sessionCalls \cup {k})
    /\ sessionCalls' = {}
    /\ future' = [j \in Calls |->
           IF j \in sessionCalls \cap toolFutures /\ future[j] = "pending"
           THEN "cancelled" ELSE future[j]]

(* Mutant: the session's own record of the call is kept. *)
ForgetFuture(k) == toolFutures' = toolFutures \ {k} /\ UNCHANGED sessionCalls

(* Mutant: a request that ends clears the session's calls. *)
ForgetSession(k) == toolFutures' = toolFutures \ sessionCalls /\ sessionCalls' = {}

Forget(k) ==
    /\ toolFutures' = toolFutures \ {k}
    /\ sessionCalls' = sessionCalls \ {k}

(* Can a send on c complete, can it raise.  A send on a socket that the    *)
(* server closed raises unless its frame was out before.                   *)
MaySucceed(c) == socket[c] # "lost"
MayRaise(c) == \/ socket[c] = "lost"
               \/ socket[c] = "closed" /\ "drop" \in Faults

-----------------------------------------------------------------------------
(* Surfaces.                                                               *)

Serving(c) == handler[c] \in {"attached", "loop"}

(* A valid ATTACH_SESSION: the socket is registered. *)
Attach(c) ==
    /\ handler[c] = "new"
    /\ "overlap" \in Faults \/ \A d \in Conns : ~Serving(d)
    /\ socket' = [socket EXCEPT ![c] = "open"]
    /\ handler' = [handler EXCEPT ![c] = "attached"]
    /\ connection' = c
    /\ UNCHANGED <<pushing, tables, future, requests>>

PeerDrop(c) ==
    /\ "drop" \in Faults
    /\ socket[c] = "open"
    /\ socket' = [socket EXCEPT ![c] = "lost"]
    /\ UNCHANGED <<handler, pushing, connection, tables, future, requests>>

(* Acknowledged and drained: the handler begins to read. *)
Ready(c) ==
    /\ handler[c] = "attached"
    /\ handler' = [handler EXCEPT ![c] = "loop"]
    /\ UNCHANGED <<socket, pushing, connection, tables, future, requests>>

(* The acknowledgement raised, outside every try. *)
AttachFail(c) ==
    /\ handler[c] = "attached"
    /\ socket[c] = "lost"
    /\ handler' = [handler EXCEPT ![c] = "gone"]
    /\ UNCHANGED <<socket, pushing, connection, tables, future, requests>>

(* DETACH, a close, an unreadable frame or a lost peer ends the loop. *)
Leave(c) ==
    /\ handler[c] = "loop"
    /\ handler' = [handler EXCEPT ![c] = "gone"]
    /\ socket' = [socket EXCEPT ![c] = IF @ = "open" THEN "closed" ELSE @]
    /\ Disconnect(None)
    /\ UNCHANGED <<pushing, requests>>

(* A turn of the session is being sent to the surface meanwhile. *)
Push(c) ==
    /\ connection = c
    /\ c \notin pushing
    /\ pushing' = pushing \cup {c}
    /\ UNCHANGED <<socket, handler, connection, tables, future, requests>>

PushSent(c) ==
    /\ c \in pushing
    /\ MaySucceed(c)
    /\ pushing' = pushing \ {c}
    /\ UNCHANGED <<socket, handler, connection, tables, future, requests>>

(* Its send raised: the session is disconnected, whoever is registered. *)
PushFails(c) ==
    /\ c \in pushing
    /\ MayRaise(c)
    /\ pushing' = pushing \ {c}
    /\ Disconnect(None)
    /\ UNCHANGED <<socket, handler, requests>>

-----------------------------------------------------------------------------
(* The request for tool call k.                                            *)

Refuse(k) ==
    /\ call[k] = "new"
    /\ connection = None
    /\ call' = [call EXCEPT ![k] = "refused"]
    /\ UNCHANGED <<surfaces, connection, tables, future, via, asked>>

(* The future is recorded in both tables and the TOOL_CALL sent. *)
Ask(k) ==
    /\ call[k] = "new"
    /\ connection # None
    /\ call' = [call EXCEPT ![k] = "sending"]
    /\ future' = [future EXCEPT ![k] = "pending"]
    /\ toolFutures' = toolFutures \cup {k}
    /\ sessionCalls' = sessionCalls \cup {k}
    /\ via' = [via EXCEPT ![k] = connection]
    /\ asked' = IF socket[connection] = "open" THEN asked \cup {k} ELSE asked
    /\ UNCHANGED <<surfaces, connection>>

AskSent(k) ==
    /\ call[k] = "sending"
    /\ MaySucceed(via[k])
    /\ call' = [call EXCEPT ![k] = "waiting"]
    /\ UNCHANGED <<surfaces, connection, tables, future, via, asked>>

(* Mutant: an exception of the send is never raised. *)
AskHangs(k) == FALSE

(* Mutant: the send only unregisters, and the failed request pops nothing. *)
AskFailsKeeping(k) ==
    /\ call[k] = "sending"
    /\ MayRaise(via[k])
    /\ DisconnectOnly(k)
    /\ call' = [call EXCEPT ![k] = "undelivered"]
    /\ UNCHANGED <<surfaces, via, asked>>

(* send() disconnected the session and returned False. *)
AskFails(k) ==
    /\ call[k] = "sending"
    /\ MayRaise(via[k])
    /\ Disconnect(k)
    /\ call' = [call EXCEPT ![k] = "undelivered"]
    /\ UNCHANGED <<surfaces, via, asked>>

(* Mutant: the answer is looked up among all calls ever made. *)
ResultLate(k) ==
    /\ k \in asked
    /\ future[k] \in {"pending", "cancelled"}
    /\ future' = [future EXCEPT ![k] = "result"]
    /\ UNCHANGED <<surfaces, connection, tables, requests>>

(* A TOOL_RESULT for k is read, and resolves the future if it is still     *)
(* there and not done; otherwise it is dropped.  Only who was asked knows  *)
(* the id, but the answer is sent on the socket of the moment, and is      *)
(* looked up by the id alone: it may come over the connection that was     *)
(* asked, over one that replaced it, or over another session's.            *)
Result(k) ==
    /\ k \in asked
    /\ k \in toolFutures /\ future[k] = "pending"
    /\ future' = [future EXCEPT ![k] = "result"]
    /\ UNCHANGED <<surfaces, connection, tables, requests>>

Settle(k, outcome) ==
    /\ call[k] = "waiting"
    /\ call' = [call EXCEPT ![k] = outcome]
    /\ Forget(k)
    /\ UNCHANGED <<surfaces, connection, future, via, asked>>

Returned(k) == future[k] = "result" /\ Settle(k, "returned")

(* The CancelledError of the future is raised out of the wait. *)
Cancelled(k) == future[k] = "cancelled" /\ Settle(k, "cancelled")

(* Mutant: the timer's outcome is no known one. *)
TimeoutUnknown(k) == Settle(k, "expired")

(* The timer of wait_for fires.  It may fire between an answer, or a       *)
(* cancellation, and the moment the request runs again; it wins then.      *)
Timeout(k) == Settle(k, "timeout")

(* The task that made the request is cancelled: in the wait the finally    *)
(* block runs, in the send nothing does.                                   *)
Abandon(k) ==
    /\ "abandon" \in Faults
    /\ \/ Settle(k, "abandoned")
       \/ /\ call[k] = "sending"
          /\ call' = [call EXCEPT ![k] = "abandoned"]
          /\ UNCHANGED <<surfaces, connection, tables, future, via, asked>>

-----------------------------------------------------------------------------
Init ==
    /\ socket = [c \in Conns |-> "none"]
    /\ handler = [c \in Conns |-> "new"]
    /\ pushing = {}
    /\ connection = None
    /\ toolFutures = {}
    /\ sessionCalls = {}
    /\ future = [k \in Calls |-> "none"]
    /\ call = [k \in Calls |-> "new"]
    /\ via = [k \in Calls |-> None]
    /\ asked = {}

Surface(c) ==
    \/ Attach(c) \/ PeerDrop(c) \/ Ready(c) \/ AttachFail(c) \/ Leave(c)
    \/ Push(c) \/ PushSent(c) \/ PushFails(c)

Request(k) ==
    \/ Refuse(k) \/ Ask(k) \/ AskSent(k) \/ AskFails(k) \/ Result(k)
    \/ Returned(k) \/ Cancelled(k) \/ Timeout(k) \/ Abandon(k)

Next == (\E c \in Conns : Surface(c)) \/ (\E k \in Calls : Request(k))

(* A send completes or raises, and the loop runs what is ready.  Nothing   *)
(* is asked of surfaces, callers, or (but in CallsSettle) the timer.       *)
Fairness ==
    \A k \in Calls : /\ WF_vars(AskSent(k) \/ AskFails(k))
                     /\ WF_vars(Returned(k) \/ Cancelled(k))

Spec == Init /\ [][Next]_vars
FairSpec == Spec /\ Fairness
=============================================================================
