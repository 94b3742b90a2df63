------------------------------- MODULE Tether -------------------------------
(***************************************************************************)
(* One SBP session of the reference server: the WebSocket handlers of the  *)
(* surfaces that attach to it (routers/sbp_ws.py), the completion requests *)
(* that produce its turns (routers/completions.py), the registry both go   *)
(* through (ws_connection_manager.py) and the in-memory stores             *)
(* (backends/memory.py).                                                   *)
(*                                                                         *)
(* The server is one asyncio event loop, so an action is the code between  *)
(* two points where a coroutine really suspends: the receipt of a frame,   *)
(* the completion of a send, an answer of the LLM.  The in-memory stores   *)
(* are coroutines that never suspend, so their calls belong to the action  *)
(* that makes them.                                                        *)
(*                                                                         *)
(* A frame is handed to the transport when its send begins, if the socket  *)
(* is open; that the send raised is learned only when it completes.        *)
(***************************************************************************)
EXTENDS Naturals, Sequences, FiniteSets

CONSTANTS Conns,           (* the connections surfaces open, each used once      *)
          Pushes,          (* turns asked for with stream = false                *)
          Streams,         (* turns asked for with stream = true                 *)
          None,            (* Python's None                                      *)
          Chunks,          (* bound: content chunks of one streamed turn         *)
          CheckpointEvery, (* sbp.checkpoint_every of the requests               *)
          Faults           (* "drop": peers vanish; "overlap": a surface attaches
                              while another connection is being served           *)

Turns == Pushes \cup Streams

ASSUME TetherAssumption ==
    /\ None \notin Conns \cup Turns
    /\ Pushes \cap Streams = {}
    /\ Chunks \in Nat \ {0}
    /\ CheckpointEvery \in Nat \ {0}
    /\ Faults \subseteq {"drop", "overlap"}

VARIABLES socket,      (* socket[c]: the transport under connection c            *)
          handler,     (* handler[c]: where the WebSocket handler of c stands    *)
          tetherTurns, (* tetherTurns[c]: what drain() returned to that handler  *)
          drained,     (* drained[c]: how many of them it has sent               *)
          frames,      (* frames[c]: the frames handed to c's transport          *)
          connection,  (* manager._connections[session_id], or None              *)
          status,      (* the session's status                                   *)
          history,     (* the session's messages                                 *)
          queue,       (* its tether queue                                       *)
          snapshot,    (* the step of its latest snapshot, 0 before the first    *)
          task,        (* task[t]: where the request for turn t stands           *)
          via,         (* via[t]: the WebSocket manager.send captured            *)
          chunk        (* chunk[t]: chunks accumulated by a streamed turn        *)

conns == <<socket, handler, tetherTurns, drained>>
store == <<status, history, queue, snapshot>>
tasks == <<task, via, chunk>>
vars == <<conns, frames, connection, store, tasks>>

HandlerStates == {"new", "handshake", "attaching", "draining", "loop", "gone"}
TaskStates == {"new", "llm", "chunking", "sending", "done", "failed", "sse"}
Settled == {"done", "failed", "sse"}

FrameTypes == {"SESSION_ATTACHED", "ERROR", "TETHER_TURN", "TURN_CHUNK", "TURN_COMPLETE"}

(* n is queued_turns, step_count or the chunk's position.  TURN_CHUNK and  *)
(* TURN_COMPLETE carry no turn in the code: there it is a ghost field.     *)
Frame == [type : FrameTypes, turn : Turns \cup {None}, n : Nat]
(* What a user said plays no part: a user's message names no turn.         *)
Message == [role : {"user", "assistant"}, turn : Turns \cup {None}]

-----------------------------------------------------------------------------
(* The stores and the connection manager.                                  *)

(* Mutant: messages of every role are counted. *)
CountAllMessages(h) == Len(h)

StepCount(h) == Cardinality({i \in DOMAIN h : h[i].role = "assistant"})

(* Mutant: the checkpoint falls one step late. *)
CheckpointLate(h) ==
    LET step == StepCount(h)
    IN IF step > 1 /\ (step - 1) % CheckpointEvery = 0 THEN step - 1 ELSE snapshot

Checkpoint(h) ==
    LET step == StepCount(h)
    IN IF step > 0 /\ step % CheckpointEvery = 0 THEN step ELSE snapshot

(* Mutant: the newest turn is put at the head. *)
EnqueueFirst(f) == queue' = <<f>> \o queue

Enqueue(f) == queue' = Append(queue, f)

(* The frames after f is handed to the transport of c: a closed or broken  *)
(* transport takes nothing.                                                *)
Written(c, f) ==
    [frames EXCEPT ![c] = IF socket[c] = "open" THEN Append(@, f) ELSE @]

(* Mutant: the status written is the one the protocol text names. *)
RegisterRunning(c) == connection' = c /\ status' = "running"

Register(c) == connection' = c /\ status' = "active"

(* Mutant: only the status is updated when a handler ends. *)
KeepRegistered == status' = "suspended" /\ UNCHANGED connection

(* The finally block: disconnect takes the session, not the socket. *)
Release == connection' = None /\ status' = "suspended"

-----------------------------------------------------------------------------
(* The WebSocket handler of connection c.                                  *)

Serving(c) == handler[c] \in {"handshake", "attaching", "draining", "loop"}

(* Mutant: the socket is registered before it has been validated. *)
ConnectRegistered(c) ==
    /\ handler[c] = "new"
    /\ "overlap" \in Faults \/ \A d \in Conns : ~Serving(d)
    /\ socket' = [socket EXCEPT ![c] = "open"]
    /\ handler' = [handler EXCEPT ![c] = "handshake"]
    /\ Register(c)
    /\ UNCHANGED <<tetherTurns, drained, frames, history, queue, snapshot, tasks>>

(* ws.accept() *)
Connect(c) ==
    /\ handler[c] = "new"
    /\ "overlap" \in Faults \/ \A d \in Conns : ~Serving(d)
    /\ socket' = [socket EXCEPT ![c] = "open"]
    /\ handler' = [handler EXCEPT ![c] = "handshake"]
    /\ UNCHANGED <<tetherTurns, drained, frames, connection, store, tasks>>

(* The peer of c vanishes, and c's transport knows it. *)
PeerDrop(c) ==
    /\ "drop" \in Faults
    /\ socket[c] = "open"
    /\ socket' = [socket EXCEPT ![c] = "lost"]
    /\ UNCHANGED <<handler, tetherTurns, drained, frames, connection, store, tasks>>

Hangup(c) == socket' = [socket EXCEPT ![c] = IF @ = "open" THEN "closed" ELSE @]

(* The first frame did not arrive or parse (no reply), or it was not a     *)
(* valid ATTACH_SESSION for this session (an error frame).                 *)
Reject(c) ==
    /\ handler[c] = "handshake"
    /\ frames' \in {frames, Written(c, [type |-> "ERROR", turn |-> None, n |-> 0])}
    /\ Hangup(c)
    /\ handler' = [handler EXCEPT ![c] = "gone"]
    /\ UNCHANGED <<tetherTurns, drained, connection, store, tasks>>

(* A valid ATTACH_SESSION: register, read the queue, begin to acknowledge. *)
Attach(c) ==
    /\ handler[c] = "handshake"
    /\ Register(c)
    /\ tetherTurns' = [tetherTurns EXCEPT ![c] = queue]
    /\ frames' = Written(c, [type |-> "SESSION_ATTACHED", turn |-> None, n |-> Len(queue)])
    /\ handler' = [handler EXCEPT ![c] = "attaching"]
    /\ UNCHANGED <<socket, drained, history, queue, snapshot, tasks>>

(* The acknowledgement is sent. *)
AttachSent(c) ==
    /\ handler[c] = "attaching"
    /\ socket[c] # "lost"
    /\ handler' = [handler EXCEPT ![c] = IF tetherTurns[c] = <<>> THEN "loop" ELSE "draining"]
    /\ UNCHANGED <<socket, tetherTurns, drained, frames, connection, store, tasks>>

(* The acknowledgement raised: this send is outside every try, so the      *)
(* handler ends with the registration and the status as they are.          *)
AttachFail(c) ==
    /\ handler[c] = "attaching"
    /\ socket[c] = "lost"
    /\ handler' = [handler EXCEPT ![c] = "gone"]
    /\ UNCHANGED <<socket, tetherTurns, drained, frames, connection, store, tasks>>

(* Mutant: the drain loop does not move on to the next turn. *)
DrainStepStuck(c) ==
    /\ handler[c] = "draining"
    /\ socket[c] # "lost"
    /\ drained[c] < Len(tetherTurns[c])
    /\ frames' = Written(c, tetherTurns[c][drained[c] + 1])
    /\ UNCHANGED <<conns, connection, store, tasks>>

(* The previous buffered turn is sent; the next one is handed over. *)
DrainStep(c) ==
    /\ handler[c] = "draining"
    /\ socket[c] # "lost"
    /\ drained[c] < Len(tetherTurns[c])
    /\ frames' = Written(c, tetherTurns[c][drained[c] + 1])
    /\ drained' = [drained EXCEPT ![c] = @ + 1]
    /\ UNCHANGED <<socket, handler, tetherTurns, connection, store, tasks>>

(* Mutant: the loop ends before the last turn. *)
DrainOverEarly(c) == drained[c] + 1 >= Len(tetherTurns[c]) \/ socket[c] = "lost"

(* Every turn is sent, or a send raised and broke the loop. *)
DrainOver(c) == drained[c] = Len(tetherTurns[c]) \/ socket[c] = "lost"

(* The queue is cleared, however the loop ended. *)
DrainEnd(c) ==
    /\ handler[c] = "draining"
    /\ DrainOver(c)
    /\ queue' = <<>>
    /\ handler' = [handler EXCEPT ![c] = "loop"]
    /\ UNCHANGED <<socket, tetherTurns, drained, frames, connection,
                   status, history, snapshot, tasks>>

(* DETACH, a close, or a frame that does not parse ends the loop. *)
Detach(c) ==
    /\ handler[c] = "loop"
    /\ socket[c] = "open"
    /\ Hangup(c)
    /\ Release
    /\ handler' = [handler EXCEPT ![c] = "gone"]
    /\ UNCHANGED <<tetherTurns, drained, frames, history, queue, snapshot, tasks>>

(* WebSocketDisconnect: the peer was lost. *)
Dropped(c) ==
    /\ handler[c] = "loop"
    /\ socket[c] = "lost"
    /\ Release
    /\ handler' = [handler EXCEPT ![c] = "gone"]
    /\ UNCHANGED <<socket, tetherTurns, drained, frames, history, queue, snapshot, tasks>>

-----------------------------------------------------------------------------
(* The completion request for turn t, and its background stream.           *)

TurnFrame(t, n) == [type |-> "TETHER_TURN", turn |-> t, n |-> n]
Said(role, t) == Append(history, [role |-> role, turn |-> t])

(* The request resumes the session and appends the user's message.         *)
Accept(t) ==
    /\ task[t] = "new"
    /\ status' = "active"
    /\ history' = Said("user", None)
    /\ UNCHANGED <<conns, frames, connection, queue, snapshot, via, chunk>>

StartPush(t) ==
    /\ t \in Pushes
    /\ Accept(t)
    /\ task' = [task EXCEPT ![t] = "llm"]

(* With a surface attached the turn streams to it from a task of its own;  *)
(* without one it is proxied to the HTTP caller and leaves no trace.       *)
StartStream(t) ==
    /\ t \in Streams
    /\ Accept(t)
    /\ task' = [task EXCEPT ![t] = IF connection = None THEN "sse" ELSE "llm"]

(* SBP_LLM_BASE_URL is not set: 503, with the user's message persisted. *)
Refuse(t) ==
    /\ Accept(t)
    /\ task' = [task EXCEPT ![t] = "failed"]

(* The LLM is unreachable, too slow, or answers with an error. *)
LlmFails(t) ==
    /\ t \in Pushes
    /\ task[t] = "llm"
    /\ task' = [task EXCEPT ![t] = "failed"]
    /\ UNCHANGED <<conns, frames, connection, store, via, chunk>>

(* manager.send captures the registered WebSocket and begins to send. *)
Send(t, f, next) ==
    /\ frames' = Written(connection, f)
    /\ via' = [via EXCEPT ![t] = connection]
    /\ task' = [task EXCEPT ![t] = next]

Buffer(t, f) ==
    /\ Enqueue(f)
    /\ task' = [task EXCEPT ![t] = "done"]
    /\ UNCHANGED <<frames, via>>

(* Mutant: the turn is buffered even when a surface takes it. *)
EmitBoth(t, live, buffered) ==
    \/ connection # None /\ Send(t, live, "sending") /\ Enqueue(buffered)
    \/ connection = None /\ Buffer(t, buffered)

(* A live surface gets the frame `live', the queue the frame `buffered'. *)
Emit(t, live, buffered) ==
    \/ connection # None /\ Send(t, live, "sending") /\ UNCHANGED queue
    \/ connection = None /\ Buffer(t, buffered)

(* The answer of the LLM: persist it, checkpoint, push or buffer it.       *)
Reply(t) ==
    /\ t \in Pushes
    /\ task[t] = "llm"
    /\ LET h == Said("assistant", t)
           f == TurnFrame(t, StepCount(h))
       IN /\ history' = h
          /\ snapshot' = Checkpoint(h)
          /\ Emit(t, f, f)
    /\ UNCHANGED <<conns, connection, status, chunk>>

(* An answer without content still checkpoints. *)
ReplyEmpty(t) ==
    /\ t \in Pushes
    /\ task[t] = "llm"
    /\ snapshot' = Checkpoint(history)
    /\ task' = [task EXCEPT ![t] = "done"]
    /\ UNCHANGED <<conns, frames, connection, status, history, queue, via, chunk>>

(* One content chunk: accumulated, and sent if a surface is attached now.  *)
Chunk(t) ==
    /\ t \in Streams
    /\ task[t] = "llm"
    /\ chunk[t] < Chunks
    /\ chunk' = [chunk EXCEPT ![t] = @ + 1]
    /\ \/ /\ connection # None
          /\ Send(t, [type |-> "TURN_CHUNK", turn |-> t, n |-> chunk[t] + 1], "chunking")
       \/ connection = None /\ UNCHANGED <<frames, via, task>>
    /\ UNCHANGED <<conns, connection, store>>

(* [DONE], or an error of the upstream stream, which is swallowed: what    *)
(* was accumulated is the turn.                                            *)
StreamEnd(t) ==
    /\ t \in Streams
    /\ task[t] = "llm"
    /\ chunk[t] > 0
    /\ history' = Said("assistant", t)
    /\ Emit(t, [type |-> "TURN_COMPLETE", turn |-> t, n |-> 0], TurnFrame(t, 0))
    /\ UNCHANGED <<conns, connection, status, snapshot, chunk>>

StreamEmpty(t) ==
    /\ t \in Streams
    /\ task[t] = "llm"
    /\ chunk[t] = 0
    /\ task' = [task EXCEPT ![t] = "failed"]
    /\ UNCHANGED <<conns, frames, connection, store, via, chunk>>

Sent(t) ==
    /\ task[t] \in {"sending", "chunking"}
    /\ task' = [task EXCEPT ![t] = IF @ = "chunking" THEN "llm" ELSE "done"]
    /\ via' = [via EXCEPT ![t] = None]
    /\ UNCHANGED <<conns, frames, store>>

(* Mutant: the session is disconnected after every send, as in a finally. *)
SendReleases(t) ==
    /\ Sent(t)
    /\ socket[via[t]] # "lost"
    /\ connection' = None
    /\ UNCHANGED chunk

SendSucceeds(t) ==
    /\ Sent(t)
    /\ socket[via[t]] # "lost"
    /\ UNCHANGED <<connection, chunk>>

(* Mutant: an exception of the send is never raised. *)
SendHangs(t) == FALSE

(* Mutant: the chunk whose send failed is sent again. *)
SendRetries(t) ==
    /\ Sent(t)
    /\ socket[via[t]] = "lost"
    /\ connection' = None
    /\ chunk' = [chunk EXCEPT ![t] = IF task[t] = "chunking" THEN @ - 1 ELSE @]

(* manager.send swallows the exception and disconnects the session,        *)
(* whatever connection is registered by now.                               *)
SendFails(t) ==
    /\ Sent(t)
    /\ \/ socket[via[t]] = "lost"
       \/ socket[via[t]] = "closed" /\ "drop" \in Faults
    /\ connection' = None
    /\ UNCHANGED chunk

-----------------------------------------------------------------------------
Init ==
    /\ socket = [c \in Conns |-> "none"]
    /\ handler = [c \in Conns |-> "new"]
    /\ tetherTurns = [c \in Conns |-> <<>>]
    /\ drained = [c \in Conns |-> 0]
    /\ frames = [c \in Conns |-> <<>>]
    /\ connection = None
    /\ status = "active"
    /\ history = <<>>
    /\ queue = <<>>
    /\ snapshot = 0
    /\ task = [t \in Turns |-> "new"]
    /\ via = [t \in Turns |-> None]
    /\ chunk = [t \in Turns |-> 0]

Handler(c) ==
    \/ Connect(c) \/ PeerDrop(c) \/ Reject(c)
    \/ Attach(c) \/ AttachSent(c) \/ AttachFail(c)
    \/ DrainStep(c) \/ DrainEnd(c)
    \/ Detach(c) \/ Dropped(c)

Request(t) ==
    \/ Refuse(t) \/ StartPush(t) \/ LlmFails(t) \/ Reply(t) \/ ReplyEmpty(t)
    \/ StartStream(t) \/ Chunk(t) \/ StreamEnd(t) \/ StreamEmpty(t)
    \/ SendSucceeds(t) \/ SendFails(t)

Next == (\E c \in Conns : Handler(c)) \/ (\E t \in Turns : Request(t))

(* What the runtime guarantees: the LLM call ends (httpx, timeout 120 s),  *)
(* a send completes or raises and a lost peer is noticed (the keepalive    *)
(* pings of the WebSocket server), and the loop runs what is ready.        *)
Answer(t) == LlmFails(t) \/ Reply(t) \/ ReplyEmpty(t) \/ StreamEnd(t) \/ StreamEmpty(t)

Fairness ==
    /\ \A t \in Turns : /\ WF_vars(Answer(t))
                        /\ WF_vars(SendSucceeds(t) \/ SendFails(t))
    /\ \A c \in Conns : /\ WF_vars(AttachSent(c) \/ AttachFail(c))
                        /\ WF_vars(DrainStep(c) \/ DrainEnd(c))
                        /\ WF_vars(Dropped(c))

Spec == Init /\ [][Next]_vars
FairSpec == Spec /\ Fairness
=============================================================================
