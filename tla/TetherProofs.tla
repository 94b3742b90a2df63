---------------------------- MODULE TetherProofs ----------------------------
(***************************************************************************)
(* Proofs about Tether, for every set of connections and of turns.         *)
(***************************************************************************)
EXTENDS TetherProps, FiniteSetTheorems, TLAPS

(* The step count of a history is a number. *)
LEMMA StepCountType ==
    ASSUME NEW h \in Seq(Message)
    PROVE  StepCount(h) \in Nat
<1> DEFINE S == {i \in DOMAIN h : h[i].role = "assistant"}
<1>1. IsFiniteSet(1..Len(h)) /\ DOMAIN h = 1..Len(h)
  BY FS_Interval
<1>2. IsFiniteSet(S)
  BY <1>1, FS_Subset
<1>3. QED
  BY <1>2, FS_CardinalityType DEF StepCount

LEMMA CheckpointType ==
    ASSUME NEW h \in Seq(Message), snapshot \in Nat
    PROVE  Checkpoint(h) \in Nat
  BY StepCountType DEF Checkpoint

(* What a request says extends the history with a message. *)
LEMMA SaidType ==
    ASSUME NEW t \in Turns \cup {None}, NEW r \in {"user", "assistant"},
           history \in Seq(Message)
    PROVE  Said(r, t) \in Seq(Message)
  BY DEF Said, Message

LEMMA WrittenType ==
    ASSUME NEW c \in Conns, NEW f \in Frame, frames \in [Conns -> Seq(Frame)]
    PROVE  Written(c, f) \in [Conns -> Seq(Frame)]
  BY DEF Written

(* A frame sent by a request goes to the registered connection.            *)
LEMMA SendType ==
    ASSUME NEW t \in Turns, NEW f \in Frame, NEW next \in TaskStates, TypeOK,
           connection # None, Send(t, f, next)
    PROVE  /\ frames' \in [Conns -> Seq(Frame)]
           /\ task' \in [Turns -> TaskStates]
           /\ via' \in [Turns -> Conns \cup {None}]
<1>1. connection \in Conns
  BY DEF TypeOK
<1>2. frames' \in [Conns -> Seq(Frame)]
  BY <1>1, WrittenType DEF Send, TypeOK
<1>3. QED BY <1>1, <1>2 DEF Send, TypeOK

(* An emitted turn is handed to the registered connection or enqueued.     *)
LEMMA EmitType ==
    ASSUME NEW t \in Turns, NEW live \in Frame, NEW buffered \in Frame, TypeOK,
           Emit(t, live, buffered)
    PROVE  /\ frames' \in [Conns -> Seq(Frame)]
           /\ queue' \in Seq(Frame)
           /\ task' \in [Turns -> TaskStates]
           /\ via' \in [Turns -> Conns \cup {None}]
<1> USE DEF TypeOK, TaskStates
<1>1. CASE connection # None
  <2>1. Send(t, live, "sending") /\ UNCHANGED queue
    BY <1>1 DEF Emit
  <2>2. QED BY <1>1, <2>1, SendType
<1>2. CASE connection = None
  <2>1. Buffer(t, buffered)
    BY <1>2 DEF Emit
  <2>2. QED BY <2>1 DEF Buffer, Enqueue
<1>3. QED BY <1>1, <1>2

(* Every action leaves the state well typed. *)
LEMMA TypeStep == TypeOK /\ [Next]_vars => TypeOK'
<1> SUFFICES ASSUME TypeOK, [Next]_vars PROVE TypeOK'
  OBVIOUS
<1> USE TetherAssumption
<1>1. ASSUME NEW c \in Conns, Handler(c) PROVE TypeOK'
  <2> USE DEF TypeOK, HandlerStates, conns, store, tasks
  <2>1. CASE Connect(c) BY <2>1 DEF Connect
  <2>2. CASE PeerDrop(c) BY <2>2 DEF PeerDrop
  <2>3. CASE Reject(c)
    <3>1. [type |-> "ERROR", turn |-> None, n |-> 0] \in Frame
      BY DEF Frame, FrameTypes
    <3>2. frames' \in [Conns -> Seq(Frame)]
      BY <2>3, <3>1, WrittenType DEF Reject
    <3>3. QED BY <2>3, <3>2 DEF Reject, Hangup
  <2>4. CASE Attach(c)
    <3>1. [type |-> "SESSION_ATTACHED", turn |-> None, n |-> Len(queue)] \in Frame
      BY DEF Frame, FrameTypes
    <3>2. QED BY <2>4, <3>1, WrittenType DEF Attach, Register
  <2>5. CASE AttachSent(c) BY <2>5 DEF AttachSent
  <2>6. CASE AttachFail(c) BY <2>6 DEF AttachFail
  <2>7. CASE DrainStep(c)
    <3>1. tetherTurns[c][drained[c] + 1] \in Frame
      <4>1. drained[c] + 1 \in DOMAIN tetherTurns[c] /\ tetherTurns[c] \in Seq(Frame)
        BY <2>7 DEF DrainStep
      <4>2. QED BY <4>1
    <3>2. frames' \in [Conns -> Seq(Frame)]
      BY <2>7, <3>1, WrittenType DEF DrainStep
    <3>3. QED BY <2>7, <3>2 DEF DrainStep
  <2>8. CASE DrainEnd(c) BY <2>8 DEF DrainEnd
  <2>9. CASE Detach(c) BY <2>9 DEF Detach, Hangup, Release
  <2>10. CASE Dropped(c) BY <2>10 DEF Dropped, Release
  <2>11. QED BY <1>1, <2>1, <2>2, <2>3, <2>4, <2>5, <2>6, <2>7, <2>8, <2>9, <2>10 DEF Handler
<1>2. ASSUME NEW t \in Turns, Request(t) PROVE TypeOK'
  <2> USE DEF TypeOK, TaskStates, conns, store, tasks
  <2>1. ASSUME Accept(t) PROVE history' \in Seq(Message)
    BY <2>1, SaidType DEF Accept
  <2>2. CASE Refuse(t) BY <2>1, <2>2 DEF Refuse, Accept
  <2>3. CASE StartPush(t) BY <2>1, <2>3 DEF StartPush, Accept
  <2>4. CASE StartStream(t) BY <2>1, <2>4 DEF StartStream, Accept
  <2>5. CASE LlmFails(t) BY <2>5 DEF LlmFails
  <2>6. CASE Reply(t)
    <3> DEFINE h == Said("assistant", t)
               f == TurnFrame(t, StepCount(h))
    <3>1. h \in Seq(Message) /\ Checkpoint(h) \in Nat /\ StepCount(h) \in Nat
      BY SaidType, CheckpointType, StepCountType
    <3>2. f \in Frame
      BY <3>1 DEF TurnFrame, Frame, FrameTypes
    <3>3. Emit(t, f, f) /\ history' = h /\ snapshot' = Checkpoint(h)
          /\ UNCHANGED <<conns, connection, status, chunk>>
      BY <2>6 DEF Reply
    <3>4. QED BY <3>1, <3>2, <3>3, EmitType
  <2>7. CASE ReplyEmpty(t) BY <2>7, CheckpointType DEF ReplyEmpty
  <2>8. CASE Chunk(t)
    <3> DEFINE f == [type |-> "TURN_CHUNK", turn |-> t, n |-> chunk[t] + 1]
    <3>1. f \in Frame /\ chunk' \in [Turns -> 0..Chunks]
      BY <2>8 DEF Chunk, Frame, FrameTypes
    <3>2. frames' \in [Conns -> Seq(Frame)] /\ via' \in [Turns -> Conns \cup {None}]
          /\ task' \in [Turns -> TaskStates]
      BY <2>8, <3>1, SendType DEF Chunk
    <3>3. QED BY <2>8, <3>1, <3>2 DEF Chunk
  <2>9. CASE StreamEnd(t)
    <3> DEFINE h == Said("assistant", t)
               live == [type |-> "TURN_COMPLETE", turn |-> t, n |-> 0]
               buffered == TurnFrame(t, 0)
    <3>1. h \in Seq(Message)
      BY SaidType
    <3>2. live \in Frame /\ buffered \in Frame
      BY DEF TurnFrame, Frame, FrameTypes
    <3>3. Emit(t, live, buffered) /\ history' = h
          /\ UNCHANGED <<conns, connection, status, snapshot, chunk>>
      BY <2>9 DEF StreamEnd
    <3>4. QED BY <3>1, <3>2, <3>3, EmitType
  <2>10. CASE StreamEmpty(t) BY <2>10 DEF StreamEmpty
  <2>11. CASE SendSucceeds(t) BY <2>11 DEF SendSucceeds, Sent
  <2>12. CASE SendFails(t) BY <2>12 DEF SendFails, Sent
  <2>13. QED BY <1>2, <2>2, <2>3, <2>4, <2>5, <2>6, <2>7, <2>8, <2>9, <2>10, <2>11, <2>12
         DEF Request
<1>3. CASE UNCHANGED vars
  BY <1>3 DEF vars, conns, store, tasks, TypeOK
<1>4. QED BY <1>1, <1>2, <1>3 DEF Next

(* The variables keep their types: the session's stores, the registry and  *)
(* every handler and request, for any number of them.                      *)
THEOREM TypeCorrect == Spec => []TypeOK
<1>1. Init => TypeOK
  BY TetherAssumption DEF Init, TypeOK, HandlerStates, TaskStates
<1>2. QED BY <1>1, TypeStep, PTL DEF Spec

-----------------------------------------------------------------------------
(* A surface is registered only while the session is active, whoever ends, *)
(* attaches or fails in between.                                           *)
THEOREM RegisteredOnlyWhileActive == Spec => []AttachedIsActive
<1>1. Init => AttachedIsActive
  BY DEF Init, AttachedIsActive
<1>2. AttachedIsActive /\ [Next]_vars => AttachedIsActive'
  <2> SUFFICES ASSUME AttachedIsActive, [Next]_vars PROVE AttachedIsActive'
    OBVIOUS
  <2> USE DEF AttachedIsActive, store
  <2>1. ASSUME NEW c \in Conns, Handler(c) PROVE AttachedIsActive'
    BY <2>1 DEF Handler, Connect, PeerDrop, Reject, Attach, Register, AttachSent, AttachFail,
                DrainStep, DrainEnd, Detach, Dropped, Release
  <2>2. ASSUME NEW t \in Turns, Request(t) PROVE AttachedIsActive'
    BY <2>2 DEF Request, Accept, Refuse, StartPush, StartStream, LlmFails, Reply, ReplyEmpty,
                Chunk, StreamEnd, StreamEmpty, Sent, SendSucceeds, SendFails, conns, tasks
  <2>3. CASE UNCHANGED vars
    BY <2>3 DEF vars
  <2>4. QED BY <2>1, <2>2, <2>3 DEF Next
<1>3. QED BY <1>1, <1>2, PTL DEF Spec

-----------------------------------------------------------------------------
(* HandshakeFirst.  Only Connect, Reject, Attach and the writes can disturb *)
(* it; a write by a producer goes to the registered connection, and that    *)
(* one, if its socket is open, was acknowledged.                            *)

(* A frame of a turn after an acknowledgement keeps the frames in order.    *)
LEMMA OpenedAppend ==
    ASSUME NEW s \in Seq(Frame), s # <<>>, s[1].type # "ERROR", WellOpened(s),
           NEW f \in Frame, f.type \notin {"SESSION_ATTACHED", "ERROR"}
    PROVE  /\ WellOpened(Append(s, f))
           /\ Append(s, f) # <<>>
           /\ Append(s, f)[1] = s[1]
<1>1. 1 \in DOMAIN s /\ Len(s) \in Nat /\ Len(s) > 0
  OBVIOUS
<1>2. Append(s, f)[1] = s[1] /\ Len(Append(s, f)) = Len(s) + 1 /\ Append(s, f) # <<>>
  BY <1>1
<1>3. ASSUME NEW i \in DOMAIN Append(s, f)
      PROVE  /\ Append(s, f)[i].type = "SESSION_ATTACHED" <=> i = 1
             /\ Append(s, f)[i].type # "ERROR"
  <2>1. CASE i = Len(s) + 1
    BY <1>1, <2>1
  <2>2. CASE i \in DOMAIN s
    <3>1. Append(s, f)[i] = s[i]
      BY <2>2
    <3>2. s[i].type # "ERROR"
      BY <2>2, <1>1 DEF WellOpened
    <3>3. QED BY <2>2, <3>1, <3>2 DEF WellOpened
  <2>3. QED BY <2>1, <2>2
<1>4. QED BY <1>2, <1>3 DEF WellOpened

(* Such a write to a connection that was acknowledged preserves what is     *)
(* known of every connection, if its handler and socket stay as they are.   *)
LEMMA WriteKeepsHandshake ==
    ASSUME TypeOK, HandshakeInv, NEW c \in Conns, NEW f \in Frame,
           f.type \notin {"SESSION_ATTACHED", "ERROR"},
           handler[c] \notin {"new", "handshake"},
           frames' = Written(c, f), UNCHANGED <<socket, handler, connection>>
    PROVE  HandshakeFirst' /\ \A d \in Conns : Acknowledged(d)'
<1> SUFFICES ASSUME NEW d \in Conns PROVE WellOpened(frames[d])' /\ Acknowledged(d)'
  BY DEF HandshakeFirst
<1>1. WellOpened(frames[d]) /\ Acknowledged(d) /\ frames[d] \in Seq(Frame)
  BY DEF HandshakeInv, HandshakeFirst, TypeOK
<1>2. CASE d = c /\ socket[c] = "open"
  <2>1. frames'[d] = Append(frames[d], f)
    BY <1>2 DEF Written, TypeOK
  <2>2. frames[d] # <<>> /\ frames[d][1].type # "ERROR"
    BY <1>1, <1>2 DEF Acknowledged, TypeOK, HandlerStates
  <2>3. WellOpened(frames'[d]) /\ frames'[d] # <<>> /\ frames'[d][1] = frames[d][1]
    BY <1>1, <2>1, <2>2, OpenedAppend
  <2>4. Acknowledged(d)'
    BY <1>1, <1>2, <2>2, <2>3 DEF Acknowledged
  <2>5. QED BY <2>3, <2>4 DEF WellOpened
<1>3. CASE ~(d = c /\ socket[c] = "open")
  <2>1. frames'[d] = frames[d]
    BY <1>3 DEF Written, TypeOK
  <2>2. QED BY <1>1, <2>1 DEF Acknowledged, WellOpened
<1>4. QED BY <1>2, <1>3

(* Where neither the frames nor a handler nor a socket change, and nobody   *)
(* is registered anew, nothing known of a connection is disturbed.          *)
LEMMA QuietKeepsHandshake ==
    ASSUME HandshakeInv, UNCHANGED <<frames, socket, handler>>,
           connection' \in {connection, None}, None \notin Conns
    PROVE  HandshakeFirst' /\ \A d \in Conns : Acknowledged(d)'
<1> SUFFICES ASSUME NEW d \in Conns PROVE WellOpened(frames[d])' /\ Acknowledged(d)'
  BY DEF HandshakeFirst
<1>1. WellOpened(frames[d]) /\ Acknowledged(d)
  BY DEF HandshakeInv, HandshakeFirst
<1>2. QED BY <1>1 DEF Acknowledged, WellOpened

LEMMA SendKeepsHandshake ==
    ASSUME TypeOK, HandshakeInv, NEW t \in Turns, NEW next \in TaskStates, NEW f \in Frame,
           f.type \notin {"SESSION_ATTACHED", "ERROR"},
           connection # None, Send(t, f, next), UNCHANGED <<socket, handler, connection>>
    PROVE  HandshakeFirst' /\ \A d \in Conns : Acknowledged(d)'
<1>1. connection \in Conns /\ Acknowledged(connection)
  BY DEF TypeOK, HandshakeInv
<1>2. handler[connection] \notin {"new", "handshake"}
  BY <1>1 DEF Acknowledged
<1>3. frames' = Written(connection, f)
  BY DEF Send
<1>4. QED BY <1>1, <1>2, <1>3, WriteKeepsHandshake

LEMMA EmitKeepsHandshake ==
    ASSUME TypeOK, HandshakeInv, NEW t \in Turns, NEW live \in Frame, NEW buffered \in Frame,
           live.type \notin {"SESSION_ATTACHED", "ERROR"}, buffered.type = "TETHER_TURN",
           buffered.turn \in Turns, Emit(t, live, buffered), UNCHANGED <<conns, connection>>
    PROVE  HandshakeInv'
<1> USE TetherAssumption
<1>1. CASE connection # None
  <2>1. Send(t, live, "sending") /\ UNCHANGED queue
    BY <1>1 DEF Emit
  <2>2. HandshakeFirst' /\ \A d \in Conns : Acknowledged(d)'
    BY <1>1, <2>1, SendKeepsHandshake DEF conns, TaskStates
  <2>3. QED BY <2>1, <2>2 DEF HandshakeInv, OnlyTurns, conns
<1>2. CASE connection = None
  <2>1. Buffer(t, buffered)
    BY <1>2 DEF Emit
  <2>2. HandshakeFirst' /\ \A d \in Conns : Acknowledged(d)'
    BY <2>1, QuietKeepsHandshake DEF Buffer, conns
  <2>3. OnlyTurns(queue)'
    BY <2>1 DEF HandshakeInv, OnlyTurns, Buffer, Enqueue, TypeOK
  <2>4. QED BY <2>2, <2>3 DEF HandshakeInv, OnlyTurns, conns
<1>3. QED BY <1>1, <1>2

LEMMA HandshakeStep == TypeOK /\ HandshakeInv /\ [Next]_vars => HandshakeInv'
<1> SUFFICES ASSUME TypeOK, HandshakeInv, [Next]_vars PROVE HandshakeInv'
  OBVIOUS
<1> USE TetherAssumption
<1>q. ASSUME UNCHANGED <<frames, socket, handler, tetherTurns>>,
             connection' \in {connection, None}, queue' = queue
      PROVE  HandshakeInv'
  <2>1. HandshakeFirst' /\ \A d \in Conns : Acknowledged(d)'
    BY <1>q, QuietKeepsHandshake
  <2>2. QED BY <1>q, <2>1 DEF HandshakeInv, OnlyTurns
<1>1. ASSUME NEW c \in Conns, Handler(c) PROVE HandshakeInv'
  <2> USE DEF conns, store, tasks, HandlerStates
  <2>0. \A d \in Conns : WellOpened(frames[d]) /\ Acknowledged(d)
    BY DEF HandshakeInv, HandshakeFirst
  <2>s. ASSUME UNCHANGED <<frames, queue, tetherTurns>>,
               \A d \in Conns : Acknowledged(d)'
        PROVE  HandshakeInv'
    BY <2>s DEF HandshakeInv, HandshakeFirst, OnlyTurns, WellOpened
  <2>1. CASE Connect(c) BY <2>0, <2>1, <2>s DEF Connect, Acknowledged, TypeOK
  <2>2. CASE PeerDrop(c) BY <2>0, <2>2, <2>s DEF PeerDrop, Acknowledged, TypeOK
  <2>3. CASE Reject(c)
    <3> DEFINE f == [type |-> "ERROR", turn |-> None, n |-> 0]
    <3>1. frames[c] = <<>> /\ connection # c
      BY <2>0, <2>3 DEF Reject, Acknowledged
    <3>2. frames'[c] \in {<<>>, <<f>>}
      BY <2>3, <3>1 DEF Reject, Written, TypeOK
    <3>3. \A d \in Conns \ {c} : frames'[d] = frames[d]
      BY <2>3 DEF Reject, Written, TypeOK
    <3>4. WellOpened(frames'[c])
      BY <3>2 DEF WellOpened
    <3>5. HandshakeFirst'
      BY <2>0, <3>3, <3>4 DEF HandshakeFirst, WellOpened
    <3>6. \A d \in Conns : Acknowledged(d)'
      BY <2>0, <2>3, <3>3 DEF Reject, Hangup, Acknowledged, TypeOK
    <3>7. QED BY <2>3, <3>5, <3>6 DEF HandshakeInv, Reject, OnlyTurns
  <2>4. CASE Attach(c)
    <3> DEFINE f == [type |-> "SESSION_ATTACHED", turn |-> None, n |-> Len(queue)]
    <3>1. frames[c] = <<>>
      BY <2>0, <2>4 DEF Attach, Acknowledged
    <3>2. frames'[c] = IF socket[c] = "open" THEN <<f>> ELSE <<>>
      BY <2>4, <3>1 DEF Attach, Written, TypeOK
    <3>3. \A d \in Conns \ {c} : frames'[d] = frames[d]
      BY <2>4 DEF Attach, Written, TypeOK
    <3>4. WellOpened(frames'[c])
      BY <3>2 DEF WellOpened
    <3>5. HandshakeFirst'
      BY <2>0, <3>3, <3>4 DEF HandshakeFirst, WellOpened
    <3>6. \A d \in Conns : Acknowledged(d)'
      BY <2>0, <2>4, <3>2, <3>3 DEF Attach, Register, Acknowledged, TypeOK
    <3>7. \A d \in Conns : OnlyTurns(tetherTurns'[d])
      BY <2>4 DEF Attach, HandshakeInv, OnlyTurns, TypeOK
    <3>8. QED BY <2>4, <3>5, <3>6, <3>7 DEF HandshakeInv, Attach, OnlyTurns
  <2>5. CASE AttachSent(c) BY <2>0, <2>5, <2>s DEF AttachSent, Acknowledged, TypeOK
  <2>6. CASE AttachFail(c) BY <2>0, <2>6, <2>s DEF AttachFail, Acknowledged, TypeOK
  <2>7. CASE DrainStep(c)
    <3> DEFINE f == tetherTurns[c][drained[c] + 1]
    <3>1. drained[c] + 1 \in DOMAIN tetherTurns[c] /\ tetherTurns[c] \in Seq(Frame)
      BY <2>7 DEF DrainStep, TypeOK
    <3>2. f \in Frame /\ f.type = "TETHER_TURN"
      BY <3>1 DEF HandshakeInv, OnlyTurns
    <3>3. HandshakeFirst' /\ \A d \in Conns : Acknowledged(d)'
      BY <2>7, <3>2, WriteKeepsHandshake DEF DrainStep
    <3>4. QED BY <2>7, <3>3 DEF HandshakeInv, DrainStep, OnlyTurns
  <2>8. CASE DrainEnd(c)
    <3>1. \A d \in Conns : Acknowledged(d)'
      BY <2>0, <2>8 DEF DrainEnd, Acknowledged, TypeOK
    <3>2. QED BY <2>8, <3>1 DEF HandshakeInv, DrainEnd, HandshakeFirst, OnlyTurns, WellOpened
  <2>9. CASE Detach(c) BY <2>0, <2>9, <2>s DEF Detach, Hangup, Release, Acknowledged, TypeOK
  <2>10. CASE Dropped(c) BY <2>0, <2>10, <2>s DEF Dropped, Release, Acknowledged, TypeOK
  <2>11. QED BY <1>1, <2>1, <2>2, <2>3, <2>4, <2>5, <2>6, <2>7, <2>8, <2>9, <2>10 DEF Handler
<1>2. ASSUME NEW t \in Turns, Request(t) PROVE HandshakeInv'
  <2> USE DEF conns, store, tasks
  <2>1. CASE Refuse(t) \/ StartPush(t) \/ StartStream(t)
    BY <1>q, <2>1 DEF Refuse, StartPush, StartStream, Accept
  <2>2. CASE LlmFails(t) \/ ReplyEmpty(t) \/ StreamEmpty(t)
    BY <1>q, <2>2 DEF LlmFails, ReplyEmpty, StreamEmpty
  <2>3. CASE Reply(t)
    <3> DEFINE f == TurnFrame(t, StepCount(Said("assistant", t)))
    <3>1. f \in Frame /\ f.type = "TETHER_TURN" /\ f.turn \in Turns
      BY SaidType, StepCountType DEF TurnFrame, Frame, FrameTypes, TypeOK
    <3>2. Emit(t, f, f) /\ UNCHANGED <<conns, connection>>
      BY <2>3 DEF Reply
    <3>3. QED BY <3>1, <3>2, EmitKeepsHandshake
  <2>4. CASE Chunk(t)
    <3> DEFINE f == [type |-> "TURN_CHUNK", turn |-> t, n |-> chunk[t] + 1]
    <3>1. f \in Frame /\ f.type \notin {"SESSION_ATTACHED", "ERROR"}
      BY DEF Frame, FrameTypes, TypeOK
    <3>2. CASE connection = None
      BY <1>q, <2>4, <3>2 DEF Chunk
    <3>3. CASE connection # None
      <4>1. Send(t, f, "chunking")
        BY <2>4, <3>3 DEF Chunk
      <4>2. HandshakeFirst' /\ \A d \in Conns : Acknowledged(d)'
        BY <2>4, <3>1, <3>3, <4>1, SendKeepsHandshake DEF Chunk, TaskStates
      <4>3. QED BY <2>4, <4>2 DEF HandshakeInv, Chunk, OnlyTurns
    <3>4. QED BY <3>2, <3>3
  <2>5. CASE StreamEnd(t)
    <3> DEFINE live == [type |-> "TURN_COMPLETE", turn |-> t, n |-> 0]
               buffered == TurnFrame(t, 0)
    <3>1. /\ live \in Frame /\ live.type \notin {"SESSION_ATTACHED", "ERROR"}
          /\ buffered \in Frame /\ buffered.type = "TETHER_TURN" /\ buffered.turn \in Turns
      BY DEF TurnFrame, Frame, FrameTypes
    <3>2. Emit(t, live, buffered) /\ UNCHANGED <<conns, connection>>
      BY <2>5 DEF StreamEnd
    <3>3. QED BY <3>1, <3>2, EmitKeepsHandshake
  <2>6. CASE SendSucceeds(t) \/ SendFails(t)
    BY <1>q, <2>6 DEF SendSucceeds, SendFails, Sent
  <2>7. QED BY <1>2, <2>1, <2>2, <2>3, <2>4, <2>5, <2>6 DEF Request
<1>3. CASE UNCHANGED vars
  BY <1>q, <1>3 DEF vars, conns, store
<1>4. QED BY <1>1, <1>2, <1>3 DEF Next

(* Nothing reaches a surface before its SESSION_ATTACHED, and nothing but   *)
(* its error reaches one that was refused, for any number of surfaces and   *)
(* requests and whatever the peers do.                                      *)
THEOREM AttachComesFirst == Spec => []HandshakeFirst
<1>1. Init => HandshakeInv
  BY TetherAssumption DEF Init, HandshakeInv, HandshakeFirst, WellOpened, OnlyTurns, Acknowledged
<1>2. HandshakeInv => HandshakeFirst
  BY DEF HandshakeInv
<1>3. QED BY <1>1, <1>2, HandshakeStep, TypeCorrect, PTL DEF Spec
=============================================================================
