------------------------ MODULE TetherDeliveryProofs ------------------------
(***************************************************************************)
(* What a surface is given, whatever the peers do: DeliveryInv is an       *)
(* inductive invariant of Tether, for every set of connections and of      *)
(* turns and with every fault.                                             *)
(*                                                                         *)
(* Every step is of one of six kinds, by what it does to the wires, the    *)
(* queue and what the handlers have read of it; each part of the invariant *)
(* is then shown kind by kind.                                             *)
(***************************************************************************)
EXTENDS TetherProofs, SequenceTheorems

-----------------------------------------------------------------------------
(* Control: a handler reads the queue once and sends what it has read.     *)

LEMMA ReadStep ==
    ASSUME TypeOK, ReadInv, [Next]_vars
    PROVE  ReadInv'
<1> USE DEF ReadInv, Serving
<1>1. ASSUME NEW c \in Conns, Handler(c) PROVE ReadInv'
  <2> USE DEF TypeOK, HandlerStates, conns, store, tasks
  <2>1. CASE Connect(c) BY <2>1 DEF Connect
  <2>2. CASE PeerDrop(c) BY <2>2 DEF PeerDrop
  <2>3. CASE Reject(c) BY <2>3 DEF Reject, Hangup
  <2>4. CASE Attach(c)
    <3>1. Len(queue) \in Nat BY DEF TypeOK
    <3>2. QED BY <2>4, <3>1 DEF Attach
  <2>5. CASE AttachSent(c)
    <3>1. Len(<<>>) = 0 OBVIOUS
    <3>2. QED BY <2>5, <3>1 DEF AttachSent
  <2>6. CASE AttachFail(c) BY <2>6 DEF AttachFail
  <2>7. CASE DrainStep(c)
    <3>1. Len(tetherTurns[c]) \in Nat BY DEF TypeOK
    <3>2. QED BY <2>7, <3>1 DEF DrainStep
  <2>8. CASE DrainEnd(c) BY <2>8 DEF DrainEnd, DrainOver
  <2>9. CASE Detach(c) BY <2>9 DEF Detach, Hangup
  <2>10. CASE Dropped(c) BY <2>10 DEF Dropped
  <2>11. QED BY <1>1, <2>1, <2>2, <2>3, <2>4, <2>5, <2>6, <2>7, <2>8, <2>9, <2>10 DEF Handler
<1>2. ASSUME NEW t \in Turns, Request(t) PROVE ReadInv'
  <2>1. UNCHANGED conns
    BY <1>2 DEF Request, Refuse, StartPush, StartStream, Accept, LlmFails, Reply, ReplyEmpty,
                Chunk, StreamEnd, StreamEmpty, SendSucceeds, SendFails, Sent
  <2>2. QED BY <2>1 DEF conns
<1>3. CASE UNCHANGED vars
  BY <1>3 DEF vars, conns
<1>4. QED BY <1>1, <1>2, <1>3 DEF Next

-----------------------------------------------------------------------------
(* The six kinds of steps.                                                 *)

LEMMA AppendShape ==
    ASSUME NEW S, NEW s \in Seq(S), NEW e \in S
    PROVE  /\ Append(s, e) \in Seq(S) /\ Len(s) \in Nat
           /\ DOMAIN Append(s, e) = DOMAIN s \cup {Len(s) + 1}
           /\ Append(s, e)[Len(s) + 1] = e
           /\ \A i \in DOMAIN s : Append(s, e)[i] = s[i] /\ i \in Nat /\ i < Len(s) + 1
  OBVIOUS

(* The frame f is added to those of connection c. *)
Adds(c, f) == f \in Frame /\ frames' = [frames EXCEPT ![c] = Append(@, f)]

(* No request takes a turn back. *)
Onward == \A t \in Turns : (Unemitted(t)' => Unemitted(t)) /\ chunk[t] <= chunk'[t]

Emits(t) == Unemitted(t) /\ ~Unemitted(t)' /\ history' = Said("assistant", t)

QuietKind == queue' \in {queue, <<>>} /\ UNCHANGED <<frames, tetherTurns, drained>>
TalkKind(c, f) ==
    /\ Adds(c, f) /\ f.type \in {"ERROR", "TURN_CHUNK"}
    /\ f.type = "TURN_CHUNK" =>
           f.turn \in Streams /\ Unemitted(f.turn) /\ f.n = chunk[f.turn] + 1 /\ f.n = chunk'[f.turn]
    /\ UNCHANGED <<queue, tetherTurns, drained>>
ReadKind(c) ==
    /\ frames[c] = <<>> /\ drained[c] = 0
    /\ \/ UNCHANGED frames
       \/ Adds(c, [type |-> "SESSION_ATTACHED", turn |-> None, n |-> Len(queue)])
    /\ tetherTurns' = [tetherTurns EXCEPT ![c] = queue]
    /\ UNCHANGED <<queue, drained>>
DrainKind(c) ==
    /\ drained[c] + 1 \in DOMAIN tetherTurns[c]
    /\ Adds(c, tetherTurns[c][drained[c] + 1])
    /\ drained' = [drained EXCEPT ![c] = @ + 1]
    /\ UNCHANGED <<queue, tetherTurns>>
PushKind(t, c, f) ==
    /\ Emits(t) /\ f.turn = t /\ Numbered(f)' /\ Covered(f)'
    /\ f.type = "TETHER_TURN" \/ (f.type = "TURN_COMPLETE" /\ t \in Streams)
    /\ Adds(c, f)
    /\ UNCHANGED <<queue, tetherTurns, drained>>
HoldKind(t, f) ==
    /\ Emits(t) /\ f.turn = t /\ f.type = "TETHER_TURN" /\ f \in Frame
    /\ Numbered(f)' /\ Covered(f)'
    /\ queue' = Append(queue, f)
    /\ UNCHANGED <<frames, tetherTurns, drained>>

Kinds ==
    \/ QuietKind
    \/ \E c \in Conns, f \in Frame : TalkKind(c, f)
    \/ \E c \in Conns : ReadKind(c) \/ DrainKind(c)
    \/ \E t \in Turns, c \in Conns, f \in Frame : PushKind(t, c, f)
    \/ \E t \in Turns, f \in Frame : HoldKind(t, f)

(* A write adds its frame or, into a transport that is not open, nothing. *)
LEMMA WriteAdds ==
    ASSUME TypeOK, NEW c \in Conns, NEW f \in Frame, frames' = Written(c, f)
    PROVE  IF socket[c] = "open" THEN Adds(c, f) ELSE UNCHANGED frames
  BY DEF Written, Adds, TypeOK

LEMMA AddsShape ==
    ASSUME TypeOK, NEW c \in Conns, NEW f, Adds(c, f)
    PROVE  /\ f \in Frame /\ Len(frames[c]) \in Nat
           /\ frames'[c] = Append(frames[c], f)
           /\ DOMAIN frames'[c] = DOMAIN frames[c] \cup {Len(frames[c]) + 1}
           /\ frames'[c][Len(frames[c]) + 1] = f
           /\ \A i \in DOMAIN frames[c] : i \in Nat /\ i < Len(frames[c]) + 1 /\ frames'[c][i] = frames[c][i]
           /\ \A d \in Conns \ {c} : frames'[d] = frames[d]
<1>1. f \in Frame /\ frames[c] \in Seq(Frame) /\ frames'[c] = Append(frames[c], f)
      /\ \A d \in Conns \ {c} : frames'[d] = frames[d]
  BY DEF Adds, TypeOK
<1>2. QED BY <1>1, AppendShape

LEMMA OnwardStep ==
    ASSUME TypeOK, [Next]_vars
    PROVE  Onward
<1> USE DEF Onward, Unemitted, TypeOK, TaskStates
<1>1. ASSUME NEW c \in Conns, Handler(c) PROVE UNCHANGED tasks
  BY <1>1 DEF Handler, Connect, PeerDrop, Reject, Attach, AttachSent, AttachFail, DrainStep, DrainEnd,
              Detach, Dropped
<1>2. ASSUME NEW t \in Turns, Request(t) PROVE Onward
  <2> USE DEF conns, store, tasks
  <2>1. CASE Refuse(t) \/ StartPush(t) \/ StartStream(t)
    BY <2>1 DEF Refuse, StartPush, StartStream, Accept
  <2>2. CASE LlmFails(t) \/ ReplyEmpty(t) \/ StreamEmpty(t)
    BY <2>2 DEF LlmFails, ReplyEmpty, StreamEmpty
  <2>3. CASE Reply(t) BY <2>3 DEF Reply, Emit, Send, Buffer
  <2>4. CASE Chunk(t) BY <2>4 DEF Chunk, Send
  <2>5. CASE StreamEnd(t) BY <2>5 DEF StreamEnd, Emit, Send, Buffer
  <2>6. CASE SendSucceeds(t) \/ SendFails(t)
    BY <2>6 DEF SendSucceeds, SendFails, Sent
  <2>7. QED BY <1>2, <2>1, <2>2, <2>3, <2>4, <2>5, <2>6 DEF Request
<1>3. ASSUME UNCHANGED tasks PROVE Onward
  BY <1>3 DEF tasks
<1>4. QED BY <1>1, <1>2, <1>3 DEF Next, vars

(* What is said is the last message of the history. *)
LEMMA SaidIsLast ==
    ASSUME TypeOK, NEW t \in Turns, NEW h, h = Said("assistant", t)
    PROVE  /\ h \in Seq(Message) /\ Len(h) \in DOMAIN h /\ Len(h) = Len(history) + 1
           /\ h[Len(h)] = [role |-> "assistant", turn |-> t]
           /\ DOMAIN h = 1 .. Len(h)
<1> DEFINE m == [role |-> "assistant", turn |-> t]
<1>1. m \in Message /\ history \in Seq(Message) /\ h = Append(history, m)
  BY DEF Message, Said, TypeOK
<1> HIDE DEF m
<1>2. h \in Seq(Message) /\ Len(h) = Len(history) + 1 /\ h[Len(h)] = m /\ Len(history) \in Nat
  BY <1>1
<1>3. QED BY <1>2 DEF m

(* A turn is numbered by the history that ends with it, and a snapshot is  *)
(* taken of it if its step is a checkpoint.                                *)
LEMMA ReplyIsNumbered ==
    ASSUME TypeOK, NEW t \in Turns, NEW f, f.type = "TETHER_TURN", f.turn = t,
           f.n = StepCount(Said("assistant", t)), history' = Said("assistant", t),
           snapshot' = Checkpoint(Said("assistant", t))
    PROVE  Numbered(f)' /\ Covered(f)'
<1>1. PICK h : h = Said("assistant", t)
  OBVIOUS
<1>2. /\ h \in Seq(Message) /\ Len(h) \in DOMAIN h /\ DOMAIN h = 1 .. Len(h)
      /\ h[Len(h)] = [role |-> "assistant", turn |-> t]
  BY <1>1, SaidIsLast
<1>3. Numbered(f)'
  <2>1. history' = h /\ AnswersUpTo(Len(h))' = {k \in DOMAIN h : h[k].role = "assistant"}
    BY <1>1, <1>2 DEF AnswersUpTo
  <2>2. f.n = Cardinality(AnswersUpTo(Len(h)))'
    BY <1>1, <2>1 DEF StepCount
  <2>3. QED BY <1>2, <2>1, <2>2 DEF Numbered
<1>4. StepCount(h) \in Nat
  BY <1>2, StepCountType
<1>5. Covered(f)'
  BY <1>1, <1>4, TetherAssumption DEF Covered, Checkpoint
<1>6. QED BY <1>3, <1>5

(* An emission is a push, or a hold, or a push that nobody takes.          *)
LEMMA EmitKind ==
    ASSUME TypeOK, NEW t \in Turns, NEW live \in Frame, NEW buffered \in Frame, Unemitted(t),
           live.turn = t, live.type = "TETHER_TURN" \/ (live.type = "TURN_COMPLETE" /\ t \in Streams),
           buffered.turn = t, buffered.type = "TETHER_TURN",
           Emit(t, live, buffered), UNCHANGED conns, history' = Said("assistant", t),
           Numbered(live)', Covered(live)', Numbered(buffered)', Covered(buffered)'
    PROVE  Kinds
<1>1. CASE connection # None
  <2>1. Send(t, live, "sending") /\ UNCHANGED queue /\ connection \in Conns
    BY <1>1 DEF Emit, TypeOK
  <2>2. Emits(t)
    BY <2>1 DEF Emits, Send, Unemitted, TypeOK
  <2>3. Adds(connection, live) \/ UNCHANGED frames
    BY <2>1, WriteAdds DEF Send
  <2>4. QED BY <2>1, <2>2, <2>3 DEF Kinds, PushKind, QuietKind, conns
<1>2. CASE connection = None
  <2>1. Buffer(t, buffered)
    BY <1>2 DEF Emit
  <2>2. Emits(t)
    BY <2>1 DEF Emits, Buffer, Unemitted, TypeOK
  <2>3. HoldKind(t, buffered)
    BY <2>1, <2>2 DEF HoldKind, Buffer, Enqueue, conns
  <2>4. QED BY <2>3 DEF Kinds
<1>3. QED BY <1>1, <1>2

LEMMA StepKinds ==
    ASSUME TypeOK, HandshakeInv, ReadInv, [Next]_vars
    PROVE  Kinds
<1> USE TetherAssumption
<1>q. ASSUME QuietKind PROVE Kinds
  BY <1>q DEF Kinds
<1>1. ASSUME NEW c \in Conns, Handler(c) PROVE Kinds
  <2> USE DEF conns, store, tasks
  <2>1. CASE Connect(c) \/ PeerDrop(c) \/ AttachSent(c) \/ AttachFail(c) \/ DrainEnd(c)
             \/ Detach(c) \/ Dropped(c)
    <3>1. QuietKind
      BY <2>1 DEF QuietKind, Connect, PeerDrop, AttachSent, AttachFail, DrainEnd, Detach, Dropped
    <3>2. QED BY <1>q, <3>1
  <2>2. CASE Reject(c)
    <3> DEFINE f == [type |-> "ERROR", turn |-> None, n |-> 0]
    <3>1. f \in Frame /\ f.type = "ERROR" BY DEF Frame, FrameTypes
    <3>2. UNCHANGED frames \/ frames' = Written(c, f)
      BY <2>2 DEF Reject
    <3>3. UNCHANGED frames \/ Adds(c, f)
      BY <3>1, <3>2, WriteAdds
    <3>4. QuietKind \/ TalkKind(c, f)
      BY <2>2, <3>1, <3>3 DEF QuietKind, TalkKind, Reject
    <3>5. QED BY <3>1, <3>4 DEF Kinds
  <2>3. CASE Attach(c)
    <3> DEFINE f == [type |-> "SESSION_ATTACHED", turn |-> None, n |-> Len(queue)]
    <3>1. f \in Frame BY DEF Frame, FrameTypes, TypeOK
    <3>2. UNCHANGED frames \/ Adds(c, f)
      BY <2>3, <3>1, WriteAdds DEF Attach
    <3>3. frames[c] = <<>> /\ drained[c] = 0
      BY <2>3 DEF Attach, HandshakeInv, Acknowledged, ReadInv
    <3>4. ReadKind(c)
      BY <2>3, <3>2, <3>3 DEF ReadKind, Attach
    <3>5. QED BY <3>4 DEF Kinds
  <2>4. CASE DrainStep(c)
    <3> DEFINE f == tetherTurns[c][drained[c] + 1]
    <3>1. drained[c] + 1 \in DOMAIN tetherTurns[c] /\ tetherTurns[c] \in Seq(Frame)
      BY <2>4 DEF DrainStep, TypeOK
    <3>2. f \in Frame BY <3>1
    <3>3. socket[c] = "open"
      BY <2>4 DEF DrainStep, ReadInv, Serving
    <3>4. Adds(c, f)
      BY <2>4, <3>2, <3>3, WriteAdds DEF DrainStep
    <3>5. DrainKind(c)
      BY <2>4, <3>1, <3>4 DEF DrainKind, DrainStep
    <3>6. QED BY <3>5 DEF Kinds
  <2>5. QED BY <1>1, <2>1, <2>2, <2>3, <2>4 DEF Handler
<1>2. ASSUME NEW t \in Turns, Request(t) PROVE Kinds
  <2> USE DEF conns, store, tasks
  <2>1. CASE Refuse(t) \/ StartPush(t) \/ StartStream(t) \/ LlmFails(t) \/ ReplyEmpty(t) \/ StreamEmpty(t)
             \/ SendSucceeds(t) \/ SendFails(t)
    <3>1. QuietKind
      BY <2>1 DEF QuietKind, Refuse, StartPush, StartStream, Accept, LlmFails, ReplyEmpty, StreamEmpty,
                  SendSucceeds, SendFails, Sent
    <3>2. QED BY <1>q, <3>1
  <2>2. CASE Reply(t)
    <3>1. PICK f : f = TurnFrame(t, StepCount(Said("assistant", t)))
      OBVIOUS
    <3>2. f \in Frame /\ f.type = "TETHER_TURN" /\ f.turn = t
      BY <3>1, SaidType, StepCountType DEF TurnFrame, Frame, FrameTypes, TypeOK
    <3>3. Emit(t, f, f) /\ history' = Said("assistant", t) /\ UNCHANGED conns /\ Unemitted(t)
          /\ snapshot' = Checkpoint(Said("assistant", t))
      BY <2>2, <3>1 DEF Reply, Unemitted
    <3>4. Numbered(f)' /\ Covered(f)'
      BY <3>1, <3>3, ReplyIsNumbered DEF TurnFrame
    <3>5. QED BY <3>2, <3>3, <3>4, EmitKind
  <2>3. CASE Chunk(t)
    <3> DEFINE f == [type |-> "TURN_CHUNK", turn |-> t, n |-> chunk[t] + 1]
    <3>1. f \in Frame /\ f.type = "TURN_CHUNK" /\ f.turn \in Streams /\ Unemitted(t) /\ f.turn = t
          /\ f.n = chunk[t] + 1 /\ f.n = chunk'[t]
      BY <2>3 DEF Frame, FrameTypes, TypeOK, Unemitted, Chunk
    <3>2. UNCHANGED <<queue, tetherTurns, drained>>
      BY <2>3 DEF Chunk
    <3>3. CASE connection = None
      BY <2>3, <1>q, <3>2, <3>3 DEF Chunk, QuietKind
    <3>4. CASE connection # None
      <4>1. Send(t, f, "chunking") /\ connection \in Conns
        BY <2>3, <3>4 DEF Chunk, TypeOK
      <4>2. UNCHANGED frames \/ Adds(connection, f)
        BY <3>1, <4>1, WriteAdds DEF Send
      <4> HIDE DEF f
      <4>3. QuietKind \/ TalkKind(connection, f)
        BY <3>1, <3>2, <4>2 DEF QuietKind, TalkKind
      <4>4. QED BY <3>1, <4>1, <4>3 DEF Kinds
    <3>5. QED BY <3>3, <3>4
  <2>4. CASE StreamEnd(t)
    <3> DEFINE live == [type |-> "TURN_COMPLETE", turn |-> t, n |-> 0]
               buffered == TurnFrame(t, 0)
    <3>1. /\ live \in Frame /\ live.type = "TURN_COMPLETE" /\ live.turn = t
          /\ buffered \in Frame /\ buffered.type = "TETHER_TURN" /\ buffered.turn = t
      BY DEF TurnFrame, Frame, FrameTypes
    <3>2. /\ Emit(t, live, buffered) /\ history' = Said("assistant", t)
          /\ UNCHANGED conns /\ Unemitted(t) /\ t \in Streams
      BY <2>4 DEF StreamEnd, Unemitted
    <3>3. Numbered(live)' /\ Covered(live)'
      BY DEF Numbered, Covered
    <3>4. Numbered(buffered)' /\ Covered(buffered)'
      <4>1. t \notin Pushes
        BY <3>2
      <4>2. Len(history') \in DOMAIN history' /\ history'[Len(history')] = [role |-> "assistant", turn |-> t]
        BY <3>2, SaidIsLast
      <4>3. QED BY <4>1, <4>2 DEF Numbered, Covered, TurnFrame
    <3>5. QED BY <3>1, <3>2, <3>3, <3>4, EmitKind
  <2>5. QED BY <1>2, <2>1, <2>2, <2>3, <2>4 DEF Request
<1>3. CASE UNCHANGED vars
  <2>1. QuietKind
    BY <1>3 DEF vars, conns, store, QuietKind
  <2>2. QED BY <1>q, <2>1
<1>4. QED BY <1>1, <1>2, <1>3 DEF Next

-----------------------------------------------------------------------------
(* Routes: AtMostOncePerConnection and RouteExclusive.                     *)

LEMMA GivenAdds ==
    ASSUME TypeOK, NEW c \in Conns, NEW f, Adds(c, f)
    PROVE  \A t : \A d \in Conns : GivenTo(t, d)' <=> GivenTo(t, d) \/ (d = c /\ EndsTurn(f) /\ f.turn = t)
<1> DEFINE n == Len(frames[c]) + 1
<1>1. /\ DOMAIN frames'[c] = DOMAIN frames[c] \cup {n} /\ frames'[c][n] = f
      /\ \A i \in DOMAIN frames[c] : frames'[c][i] = frames[c][i]
      /\ \A d \in Conns \ {c} : frames'[d] = frames[d]
  BY AddsShape
<1> HIDE DEF n
<1> SUFFICES ASSUME NEW t, NEW d \in Conns
             PROVE  GivenTo(t, d)' <=> GivenTo(t, d) \/ (d = c /\ EndsTurn(f) /\ f.turn = t)
  OBVIOUS
<1>2. CASE d = c
  BY <1>1, <1>2 DEF GivenTo
<1>3. CASE d # c
  BY <1>1, <1>3 DEF GivenTo
<1>4. QED BY <1>2, <1>3

(* No connection is given a turn twice, if the frame that is added to c    *)
(* ends no turn that c was given.                                          *)
LEMMA AddsOnce ==
    ASSUME TypeOK, AtMostOncePerConnection, NEW c \in Conns, NEW f, Adds(c, f),
           EndsTurn(f) => ~GivenTo(f.turn, c)
    PROVE  AtMostOncePerConnection'
<1> DEFINE n == Len(frames[c]) + 1
<1>1. /\ DOMAIN frames'[c] = DOMAIN frames[c] \cup {n} /\ frames'[c][n] = f
      /\ \A i \in DOMAIN frames[c] : frames'[c][i] = frames[c][i]
      /\ \A d \in Conns \ {c} : frames'[d] = frames[d]
  BY AddsShape
<1> HIDE DEF n
<1> SUFFICES ASSUME NEW d \in Conns, NEW i \in DOMAIN frames'[d], NEW j \in DOMAIN frames'[d],
                    EndsTurn(frames'[d][i]), EndsTurn(frames'[d][j]),
                    frames'[d][i].turn = frames'[d][j].turn
             PROVE  i = j
  BY DEF AtMostOncePerConnection, EndsTurn
<1>2. CASE d # c
  BY <1>1, <1>2 DEF AtMostOncePerConnection
<1>3. CASE d = c
  <2>1. CASE i \in DOMAIN frames[c] /\ j \in DOMAIN frames[c]
    BY <1>1, <1>3, <2>1 DEF AtMostOncePerConnection
  <2>2. CASE i = n /\ j \in DOMAIN frames[c]
    BY <1>1, <1>3, <2>2 DEF GivenTo
  <2>3. CASE j = n /\ i \in DOMAIN frames[c]
    BY <1>1, <1>3, <2>3 DEF GivenTo
  <2>4. QED BY <1>1, <1>3, <2>1, <2>2, <2>3
<1>4. QED BY <1>2, <1>3

LEMMA QueuedAppended ==
    ASSUME NEW q \in Seq(Frame), NEW f \in Frame
    PROVE  /\ \A t : QueuedIn(Append(q, f), t) <=> QueuedIn(q, t) \/ f.turn = t
           /\ Distinct(q) /\ ~QueuedIn(q, f.turn) => Distinct(Append(q, f))
<1>1. /\ DOMAIN Append(q, f) = DOMAIN q \cup {Len(q) + 1}
      /\ Append(q, f)[Len(q) + 1] = f
      /\ \A i \in DOMAIN q : Append(q, f)[i] = q[i]
  BY AppendShape
<1>2. QED BY <1>1 DEF QueuedIn, Distinct

LEMMA NothingQueued == Distinct(<<>>) /\ \A t : ~QueuedIn(<<>>, t)
  BY DEF Distinct, QueuedIn

LEMMA RouteStep ==
    ASSUME TypeOK, HandshakeInv, ReadInv, RouteInv, Onward, Kinds
    PROVE  RouteInv'
<1>0. /\ \A t \in Turns : Unemitted(t) =>
            ~QueuedIn(queue, t) /\ \A c \in Conns : ~QueuedIn(tetherTurns[c], t) /\ ~GivenTo(t, c)
      /\ Distinct(queue) /\ \A c \in Conns : Distinct(tetherTurns[c])
      /\ \A t \in Turns, c \in Conns : GivenTo(t, c) => DrainedTo(t, c) \/ PushedTo(t, c)
      /\ AtMostOncePerConnection
  BY DEF RouteInv
<1>u. \A t \in Turns : Unemitted(t)' => Unemitted(t)
  BY DEF Onward
<1>1. CASE QuietKind
  <2>1. \A t : \A c \in Conns : GivenTo(t, c)' <=> GivenTo(t, c)
    BY <1>1 DEF QuietKind, GivenTo
  <2>2. \A t : QueuedIn(queue', t) => QueuedIn(queue, t)
    BY <1>1, NothingQueued DEF QuietKind
  <2>3. Distinct(queue') /\ UNCHANGED <<tetherTurns, drained>>
    BY <1>0, <1>1, NothingQueued DEF QuietKind
  <2>4. AtMostOncePerConnection'
    BY <1>0, <1>1 DEF QuietKind, AtMostOncePerConnection
  <2>5. QED BY <1>0, <1>u, <2>1, <2>2, <2>3, <2>4 DEF RouteInv, DrainedTo, PushedTo, Distinct, QueuedIn
<1>2. ASSUME NEW c \in Conns, NEW f \in Frame, TalkKind(c, f) PROVE RouteInv'
  <2>1. ~EndsTurn(f) /\ Adds(c, f) /\ UNCHANGED <<queue, tetherTurns, drained>>
    BY <1>2 DEF TalkKind, EndsTurn
  <2>2. \A t : \A d \in Conns : GivenTo(t, d)' <=> GivenTo(t, d)
    BY <2>1, GivenAdds
  <2>3. AtMostOncePerConnection'
    BY <1>0, <2>1, AddsOnce
  <2>4. QED BY <1>0, <1>u, <2>1, <2>2, <2>3 DEF RouteInv, DrainedTo, PushedTo, Distinct, QueuedIn
<1>3. ASSUME NEW c \in Conns, ReadKind(c) PROVE RouteInv'
  <2> DEFINE f == [type |-> "SESSION_ATTACHED", turn |-> None, n |-> Len(queue)]
  <2>1. /\ frames[c] = <<>> /\ UNCHANGED <<queue, drained>>
        /\ UNCHANGED frames \/ Adds(c, f)
        /\ ~EndsTurn(f)
    BY <1>3 DEF ReadKind, EndsTurn
  <2>2. tetherTurns'[c] = queue /\ \A d \in Conns \ {c} : tetherTurns'[d] = tetherTurns[d]
    BY <1>3 DEF ReadKind, TypeOK
  <2>3. \A t : \A d \in Conns : GivenTo(t, d)' <=> GivenTo(t, d)
    <3>1. CASE UNCHANGED frames BY <3>1 DEF GivenTo
    <3>2. CASE Adds(c, f) BY <2>1, <3>2, GivenAdds
    <3>3. QED BY <2>1, <3>1, <3>2
  <2>4. AtMostOncePerConnection'
    <3>1. CASE UNCHANGED frames BY <1>0, <3>1 DEF AtMostOncePerConnection
    <3>2. CASE Adds(c, f) BY <1>0, <2>1, <3>2, AddsOnce
    <3>3. QED BY <2>1, <3>1, <3>2
  <2> HIDE DEF f
  <2>5. ASSUME NEW t \in Turns, Unemitted(t)'
        PROVE  ~QueuedIn(queue', t) /\ \A d \in Conns : ~QueuedIn(tetherTurns'[d], t) /\ ~GivenTo(t, d)'
    BY <1>0, <1>u, <2>1, <2>2, <2>3, <2>5
  <2>6. \A d \in Conns : Distinct(tetherTurns'[d])
    BY <1>0, <2>2
  <2>7. ASSUME NEW t \in Turns, NEW d \in Conns, GivenTo(t, d)'
        PROVE  DrainedTo(t, d)' \/ PushedTo(t, d)'
    <3>1. GivenTo(t, d) /\ d # c
      BY <2>1, <2>3, <2>7 DEF GivenTo
    <3>2. CASE DrainedTo(t, d)
      BY <2>1, <2>2, <3>1, <3>2 DEF DrainedTo
    <3>3. CASE PushedTo(t, d)
      BY <2>1, <2>2, <2>3, <3>3 DEF PushedTo
    <3>4. QED BY <1>0, <3>1, <3>2, <3>3
  <2>8. QED BY <1>0, <2>1, <2>4, <2>5, <2>6, <2>7 DEF RouteInv, Distinct, QueuedIn
<1>4. ASSUME NEW c \in Conns, DrainKind(c) PROVE RouteInv'
  <2> DEFINE k == drained[c] + 1
             f == tetherTurns[c][k]
  <2>1. /\ k \in DOMAIN tetherTurns[c] /\ Adds(c, f)
        /\ drained' = [drained EXCEPT ![c] = k] /\ UNCHANGED <<queue, tetherTurns>>
    BY <1>4 DEF DrainKind
  <2>2. f.type = "TETHER_TURN" /\ f.turn \in Turns /\ EndsTurn(f) /\ QueuedIn(tetherTurns[c], f.turn)
    BY <2>1 DEF HandshakeInv, OnlyTurns, EndsTurn, QueuedIn
  <2>3. drained'[c] = drained[c] + 1 /\ drained[c] \in Nat
        /\ \A d \in Conns \ {c} : drained'[d] = drained[d]
    BY <2>1 DEF TypeOK
  <2>4. ~GivenTo(f.turn, c)
    <3>1. ~DrainedTo(f.turn, c)
      <4>1. ASSUME NEW i \in 1 .. drained[c], tetherTurns[c][i].turn = f.turn PROVE FALSE
        <5>1. i \in DOMAIN tetherTurns[c] /\ i # k
          BY <2>3 DEF ReadInv, TypeOK
        <5>2. QED BY <1>0, <2>1, <4>1, <5>1 DEF Distinct
      <4>2. QED BY <4>1 DEF DrainedTo
    <3>2. ~PushedTo(f.turn, c)
      BY <2>2 DEF PushedTo
    <3>3. QED BY <1>0, <2>2, <3>1, <3>2
  <2>5. AtMostOncePerConnection'
    BY <1>0, <2>1, <2>4, AddsOnce
  <2>6. \A t : \A d \in Conns : GivenTo(t, d)' <=> GivenTo(t, d) \/ (d = c /\ f.turn = t)
    BY <2>1, <2>2, GivenAdds
  <2>7. k \in 1 .. drained'[c] /\ tetherTurns'[c][k].turn = f.turn
    BY <2>1, <2>3
  <2> HIDE DEF f, k
  <2>8. ASSUME NEW t \in Turns, NEW d \in Conns, GivenTo(t, d)'
        PROVE  DrainedTo(t, d)' \/ PushedTo(t, d)'
    <3>1. CASE d = c /\ f.turn = t
      BY <2>7, <3>1 DEF DrainedTo
    <3>2. CASE DrainedTo(t, d)
      <4>1. PICK i \in 1 .. drained[d] : tetherTurns[d][i].turn = t
        BY <3>2 DEF DrainedTo
      <4>2. i \in 1 .. drained'[d] /\ tetherTurns'[d] = tetherTurns[d]
        BY <2>1, <2>3
      <4>3. QED BY <4>1, <4>2 DEF DrainedTo
    <3>3. CASE PushedTo(t, d)
      <4>1. t # f.turn
        BY <2>2, <3>3 DEF PushedTo
      <4>2. QED BY <2>1, <2>6, <3>3, <4>1 DEF PushedTo
    <3>4. QED BY <1>0, <2>6, <2>8, <3>1, <3>2, <3>3
  <2>9. ASSUME NEW t \in Turns, Unemitted(t)'
        PROVE  \A d \in Conns : ~GivenTo(t, d)'
    BY <1>0, <1>u, <2>2, <2>6, <2>9
  <2>10. QED BY <1>0, <1>u, <2>1, <2>5, <2>8, <2>9 DEF RouteInv, Distinct, QueuedIn
<1>5. ASSUME NEW t \in Turns, NEW c \in Conns, NEW f \in Frame, PushKind(t, c, f) PROVE RouteInv'
  <2>1. /\ Unemitted(t) /\ ~Unemitted(t)' /\ f.turn = t /\ EndsTurn(f) /\ Adds(c, f)
        /\ UNCHANGED <<queue, tetherTurns, drained>>
    BY <1>5 DEF PushKind, Emits, EndsTurn
  <2>2. \A u : \A d \in Conns : GivenTo(u, d)' <=> GivenTo(u, d) \/ (d = c /\ u = t)
    BY <2>1, GivenAdds
  <2>3. AtMostOncePerConnection'
    BY <1>0, <2>1, AddsOnce
  <2>4. ASSUME NEW u \in Turns, NEW d \in Conns, GivenTo(u, d)'
        PROVE  DrainedTo(u, d)' \/ PushedTo(u, d)'
    <3>1. CASE u = t
      <4>1. d = c /\ \A e \in Conns : GivenTo(t, e)' => e = c
        BY <1>0, <2>1, <2>2, <2>4, <3>1
      <4>2. PushedTo(u, d)'
        BY <1>0, <2>1, <3>1, <4>1 DEF PushedTo
      <4>3. QED BY <4>2
    <3>2. CASE u # t
      BY <1>0, <2>1, <2>2, <2>4, <3>2 DEF DrainedTo, PushedTo
    <3>3. QED BY <3>1, <3>2
  <2>5. QED BY <1>0, <1>u, <2>1, <2>2, <2>3, <2>4 DEF RouteInv, Distinct, QueuedIn
<1>6. ASSUME NEW t \in Turns, NEW f \in Frame, HoldKind(t, f) PROVE RouteInv'
  <2>1. /\ Unemitted(t) /\ ~Unemitted(t)' /\ f.turn = t /\ queue' = Append(queue, f)
        /\ UNCHANGED <<frames, tetherTurns, drained>> /\ queue \in Seq(Frame)
    BY <1>6 DEF HoldKind, Emits, TypeOK
  <2>2. /\ \A u : QueuedIn(queue', u) <=> QueuedIn(queue, u) \/ u = t
        /\ Distinct(queue')
    BY <1>0, <2>1, QueuedAppended
  <2>3. \A u : \A d \in Conns : GivenTo(u, d)' <=> GivenTo(u, d)
    BY <2>1 DEF GivenTo
  <2>4. AtMostOncePerConnection'
    BY <1>0, <2>1 DEF AtMostOncePerConnection
  <2>5. ASSUME NEW u \in Turns, NEW d \in Conns, GivenTo(u, d)'
        PROVE  DrainedTo(u, d)' \/ PushedTo(u, d)'
    <3>1. u # t /\ GivenTo(u, d)
      BY <1>0, <2>1, <2>3, <2>5
    <3>2. QED BY <1>0, <2>1, <2>2, <2>3, <3>1 DEF DrainedTo, PushedTo
  <2>6. QED BY <1>0, <1>u, <2>1, <2>2, <2>3, <2>4, <2>5 DEF RouteInv, Distinct, QueuedIn
<1>7. QED BY <1>1, <1>2, <1>3, <1>4, <1>5, <1>6 DEF Kinds

-----------------------------------------------------------------------------
(* Drains: AnnouncedTurnsGiven.                                            *)

(* The first three conjuncts of AnnouncedTurnsGiven for connection c.      *)
DrainShown(c) ==
    /\ \A k \in DOMAIN tetherTurns[c] :
           Shows(frames[c], tetherTurns[c][k]) <=> k <= drained[c]
    /\ \A i, j \in DOMAIN frames[c], k, l \in DOMAIN tetherTurns[c] :
           frames[c][i] = tetherTurns[c][k] /\ frames[c][j] = tetherTurns[c][l]
               => (i < j <=> k < l)
    /\ frames[c] # <<>> /\ frames[c][1].type = "SESSION_ATTACHED"
           => frames[c][1].n = Len(tetherTurns[c])

(* A frame that the handler did not read of the queue disturbs no drain.   *)
LEMMA StrangerKeepsDrain ==
    ASSUME TypeOK, NEW c \in Conns, NEW f, Adds(c, f), UNCHANGED <<tetherTurns, drained>>,
           f.type # "SESSION_ATTACHED", \A k \in DOMAIN tetherTurns[c] : tetherTurns[c][k] # f,
           NEW d \in Conns, DrainShown(d)
    PROVE  DrainShown(d)'
<1> DEFINE n == Len(frames[c]) + 1
<1>1. /\ DOMAIN frames'[c] = DOMAIN frames[c] \cup {n} /\ frames'[c][n] = f
      /\ \A i \in DOMAIN frames[c] : frames'[c][i] = frames[c][i]
      /\ \A e \in Conns \ {c} : frames'[e] = frames[e]
  BY AddsShape
<1>2. frames'[c] = Append(frames[c], f) /\ frames[c] \in Seq(Frame) /\ f \in Frame
  BY AddsShape DEF TypeOK
<1>3. /\ frames[c] # <<>> => frames'[c][1] = frames[c][1]
      /\ frames[c] = <<>> => frames'[c][1] = f
  BY <1>2
<1> HIDE DEF n
<1>4. CASE d # c
  <2>1. frames'[d] = frames[d] /\ UNCHANGED <<tetherTurns, drained>>
    BY <1>1, <1>4
  <2>2. QED BY <2>1 DEF DrainShown, Shows
<1>5. CASE d = c
  <2>1. \A k \in DOMAIN tetherTurns[c] : Shows(frames'[c], tetherTurns[c][k]) <=> Shows(frames[c], tetherTurns[c][k])
    BY <1>1 DEF Shows
  <2>2. \A i, j \in DOMAIN frames'[c], k, l \in DOMAIN tetherTurns[c] :
            frames'[c][i] = tetherTurns[c][k] /\ frames'[c][j] = tetherTurns[c][l]
                => i \in DOMAIN frames[c] /\ j \in DOMAIN frames[c]
    BY <1>1
  <2>3. \A i, j \in DOMAIN frames'[c], k, l \in DOMAIN tetherTurns[c] :
            frames'[c][i] = tetherTurns[c][k] /\ frames'[c][j] = tetherTurns[c][l]
                => (i < j <=> k < l)
    BY <1>1, <1>5, <2>2 DEF DrainShown
  <2>4. frames'[c] # <<>> /\ frames'[c][1].type = "SESSION_ATTACHED"
           => frames'[c][1].n = Len(tetherTurns[c])
    BY <1>3, <1>5 DEF DrainShown
  <2>5. QED BY <1>5, <2>1, <2>3, <2>4 DEF DrainShown, Shows
<1>6. QED BY <1>4, <1>5

(* The next turn that was read extends what is shown of the drain.         *)
LEMMA DrainShowsNext ==
    ASSUME TypeOK, HandshakeInv, RouteInv, NEW c \in Conns, DrainKind(c), DrainShown(c)
    PROVE  DrainShown(c)'
<1> DEFINE n == Len(frames[c]) + 1
           m == drained[c] + 1
           f == tetherTurns[c][m]
<1>1. /\ m \in DOMAIN tetherTurns[c] /\ Adds(c, f) /\ UNCHANGED tetherTurns
      /\ drained'[c] = m /\ drained[c] \in Nat
  BY DEF DrainKind, TypeOK
<1>2. /\ DOMAIN frames'[c] = DOMAIN frames[c] \cup {n} /\ frames'[c][n] = f
      /\ \A i \in DOMAIN frames[c] : frames'[c][i] = frames[c][i] /\ i \in Nat /\ i < n
      /\ n \in Nat
  BY <1>1, AddsShape
<1>3. frames'[c] = Append(frames[c], f) /\ frames[c] \in Seq(Frame) /\ f \in Frame
  BY <1>1, AddsShape DEF TypeOK
<1>4. /\ frames[c] # <<>> => frames'[c][1] = frames[c][1]
      /\ frames[c] = <<>> => frames'[c][1] = f
  BY <1>3
<1>5. f.type = "TETHER_TURN"
  BY <1>1 DEF HandshakeInv, OnlyTurns
<1>6. \A k \in DOMAIN tetherTurns[c] : k \in Nat /\ (tetherTurns[c][k] = f => k = m)
  <2>1. tetherTurns[c] \in Seq(Frame) /\ Distinct(tetherTurns[c])
    BY DEF RouteInv, TypeOK
  <2>2. QED BY <1>1, <2>1 DEF Distinct
<1> HIDE DEF n, f
<1>7. ASSUME NEW k \in DOMAIN tetherTurns[c]
      PROVE  Shows(frames'[c], tetherTurns[c][k]) <=> k <= drained'[c]
  <2>1. Shows(frames'[c], tetherTurns[c][k]) <=> Shows(frames[c], tetherTurns[c][k]) \/ tetherTurns[c][k] = f
    BY <1>2 DEF Shows
  <2>2. Shows(frames[c], tetherTurns[c][k]) <=> k <= drained[c]
    BY DEF DrainShown
  <2>3. tetherTurns[c][k] = f <=> k = m
    BY <1>6 DEF f
  <2>4. QED BY <1>1, <1>6, <2>1, <2>2, <2>3
<1>8. ASSUME NEW i \in DOMAIN frames'[c], NEW j \in DOMAIN frames'[c],
             NEW k \in DOMAIN tetherTurns[c], NEW l \in DOMAIN tetherTurns[c],
             frames'[c][i] = tetherTurns[c][k], frames'[c][j] = tetherTurns[c][l]
      PROVE  i < j <=> k < l
  <2>1. /\ i \in DOMAIN frames[c] => k <= drained[c]
        /\ j \in DOMAIN frames[c] => l <= drained[c]
    BY <1>2, <1>8 DEF DrainShown, Shows
  <2>2. /\ i = n => k = m
        /\ j = n => l = m
    BY <1>2, <1>6, <1>8
  <2>3. CASE i \in DOMAIN frames[c] /\ j \in DOMAIN frames[c]
    BY <1>2, <1>8, <2>3 DEF DrainShown
  <2>4. CASE i \in DOMAIN frames[c] /\ j = n
    BY <1>1, <1>2, <1>6, <2>1, <2>2, <2>4
  <2>5. CASE i = n /\ j \in DOMAIN frames[c]
    BY <1>1, <1>2, <1>6, <2>1, <2>2, <2>5
  <2>6. CASE i = n /\ j = n
    BY <1>1, <1>2, <2>2, <2>6
  <2>7. QED BY <1>2, <2>3, <2>4, <2>5, <2>6
<1>9. frames'[c] # <<>> /\ frames'[c][1].type = "SESSION_ATTACHED"
         => frames'[c][1].n = Len(tetherTurns[c])
  BY <1>4, <1>5 DEF DrainShown
<1>10. QED BY <1>1, <1>7, <1>8, <1>9 DEF DrainShown, Shows

LEMMA AnnouncedStep ==
    ASSUME TypeOK, HandshakeInv, ReadInv', RouteInv, AnnouncedTurnsGiven, Kinds
    PROVE  AnnouncedTurnsGiven'
<1> SUFFICES ASSUME NEW d \in Conns PROVE DrainShown(d)'
  BY DEF ReadInv, AnnouncedTurnsGiven, DrainShown
<1>0. DrainShown(d)
  BY DEF AnnouncedTurnsGiven, DrainShown
<1>1. ASSUME UNCHANGED <<tetherTurns, drained>>, frames'[d] = frames[d] PROVE DrainShown(d)'
  BY <1>0, <1>1 DEF DrainShown, Shows
<1>2. CASE QuietKind
  BY <1>1, <1>2 DEF QuietKind
<1>3. ASSUME NEW c \in Conns, NEW f \in Frame, TalkKind(c, f) PROVE DrainShown(d)'
  <2>1. \A k \in DOMAIN tetherTurns[c] : tetherTurns[c][k] # f
    BY <1>3 DEF TalkKind, HandshakeInv, OnlyTurns
  <2>2. QED BY <1>0, <1>3, <2>1, StrangerKeepsDrain DEF TalkKind
<1>4. ASSUME NEW c \in Conns, ReadKind(c) PROVE DrainShown(d)'
  <2> DEFINE f == [type |-> "SESSION_ATTACHED", turn |-> None, n |-> Len(queue)]
  <2>1. /\ frames[c] = <<>> /\ UNCHANGED drained /\ drained[c] = 0
        /\ UNCHANGED frames \/ Adds(c, f)
        /\ tetherTurns'[c] = queue /\ \A e \in Conns \ {c} : tetherTurns'[e] = tetherTurns[e]
    BY <1>4 DEF ReadKind, TypeOK
  <2>2. frames'[c] \in {<<>>, <<f>>} /\ \A e \in Conns \ {c} : frames'[e] = frames[e]
    <3>1. CASE UNCHANGED frames
      BY <2>1, <3>1
    <3>2. CASE Adds(c, f)
      <4>1. frames'[c] = Append(<<>>, f) /\ \A e \in Conns \ {c} : frames'[e] = frames[e]
        BY <2>1, <3>2 DEF Adds, TypeOK
      <4>2. QED BY <4>1
    <3>3. QED BY <2>1, <3>1, <3>2
  <2>3. CASE d = c
    <3>1. \A k \in DOMAIN queue : queue[k].type = "TETHER_TURN" /\ k \in Nat /\ ~(k <= 0)
      BY DEF HandshakeInv, OnlyTurns, TypeOK
    <3>2. \A i \in DOMAIN frames'[c] : frames'[c][i] = f
      BY <2>2
    <3>3. f.type = "SESSION_ATTACHED" /\ f.n = Len(queue) /\ (frames'[c] # <<>> => frames'[c][1] = f)
      BY <2>2
    <3> HIDE DEF f
    <3>4. \A k \in DOMAIN queue : ~Shows(frames'[c], queue[k])
      BY <3>1, <3>2, <3>3 DEF Shows
    <3>5. QED BY <2>1, <2>3, <3>1, <3>2, <3>3, <3>4 DEF DrainShown, Shows
  <2>4. CASE d # c
    BY <1>0, <2>1, <2>2, <2>4 DEF DrainShown, Shows
  <2>5. QED BY <2>3, <2>4
<1>5. ASSUME NEW c \in Conns, DrainKind(c) PROVE DrainShown(d)'
  <2>1. CASE d = c
    BY <1>0, <1>5, <2>1, DrainShowsNext
  <2>2. CASE d # c
    <3>1. frames'[d] = frames[d] /\ drained'[d] = drained[d] /\ UNCHANGED tetherTurns
      BY <1>5, <2>2 DEF DrainKind, Adds, TypeOK
    <3>2. QED BY <1>0, <3>1 DEF DrainShown, Shows
  <2>3. QED BY <2>1, <2>2
<1>6. ASSUME NEW t \in Turns, NEW c \in Conns, NEW f \in Frame, PushKind(t, c, f) PROVE DrainShown(d)'
  <2>1. /\ Unemitted(t) /\ f.turn = t /\ Adds(c, f) /\ f.type # "SESSION_ATTACHED"
        /\ UNCHANGED <<tetherTurns, drained>>
    BY <1>6 DEF PushKind, Emits
  <2>2. \A k \in DOMAIN tetherTurns[c] : tetherTurns[c][k] # f
    BY <2>1 DEF RouteInv, QueuedIn
  <2>3. QED BY <1>0, <2>1, <2>2, StrangerKeepsDrain
<1>7. ASSUME NEW t \in Turns, NEW f \in Frame, HoldKind(t, f) PROVE DrainShown(d)'
  BY <1>1, <1>7 DEF HoldKind
<1>8. QED BY <1>2, <1>3, <1>4, <1>5, <1>6, <1>7 DEF Kinds

-----------------------------------------------------------------------------
(* Streams: ChunksInOrder.                                                 *)

(* What the first conjunct of ChunkInv says of a frame.                    *)
Streamed(f) ==
    /\ f.type = "TURN_CHUNK" => f.turn \in Streams /\ f.n <= chunk[f.turn]
    /\ f.type = "TURN_COMPLETE" => f.turn \in Streams /\ ~Unemitted(f.turn)

(* What ChunksInOrder says of the i-th frame of c and the j-th of d.       *)
PairInOrder(c, i, d, j) ==
    LET f == frames[c][i]
        g == frames[d][j]
    IN f.type = "TURN_CHUNK" /\ f.turn = g.turn =>
          /\ g.type = "TURN_CHUNK" /\ f.n = g.n => c = d /\ i = j
          /\ g.type = "TURN_CHUNK" /\ c = d /\ i < j => f.n < g.n
          /\ g.type = "TURN_COMPLETE" /\ c = d => i < j

LEMMA StreamsCount == TypeOK => \A t \in Streams : t \in Turns /\ chunk[t] \in Nat
  BY TetherAssumption DEF TypeOK, Turns

LEMMA StreamedStays ==
    ASSUME TypeOK, TypeOK', Onward, NEW f \in Frame, Streamed(f)
    PROVE  Streamed(f)'
<1>1. \A t \in Streams : t \in Turns
  BY DEF Turns
<1>2. ASSUME f.type = "TURN_CHUNK" PROVE f.turn \in Streams /\ f.n <= chunk'[f.turn]
  <2>1. f.turn \in Turns /\ f.n <= chunk[f.turn] /\ f.n \in Nat
    BY <1>1, <1>2 DEF Streamed, Frame
  <2>2. chunk[f.turn] \in Nat /\ chunk'[f.turn] \in Nat /\ chunk[f.turn] <= chunk'[f.turn]
    BY <2>1, TetherAssumption DEF TypeOK, Onward
  <2>3. QED BY <1>2, <2>1, <2>2 DEF Streamed
<1>3. QED BY <1>1, <1>2 DEF Streamed, Onward

LEMMA AddsKeepsChunks ==
    ASSUME TypeOK, TypeOK', ChunkInv, Onward, NEW c \in Conns, NEW f, Adds(c, f),
           f.type = "TURN_CHUNK" =>
               f.turn \in Streams /\ Unemitted(f.turn) /\ f.n = chunk[f.turn] + 1 /\ f.n = chunk'[f.turn],
           f.type = "TURN_COMPLETE" => f.turn \in Streams /\ ~Unemitted(f.turn)'
    PROVE  ChunkInv'
<1> DEFINE n == Len(frames[c]) + 1
<1>1. /\ DOMAIN frames'[c] = DOMAIN frames[c] \cup {n} /\ frames'[c][n] = f /\ f \in Frame
      /\ \A i \in DOMAIN frames[c] : frames'[c][i] = frames[c][i] /\ i \in Nat /\ i < n
      /\ \A e \in Conns \ {c} : frames'[e] = frames[e]
      /\ n \in Nat
  BY AddsShape
<1> HIDE DEF n
<1>2. \A e \in Conns : \A i \in DOMAIN frames[e] : frames[e][i] \in Frame /\ Streamed(frames[e][i])
  <2>1. \A e \in Conns : \A i \in DOMAIN frames[e] : frames[e][i] \in Frame
    BY ElementOfSeq DEF TypeOK
  <2>2. QED BY <2>1 DEF ChunkInv, Streamed
<1>3. \A e \in Conns : \A i \in DOMAIN frames'[e] :
          (e = c /\ i = n) \/ (i \in DOMAIN frames[e] /\ frames'[e][i] = frames[e][i])
  BY <1>1
<1>4. Streamed(f)'
  <2>1. f.type = "TURN_CHUNK" => f.n <= chunk'[f.turn]
    BY <1>1 DEF Frame
  <2>2. QED BY <2>1 DEF Streamed
<1>5. ASSUME NEW e \in Conns, NEW i \in DOMAIN frames'[e]
      PROVE  Streamed(frames[e][i])'
  <2>1. CASE e = c /\ i = n
    BY <1>1, <1>4, <2>1 DEF Streamed
  <2>2. CASE i \in DOMAIN frames[e] /\ frames'[e][i] = frames[e][i]
    <3>1. PICK g \in Frame : g = frames[e][i] /\ Streamed(g)
      BY <1>2, <2>2
    <3>2. Streamed(g)'
      BY <3>1, StreamedStays
    <3>3. QED BY <2>2, <3>1, <3>2 DEF Streamed
  <2>3. QED BY <1>3, <2>1, <2>2
<1>6. ASSUME NEW d \in Conns, NEW e \in Conns, NEW i \in DOMAIN frames'[d], NEW j \in DOMAIN frames'[e]
      PROVE  PairInOrder(d, i, e, j)'
  <2>1. CASE d = c /\ i = n /\ e = c /\ j = n
    BY <1>1, <2>1 DEF PairInOrder
  <2>2. CASE d = c /\ i = n /\ j \in DOMAIN frames[e] /\ frames'[e][j] = frames[e][j]
    <3> DEFINE g == frames[e][j]
    <3>1. Streamed(g) /\ g \in Frame
      BY <1>2, <2>2
    <3>2. ASSUME f.type = "TURN_CHUNK", f.turn = g.turn
          PROVE  /\ g.type # "TURN_COMPLETE"
                 /\ g.type = "TURN_CHUNK" => g.n # f.n
                 /\ e = c => ~(n < j)
      <4>1. f.turn \in Turns /\ chunk[f.turn] \in Nat
        BY <3>2, StreamsCount
      <4>2. g.type = "TURN_CHUNK" => g.n <= chunk[f.turn] /\ g.n \in Nat /\ f.n = chunk[f.turn] + 1
        BY <3>1, <3>2 DEF Streamed, Frame
      <4>3. e = c => ~(n < j)
        BY <1>1, <2>2
      <4>4. QED BY <3>1, <3>2, <4>1, <4>2, <4>3 DEF Streamed
    <3> HIDE DEF g
    <3>3. frames'[d][i] = f /\ frames'[e][j] = g
      BY <1>1, <2>2 DEF g
    <3>4. QED BY <2>2, <3>2, <3>3 DEF PairInOrder
  <2>3. CASE i \in DOMAIN frames[d] /\ frames'[d][i] = frames[d][i] /\ e = c /\ j = n
    <3> DEFINE g == frames[d][i]
    <3>1. Streamed(g) /\ g \in Frame
      BY <1>2, <2>3
    <3>2. ASSUME g.type = "TURN_CHUNK", f.turn = g.turn
          PROVE  /\ f.type = "TURN_CHUNK" => g.n < f.n
                 /\ d = c => i < n
                 /\ g.n \in Nat /\ f.n \in Nat
      <4>1. f.turn \in Turns /\ chunk[f.turn] \in Nat
        BY <3>1, <3>2, StreamsCount DEF Streamed
      <4>2. g.n <= chunk[f.turn] /\ g.n \in Nat /\ f.n \in Nat
        BY <1>1, <3>1, <3>2 DEF Streamed, Frame
      <4>3. d = c => i < n
        BY <1>1, <2>3
      <4>4. QED BY <4>1, <4>2, <4>3
    <3> HIDE DEF g
    <3>3. frames'[d][i] = g /\ frames'[e][j] = f
      BY <1>1, <2>3 DEF g
    <3>4. QED BY <2>3, <3>2, <3>3 DEF PairInOrder
  <2>4. CASE /\ i \in DOMAIN frames[d] /\ frames'[d][i] = frames[d][i]
             /\ j \in DOMAIN frames[e] /\ frames'[e][j] = frames[e][j]
    BY <2>4 DEF ChunkInv, ChunksInOrder, PairInOrder
  <2>5. QED BY <1>3, <2>1, <2>2, <2>3, <2>4
<1>7. ChunksInOrder'
  BY <1>6 DEF ChunksInOrder, PairInOrder
<1>8. QED BY <1>5, <1>7 DEF ChunkInv, Streamed

LEMMA ChunkStep ==
    ASSUME TypeOK, TypeOK', HandshakeInv, ChunkInv, Onward, Kinds
    PROVE  ChunkInv'
<1>1. ASSUME UNCHANGED frames PROVE ChunkInv'
  <2>1. \A c \in Conns : \A i \in DOMAIN frames[c] : frames[c][i] \in Frame
    BY ElementOfSeq DEF TypeOK
  <2>2. ASSUME NEW c \in Conns, NEW i \in DOMAIN frames[c]
        PROVE  Streamed(frames[c][i])'
    <3>1. PICK g \in Frame : g = frames[c][i] /\ Streamed(g)
      BY <2>1 DEF ChunkInv, Streamed
    <3>2. Streamed(g)'
      BY <3>1, StreamedStays
    <3>3. QED BY <1>1, <3>1, <3>2 DEF Streamed
  <2>3. QED BY <1>1, <2>2 DEF ChunkInv, ChunksInOrder, Streamed
<1>2. ASSUME NEW c \in Conns, NEW f \in Frame, TalkKind(c, f) PROVE ChunkInv'
  BY <1>2, AddsKeepsChunks DEF TalkKind
<1>3. ASSUME NEW c \in Conns, NEW f \in Frame, Adds(c, f), f.type \in {"SESSION_ATTACHED", "TETHER_TURN"}
      PROVE  ChunkInv'
  BY <1>3, AddsKeepsChunks
<1>4. ASSUME NEW c \in Conns, ReadKind(c) PROVE ChunkInv'
  <2>1. PICK f : f = [type |-> "SESSION_ATTACHED", turn |-> None, n |-> Len(queue)]
    OBVIOUS
  <2>2. UNCHANGED frames \/ (Adds(c, f) /\ f \in Frame)
    BY <1>4, <2>1 DEF ReadKind, Adds
  <2>3. QED BY <1>1, <1>3, <2>1, <2>2
<1>5. ASSUME NEW c \in Conns, DrainKind(c) PROVE ChunkInv'
  <2>1. PICK f : f = tetherTurns[c][drained[c] + 1]
    OBVIOUS
  <2>2. Adds(c, f) /\ f \in Frame /\ f.type = "TETHER_TURN"
    BY <1>5, <2>1 DEF DrainKind, HandshakeInv, OnlyTurns, Adds
  <2>3. QED BY <1>3, <2>2
<1>6. ASSUME NEW t \in Turns, NEW c \in Conns, NEW f \in Frame, PushKind(t, c, f) PROVE ChunkInv'
  BY <1>6, AddsKeepsChunks DEF PushKind, Emits
<1>7. QED BY <1>1, <1>2, <1>4, <1>5, <1>6 DEF Kinds, QuietKind, HoldKind

-----------------------------------------------------------------------------
(* Steps: StepCountNamesTurn, QueueInHistoryOrder, CheckpointBeforeDelivery. *)

LEMMA StepCountGrows ==
    ASSUME NEW h \in Seq(Message), NEW m \in Message
    PROVE  StepCount(h) <= StepCount(Append(h, m))
<1> DEFINE S == {i \in DOMAIN h : h[i].role = "assistant"}
           R == {i \in DOMAIN Append(h, m) : Append(h, m)[i].role = "assistant"}
<1>1. S \subseteq R
  BY AppendShape
<1>2. IsFiniteSet(1 .. Len(h) + 1) /\ DOMAIN Append(h, m) = 1 .. Len(h) + 1
  BY FS_Interval
<1>3. IsFiniteSet(R)
  BY <1>2, FS_Subset
<1>4. QED BY <1>1, <1>3, FS_Subset DEF StepCount

(* What a step does to the history, and to the snapshot of it. *)
Extends ==
    /\ UNCHANGED history \/ \E m \in Message : history' = Append(history, m)
    /\ snapshot <= snapshot' /\ snapshot' <= StepCount(history')

LEMMA SaidExtends ==
    ASSUME TypeOK, NEW t \in Turns \cup {None}, NEW r \in {"user", "assistant"},
           snapshot <= StepCount(history), history' = Said(r, t), snapshot' \in {snapshot, Checkpoint(history')}
    PROVE  Extends
<1>1. PICK m \in Message : history' = Append(history, m)
  BY DEF Said, Message
<1>2. /\ StepCount(history) <= StepCount(history')
      /\ StepCount(history) \in Nat /\ StepCount(history') \in Nat /\ snapshot \in Nat
  <2>1. history \in Seq(Message) /\ Append(history, m) \in Seq(Message) /\ snapshot \in Nat
    BY DEF TypeOK
  <2>2. QED BY <1>1, <2>1, StepCountGrows, StepCountType
<1>3. QED BY <1>1, <1>2 DEF Extends, Checkpoint

LEMMA ExtendsStep ==
    ASSUME TypeOK, snapshot <= StepCount(history), [Next]_vars
    PROVE  Extends
<1>n. StepCount(history) \in Nat /\ snapshot \in Nat
  BY StepCountType DEF TypeOK
<1>q. ASSUME UNCHANGED <<history, snapshot>> PROVE Extends
  BY <1>n, <1>q DEF Extends
<1> USE DEF conns, store, tasks
<1>1. ASSUME NEW c \in Conns, Handler(c) PROVE Extends
  <2>1. UNCHANGED <<history, snapshot>>
    BY <1>1 DEF Handler, Connect, PeerDrop, Reject, Attach, AttachSent, AttachFail, DrainStep, DrainEnd,
                Detach, Dropped
  <2>2. QED BY <1>q, <2>1
<1>2. ASSUME NEW t \in Turns, Request(t) PROVE Extends
  <2>1. CASE Refuse(t) \/ StartPush(t) \/ StartStream(t)
    <3>1. history' = Said("user", None) /\ UNCHANGED snapshot
      BY <2>1 DEF Refuse, StartPush, StartStream, Accept
    <3>2. QED BY <1>2, <3>1, SaidExtends
  <2>2. CASE LlmFails(t) \/ Chunk(t) \/ StreamEmpty(t) \/ SendSucceeds(t) \/ SendFails(t)
    <3>1. UNCHANGED <<history, snapshot>>
      BY <2>2 DEF LlmFails, Chunk, StreamEmpty, SendSucceeds, SendFails, Sent
    <3>2. QED BY <1>q, <3>1
  <2>3. CASE Reply(t)
    <3>1. history' = Said("assistant", t) /\ snapshot' = Checkpoint(history')
      BY <2>3 DEF Reply
    <3>2. QED BY <1>2, <3>1, SaidExtends
  <2>4. CASE ReplyEmpty(t)
    <3>1. history' = history /\ snapshot' = Checkpoint(history)
      BY <2>4 DEF ReplyEmpty
    <3>2. QED BY <1>n, <3>1 DEF Extends, Checkpoint
  <2>5. CASE StreamEnd(t)
    <3>1. history' = Said("assistant", t) /\ UNCHANGED snapshot
      BY <2>5 DEF StreamEnd
    <3>2. QED BY <1>2, <3>1, SaidExtends
  <2>6. QED BY <1>2, <2>1, <2>2, <2>3, <2>4, <2>5 DEF Request
<1>3. CASE UNCHANGED vars
  BY <1>q, <1>3 DEF vars
<1>4. QED BY <1>1, <1>2, <1>3 DEF Next

(* A history that grows keeps its messages where they are. *)
LEMMA HistoryKept ==
    ASSUME TypeOK, Extends
    PROVE  \A i \in DOMAIN history :
               /\ i \in DOMAIN history' /\ history'[i] = history[i]
               /\ AnswersUpTo(i)' = AnswersUpTo(i)
<1>1. CASE UNCHANGED history
  BY <1>1 DEF AnswersUpTo
<1>2. ASSUME NEW m \in Message, history' = Append(history, m), NEW i \in DOMAIN history
      PROVE  /\ i \in DOMAIN history' /\ history'[i] = history[i]
             /\ AnswersUpTo(i)' = AnswersUpTo(i)
  <2>1. history \in Seq(Message) /\ i \in 1 .. Len(history)
    BY DEF TypeOK
  <2>2. \A k \in 1 .. i : Append(history, m)[k] = history[k]
    BY <2>1
  <2>3. \A k \in 1 .. i : history'[k].role = history[k].role
    BY <1>2, <2>2
  <2>4. AnswersUpTo(i)' = AnswersUpTo(i)
    BY <2>3 DEF AnswersUpTo
  <2>5. QED BY <1>2, <2>1, <2>2, <2>4
<1>3. QED BY <1>1, <1>2 DEF Extends

LEMMA NamedStays ==
    ASSUME TypeOK, TypeOK', Extends, NEW f \in Frame, Numbered(f), Covered(f)
    PROVE  Numbered(f)' /\ Covered(f)'
<1>1. Numbered(f)'
  BY HistoryKept DEF Numbered
<1>2. Covered(f)'
  BY DEF Covered, Extends, TypeOK, Frame
<1>3. QED BY <1>1, <1>2

(* The three sorts of places in which StepInv looks for frames. *)
Named(seq) == \A i \in DOMAIN seq : Numbered(seq[i]) /\ Covered(seq[i])
AllNamed == Named(queue) /\ \A c \in Conns : Named(frames[c]) /\ Named(tetherTurns[c])

LEMMA StepInvMeans ==
    StepInv <=> AllNamed /\ QueueInHistoryOrder /\ snapshot <= StepCount(history)
  BY DEF StepInv, AllNamed, Named, StepCountNamesTurn, CheckpointBeforeDelivery

LEMMA StepInvMeansNext ==
    StepInv' <=> AllNamed' /\ QueueInHistoryOrder' /\ snapshot' <= StepCount(history')
  BY DEF StepInv, AllNamed, Named, StepCountNamesTurn, CheckpointBeforeDelivery

(* Frames that were named stay so, and so do those with another appended.  *)
LEMMA AppendNamed ==
    ASSUME TypeOK, TypeOK', Extends, NEW seq \in Seq(Frame), Named(seq)
    PROVE  /\ Named(seq)'
           /\ \A f \in Frame : Numbered(f)' /\ Covered(f)' => Named(Append(seq, f))'
<1>1. \A i \in DOMAIN seq : seq[i] \in Frame
  BY ElementOfSeq
<1>2. \A i \in DOMAIN seq : Numbered(seq[i])' /\ Covered(seq[i])'
  BY <1>1, NamedStays DEF Named
<1>3. Named(seq)'
  BY <1>2 DEF Named
<1>4. ASSUME NEW f \in Frame, Numbered(f)', Covered(f)' PROVE Named(Append(seq, f))'
  <2>1. PICK s \in Seq(Frame) : s = Append(seq, f)
    BY AppendShape
  <2>2. \A i \in DOMAIN s : s[i] = f \/ (i \in DOMAIN seq /\ s[i] = seq[i])
    BY <2>1, AppendShape
  <2>3. \A i \in DOMAIN s : Numbered(s[i])' /\ Covered(s[i])'
    <3>1. ASSUME NEW i \in DOMAIN s PROVE Numbered(s[i])' /\ Covered(s[i])'
      <4>1. CASE s[i] = f BY <1>4, <4>1 DEF Numbered, Covered
      <4>2. CASE i \in DOMAIN seq /\ s[i] = seq[i] BY <1>2, <4>2 DEF Numbered, Covered
      <4>3. QED BY <2>2, <4>1, <4>2
    <3>2. QED BY <3>1
  <2>4. QED BY <2>1, <2>3 DEF Named
<1>5. QED BY <1>3, <1>4

LEMMA AddsNamed ==
    ASSUME TypeOK, TypeOK', Extends, AllNamed, NEW c \in Conns, NEW f \in Frame,
           Adds(c, f), Numbered(f)', Covered(f)'
    PROVE  \A d \in Conns : Named(frames[d])'
<1>1. ASSUME NEW d \in Conns PROVE Named(frames[d])'
  <2>1. PICK s \in Seq(Frame) : s = frames[d] /\ Named(s)
    BY DEF AllNamed, TypeOK
  <2>2. Named(s)' /\ Named(Append(s, f))'
    BY <2>1, AppendNamed
  <2>3. frames'[d] = s \/ frames'[d] = Append(s, f)
    BY <2>1 DEF Adds, TypeOK
  <2>4. QED BY <2>2, <2>3 DEF Named
<1>2. QED BY <1>1

(* The queue, read as it is, what was read of it and the frames on a wire  *)
(* stay named.                                                             *)
LEMMA PlacesNamed ==
    ASSUME TypeOK, TypeOK', Extends, AllNamed
    PROVE  /\ UNCHANGED queue => Named(queue)'
           /\ UNCHANGED frames => \A d \in Conns : Named(frames[d])'
           /\ UNCHANGED tetherTurns => \A d \in Conns : Named(tetherTurns[d])'
<1>1. ASSUME UNCHANGED queue PROVE Named(queue)'
  <2>1. PICK s \in Seq(Frame) : s = queue /\ Named(s)
    BY DEF AllNamed, TypeOK
  <2>2. Named(s)'
    BY <2>1, AppendNamed
  <2>3. QED BY <1>1, <2>1, <2>2 DEF Named
<1>2. ASSUME UNCHANGED frames, NEW d \in Conns PROVE Named(frames[d])'
  <2>1. PICK s \in Seq(Frame) : s = frames[d] /\ Named(s)
    BY DEF AllNamed, TypeOK
  <2>2. Named(s)'
    BY <2>1, AppendNamed
  <2>3. QED BY <1>2, <2>1, <2>2 DEF Named
<1>3. ASSUME UNCHANGED tetherTurns, NEW d \in Conns PROVE Named(tetherTurns[d])'
  <2>1. PICK s \in Seq(Frame) : s = tetherTurns[d] /\ Named(s)
    BY DEF AllNamed, TypeOK
  <2>2. Named(s)'
    BY <2>1, AppendNamed
  <2>3. QED BY <1>3, <2>1, <2>2 DEF Named
<1>4. QED BY <1>1, <1>2, <1>3

LEMMA NamedStep ==
    ASSUME TypeOK, TypeOK', Extends, AllNamed, Kinds
    PROVE  AllNamed'
<1>1. CASE QuietKind
  <2>1. CASE UNCHANGED queue
    BY <1>1, <2>1, PlacesNamed DEF QuietKind, AllNamed
  <2>2. CASE queue' = <<>>
    <3>1. Named(queue)'
      BY <2>2 DEF Named
    <3>2. QED BY <1>1, <3>1, PlacesNamed DEF QuietKind, AllNamed
  <2>3. QED BY <1>1, <2>1, <2>2 DEF QuietKind
<1>2. ASSUME NEW c \in Conns, NEW f \in Frame, TalkKind(c, f) PROVE AllNamed'
  <2>1. Numbered(f)' /\ Covered(f)'
    BY <1>2 DEF TalkKind, Numbered, Covered
  <2>2. QED BY <1>2, <2>1, AddsNamed, PlacesNamed DEF TalkKind, AllNamed
<1>3. ASSUME NEW c \in Conns, ReadKind(c) PROVE AllNamed'
  <2>1. PICK f : f = [type |-> "SESSION_ATTACHED", turn |-> None, n |-> Len(queue)]
    OBVIOUS
  <2>2. Numbered(f)' /\ Covered(f)'
    BY <2>1 DEF Numbered, Covered
  <2>3. \A d \in Conns : Named(frames[d])'
    BY <1>3, <2>1, <2>2, AddsNamed, PlacesNamed DEF ReadKind, Adds
  <2>4. Named(queue)'
    BY <1>3, PlacesNamed DEF ReadKind
  <2>5. ASSUME NEW d \in Conns PROVE Named(tetherTurns[d])'
    <3>1. CASE d = c
      <4>1. tetherTurns'[d] = queue'
        BY <1>3, <3>1 DEF ReadKind, TypeOK
      <4>2. QED BY <2>4, <4>1 DEF Named
    <3>2. CASE d # c
      <4>1. PICK s \in Seq(Frame) : s = tetherTurns[d] /\ Named(s)
        BY DEF AllNamed, TypeOK
      <4>2. Named(s)' /\ tetherTurns'[d] = s
        BY <1>3, <3>2, <4>1, AppendNamed DEF ReadKind, TypeOK
      <4>3. QED BY <4>2 DEF Named
    <3>3. QED BY <3>1, <3>2
  <2>6. QED BY <2>3, <2>4, <2>5 DEF AllNamed
<1>4. ASSUME NEW c \in Conns, DrainKind(c) PROVE AllNamed'
  <2>1. PICK f : f = tetherTurns[c][drained[c] + 1]
    OBVIOUS
  <2>2. Adds(c, f) /\ f \in Frame /\ Numbered(f) /\ Covered(f)
    BY <1>4, <2>1 DEF DrainKind, Adds, AllNamed, Named
  <2>3. Numbered(f)' /\ Covered(f)'
    BY <2>2, NamedStays
  <2>4. QED BY <1>4, <2>2, <2>3, AddsNamed, PlacesNamed DEF DrainKind, AllNamed
<1>5. ASSUME NEW t \in Turns, NEW c \in Conns, NEW f \in Frame, PushKind(t, c, f) PROVE AllNamed'
  BY <1>5, AddsNamed, PlacesNamed DEF PushKind, AllNamed
<1>6. ASSUME NEW t \in Turns, NEW f \in Frame, HoldKind(t, f) PROVE AllNamed'
  <2>1. PICK s \in Seq(Frame) : s = queue /\ Named(s)
    BY DEF AllNamed, TypeOK
  <2>2. Named(Append(s, f))'
    BY <1>6, <2>1, AppendNamed DEF HoldKind
  <2>3. Named(queue)'
    BY <1>6, <2>1, <2>2 DEF HoldKind, Named
  <2>4. QED BY <1>6, <2>3, PlacesNamed DEF HoldKind, AllNamed
<1>7. QED BY <1>1, <1>2, <1>3, <1>4, <1>5, <1>6 DEF Kinds

(* What is enqueued was said last; what waits was said before.             *)
LEMMA QueueOrderStep ==
    ASSUME TypeOK, HandshakeInv, Extends, AllNamed, QueueInHistoryOrder, Kinds
    PROVE  QueueInHistoryOrder'
<1>1. CASE queue' \in {queue, <<>>}
  BY <1>1, HistoryKept DEF QueueInHistoryOrder
<1>2. ASSUME NEW t \in Turns, NEW f \in Frame, HoldKind(t, f) PROVE QueueInHistoryOrder'
  <2> DEFINE n == Len(queue) + 1
  <2>1. /\ DOMAIN queue' = DOMAIN queue \cup {n} /\ queue'[n] = f
        /\ \A i \in DOMAIN queue : queue'[i] = queue[i] /\ i \in Nat /\ i < n
        /\ n \in Nat
    BY <1>2, AppendShape DEF HoldKind, TypeOK
  <2> HIDE DEF n
  <2>2. PICK l : /\ l \in DOMAIN history' /\ \A k \in DOMAIN history : k < l
                 /\ history'[l] = [role |-> "assistant", turn |-> f.turn]
    <3>1. PICK h : h = history' /\ h = Said("assistant", t) /\ t = f.turn
      BY <1>2 DEF HoldKind, Emits
    <3>2. Len(h) \in DOMAIN h /\ h[Len(h)] = [role |-> "assistant", turn |-> t] /\ Len(h) = Len(history) + 1
      BY <3>1, SaidIsLast
    <3>3. \A k \in DOMAIN history : k < Len(history) + 1
      BY DEF TypeOK
    <3>4. QED BY <3>1, <3>2, <3>3
  <2>3. ASSUME NEW i \in DOMAIN queue
        PROVE  \E k \in DOMAIN history : history[k] = [role |-> "assistant", turn |-> queue[i].turn]
    BY DEF AllNamed, Named, Numbered, HandshakeInv, OnlyTurns
  <2>4. ASSUME NEW i \in DOMAIN queue', NEW j \in DOMAIN queue', i < j
        PROVE  \E k, m \in DOMAIN history' :
                   /\ k < m
                   /\ history'[k] = [role |-> "assistant", turn |-> queue'[i].turn]
                   /\ history'[m] = [role |-> "assistant", turn |-> queue'[j].turn]
    <3>1. i \in DOMAIN queue
      BY <2>1, <2>4
    <3>2. CASE j \in DOMAIN queue
      BY <2>1, <2>4, <3>1, <3>2, HistoryKept DEF QueueInHistoryOrder
    <3>3. CASE j = n
      BY <2>1, <2>2, <2>3, <3>1, <3>3, HistoryKept
    <3>4. QED BY <2>1, <3>2, <3>3
  <2>5. QED BY <2>4 DEF QueueInHistoryOrder
<1>3. QED BY <1>1, <1>2 DEF Kinds, QuietKind, TalkKind, ReadKind, DrainKind, PushKind

LEMMA StepInvStep ==
    ASSUME TypeOK, TypeOK', HandshakeInv, StepInv, Extends, Kinds
    PROVE  StepInv'
<1>1. AllNamed /\ QueueInHistoryOrder
  BY StepInvMeans
<1>2. AllNamed' /\ QueueInHistoryOrder'
  BY <1>1, NamedStep, QueueOrderStep
<1>3. QED BY <1>2, StepInvMeansNext DEF Extends

-----------------------------------------------------------------------------
(* DeliveryInv is an inductive invariant, relative to types and handshake. *)

LEMMA DeliveryStep == TypeOK /\ HandshakeInv /\ DeliveryInv /\ [Next]_vars => DeliveryInv'
<1> SUFFICES ASSUME TypeOK, HandshakeInv, DeliveryInv, [Next]_vars PROVE DeliveryInv'
  OBVIOUS
<1>1. TypeOK' /\ ReadInv /\ RouteInv /\ AnnouncedTurnsGiven /\ ChunkInv /\ StepInv
  BY TypeStep DEF DeliveryInv
<1>2. ReadInv' /\ Onward /\ Kinds
  BY <1>1, ReadStep, OnwardStep, StepKinds
<1>3. Extends
  BY <1>1, ExtendsStep DEF StepInv
<1>4. RouteInv' /\ AnnouncedTurnsGiven' /\ ChunkInv' /\ StepInv'
  BY <1>1, <1>2, <1>3, RouteStep, AnnouncedStep, ChunkStep, StepInvStep
<1>5. QED BY <1>2, <1>4 DEF DeliveryInv

LEMMA InitDelivery == Init => DeliveryInv
<1> SUFFICES ASSUME Init PROVE DeliveryInv
  OBVIOUS
<1> USE DEF Init
<1>1. ReadInv /\ AnnouncedTurnsGiven
  BY DEF ReadInv, Serving, AnnouncedTurnsGiven, Shows
<1>2. RouteInv
  BY DEF RouteInv, QueuedIn, GivenTo, Distinct, AtMostOncePerConnection
<1>3. ChunkInv
  BY DEF ChunkInv, ChunksInOrder
<1>4. <<>> \in Seq(Message)
  OBVIOUS
<1>5. snapshot <= StepCount(history)
  <2>1. StepCount(<<>>) \in Nat
    BY <1>4, StepCountType
  <2>2. snapshot = 0 /\ history = <<>>
    OBVIOUS
  <2> HIDE DEF Init
  <2>3. QED BY <2>1, <2>2
<1>6. StepInv
  BY <1>5 DEF StepInv, StepCountNamesTurn, CheckpointBeforeDelivery, QueueInHistoryOrder
<1>7. QED BY <1>1, <1>2, <1>3, <1>6 DEF DeliveryInv

LEMMA DeliveryInvariant == Spec => []DeliveryInv
<1>1. Init => HandshakeInv
  BY TetherAssumption DEF Init, HandshakeInv, HandshakeFirst, WellOpened, OnlyTurns, Acknowledged
<1>2. QED BY <1>1, InitDelivery, HandshakeStep, DeliveryStep, TypeCorrect, PTL DEF Spec

(* No surface is given a turn twice, for any number of surfaces and        *)
(* requests, whatever the peers do: what a drain hands over was buffered   *)
(* and so is not pushed, and a handler drains once (sbp_ws.py:124-136,     *)
(* completions.py:323-328).                                                *)
THEOREM NoTurnTwiceToOneSurface == Spec => []AtMostOncePerConnection
<1>1. DeliveryInv => AtMostOncePerConnection
  BY DEF DeliveryInv, RouteInv
<1>2. QED BY <1>1, DeliveryInvariant, PTL

(* A turn that was ever buffered reaches surfaces by drains alone, and one *)
(* that was not reaches one surface at most (completions.py:144-158,       *)
(* 323-328).                                                               *)
THEOREM QueueAndPushExclude == Spec => []RouteExclusive
<1>1. ASSUME DeliveryInv, TypeOK, HandshakeInv PROVE RouteExclusive
  <2>1. /\ \A t \in Turns, c \in Conns : GivenTo(t, c) => DrainedTo(t, c) \/ PushedTo(t, c)
        /\ \A c \in Conns : drained[c] \in Nat /\ drained[c] <= Len(tetherTurns[c])
    BY <1>1 DEF DeliveryInv, RouteInv, ReadInv, TypeOK
  <2>2. ASSUME NEW t \in Turns, NEW c \in Conns, DrainedTo(t, c) PROVE QueuedIn(tetherTurns[c], t)
    <3>1. PICK k \in 1 .. drained[c] : tetherTurns[c][k].turn = t
      BY <2>2 DEF DrainedTo
    <3>2. tetherTurns[c] \in Seq(Frame)
      BY <1>1 DEF TypeOK
    <3>3. k \in DOMAIN tetherTurns[c]
      BY <2>1, <3>2
    <3>4. QED BY <3>1, <3>3 DEF QueuedIn
  <2>3. ASSUME NEW t \in Turns, NEW c \in Conns, GivenTo(t, c), ~QueuedIn(tetherTurns[c], t)
        PROVE  ~QueuedIn(queue, t) /\ \A d, e \in Conns : GivenTo(t, d) /\ GivenTo(t, e) => d = e
    BY <2>1, <2>2, <2>3 DEF PushedTo
  <2>4. QED BY <2>3 DEF RouteExclusive
<1>2. Init => HandshakeInv
  BY TetherAssumption DEF Init, HandshakeInv, HandshakeFirst, WellOpened, OnlyTurns, Acknowledged
<1>3. QED BY <1>1, <1>2, HandshakeStep, DeliveryInvariant, TypeCorrect, PTL DEF Spec

(* A surface is given the turns its SESSION_ATTACHED announced, each once, *)
(* in queue order and, while its socket is good, all of them before its    *)
(* handler listens (sbp_ws.py:113-136).                                    *)
THEOREM PromisedTurnsAreGiven == Spec => []AnnouncedTurnsGiven
<1>1. DeliveryInv => AnnouncedTurnsGiven
  BY DEF DeliveryInv
<1>2. QED BY <1>1, DeliveryInvariant, PTL

(* Chunks of a stream go to one connection each, in the order of the LLM,  *)
(* none after the TURN_COMPLETE (completions.py:120-149).                  *)
THEOREM StreamsStayInOrder == Spec => []ChunksInOrder
<1>1. DeliveryInv => ChunksInOrder
  BY DEF DeliveryInv, ChunkInv
<1>2. QED BY <1>1, DeliveryInvariant, PTL

(* The step count on a frame names the assistant message it numbers,       *)
(* however many requests answer at once (completions.py:296-328).          *)
THEOREM StepCountsNameTurns == Spec => []StepCountNamesTurn
<1>1. DeliveryInv => StepCountNamesTurn
  BY DEF DeliveryInv, StepInv
<1>2. QED BY <1>1, DeliveryInvariant, PTL

(* Turns wait in the queue in the order in which they were said.           *)
THEOREM QueueKeepsTheOrder == Spec => []QueueInHistoryOrder
<1>1. DeliveryInv => QueueInHistoryOrder
  BY DEF DeliveryInv, StepInv
<1>2. QED BY <1>1, DeliveryInvariant, PTL

(* A turn that falls on a checkpoint is in a snapshot before a surface or  *)
(* the queue has it (completions.py:303-328).                              *)
THEOREM CheckpointsPrecedeDelivery == Spec => []CheckpointBeforeDelivery
<1>1. DeliveryInv => CheckpointBeforeDelivery
  BY DEF DeliveryInv, StepInv
<1>2. QED BY <1>1, DeliveryInvariant, PTL

-----------------------------------------------------------------------------
(* While connections do not overlap.                                       *)

(* What a step does to the handler of c.                                   *)
HandlerMoves(c) ==
    LET at == handler[c]
        next == handler'[c]
    IN \/ next = at
       \/ /\ at = "new" /\ next = "handshake"
          /\ "overlap" \in Faults \/ \A d \in Conns : ~Serving(d)
          /\ \A d \in Conns \ {c} : handler'[d] = handler[d]
       \/ at = "handshake" /\ next = "attaching" /\ tetherTurns'[c] = queue
       \/ at = "attaching" /\ next = "draining"
       \/ at = "draining" /\ next = "loop" /\ queue' = <<>>
       \/ at \in {"handshake", "attaching"} /\ next \in {"loop", "gone"}
       \/ at = "loop" /\ next = "gone"

(* What a handler has read stays, unless it begins to attach; and it sends *)
(* of it only while it drains.                                             *)
ReadMoves(c) ==
    /\ handler[c] # "handshake" => tetherTurns'[c] = tetherTurns[c]
    /\ \/ drained'[c] = drained[c] /\ (tetherTurns'[c] = tetherTurns[c] \/ drained[c] = 0)
       \/ /\ handler[c] = "draining" /\ handler'[c] = "draining" /\ tetherTurns'[c] = tetherTurns[c]
          /\ drained'[c] = drained[c] + 1 /\ drained[c] + 1 \in DOMAIN tetherTurns[c]

LEMMA HandlerStep ==
    ASSUME TypeOK, ReadInv, [Next]_vars
    PROVE  \A c \in Conns : HandlerMoves(c) /\ ReadMoves(c)
<1> SUFFICES ASSUME NEW d \in Conns PROVE HandlerMoves(d) /\ ReadMoves(d)
  OBVIOUS
<1> USE DEF HandlerMoves, ReadMoves, conns
<1>1. ASSUME NEW c \in Conns, Handler(c) PROVE HandlerMoves(d) /\ ReadMoves(d)
  <2>0. handler \in [Conns -> HandlerStates] /\ drained \in [Conns -> Nat]
        /\ tetherTurns \in [Conns -> Seq(Frame)]
    BY DEF TypeOK
  <2>1. CASE Connect(c) BY <2>0, <2>1 DEF Connect
  <2>2. CASE PeerDrop(c) BY <2>0, <2>2 DEF PeerDrop
  <2>3. CASE Reject(c) BY <2>0, <2>3 DEF Reject
  <2>4. CASE Attach(c) BY <2>0, <2>4 DEF Attach, ReadInv
  <2>5. CASE AttachSent(c) BY <2>0, <2>5 DEF AttachSent
  <2>6. CASE AttachFail(c) BY <2>0, <2>6 DEF AttachFail
  <2>7. CASE DrainStep(c)
    <3>1. drained[c] + 1 \in DOMAIN tetherTurns[c]
      BY <2>0, <2>7 DEF DrainStep
    <3>2. QED BY <2>0, <2>7, <3>1 DEF DrainStep
  <2>8. CASE DrainEnd(c) BY <2>0, <2>8 DEF DrainEnd
  <2>9. CASE Detach(c) BY <2>0, <2>9 DEF Detach
  <2>10. CASE Dropped(c) BY <2>0, <2>10 DEF Dropped
  <2>11. QED BY <1>1, <2>1, <2>2, <2>3, <2>4, <2>5, <2>6, <2>7, <2>8, <2>9, <2>10 DEF Handler
<1>2. ASSUME NEW t \in Turns, Request(t) PROVE UNCHANGED conns
  BY <1>2 DEF Request, Refuse, StartPush, StartStream, Accept, LlmFails, Reply, ReplyEmpty,
              Chunk, StreamEnd, StreamEmpty, SendSucceeds, SendFails, Sent
<1>3. QED BY <1>1, <1>2 DEF Next, vars

LEMMA QueueMoves ==
    ASSUME TypeOK, HandshakeInv, ReadInv, [Next]_vars, NEW t \in Turns, QueuedIn(queue', t)
    PROVE  QueuedIn(queue, t) \/ Unemitted(t)
<1>1. ASSUME NEW u \in Turns, NEW f \in Frame, HoldKind(u, f) PROVE QueuedIn(queue, t) \/ Unemitted(t)
  <2>1. QueuedIn(queue, t) \/ t = u
    BY <1>1, QueuedAppended DEF HoldKind, TypeOK
  <2>2. QED BY <1>1, <2>1 DEF HoldKind, Emits
<1>2. CASE queue' \in {queue, <<>>}
  BY <1>2, NothingQueued
<1>3. QED BY <1>1, <1>2, StepKinds DEF Kinds, QuietKind, TalkKind, ReadKind, DrainKind, PushKind

LEMMA DrainMoves ==
    ASSUME TypeOK, ReadInv, [Next]_vars, NEW t \in Turns, NEW c \in Conns, DrainedTo(t, c)'
    PROVE  \/ DrainedTo(t, c)
           \/ handler[c] = "draining" /\ QueuedIn(tetherTurns[c], t)
<1>0. ReadMoves(c) /\ drained[c] \in Nat
  BY HandlerStep DEF TypeOK
<1>1. PICK k \in 1 .. drained'[c] : tetherTurns'[c][k].turn = t
  BY DEF DrainedTo
<1>2. CASE drained'[c] = drained[c]
  BY <1>0, <1>1, <1>2 DEF ReadMoves, DrainedTo
<1>3. CASE drained'[c] = drained[c] + 1 /\ drained[c] + 1 \in DOMAIN tetherTurns[c]
           /\ handler[c] = "draining" /\ tetherTurns'[c] = tetherTurns[c]
  <2>1. CASE k = drained[c] + 1
    BY <1>1, <1>3, <2>1 DEF QueuedIn
  <2>2. CASE k # drained[c] + 1
    <3>1. k \in 1 .. drained[c]
      BY <1>0, <1>3, <2>2
    <3>2. QED BY <1>1, <1>3, <3>1 DEF DrainedTo
  <2>3. QED BY <2>1, <2>2
<1>4. QED BY <1>0, <1>2, <1>3 DEF ReadMoves

LEMMA AloneStep ==
    ASSUME "overlap" \notin Faults, TypeOK, HandshakeInv, DeliveryInv, AloneInv, [Next]_vars
    PROVE  AloneInv'
<1>0. /\ ReadInv
      /\ \A c \in Conns : HandlerMoves(c) /\ ReadMoves(c)
      /\ \A t \in Turns, c \in Conns : Unemitted(t) => ~QueuedIn(tetherTurns[c], t)
  BY HandlerStep DEF DeliveryInv, RouteInv
<1>d. ASSUME NEW t \in Turns, NEW c \in Conns, DrainedTo(t, c) PROVE QueuedIn(tetherTurns[c], t)
  <2>1. PICK k \in 1 .. drained[c] : tetherTurns[c][k].turn = t
    BY <1>d DEF DrainedTo
  <2>2. tetherTurns[c] \in Seq(Frame) /\ drained[c] \in Nat /\ drained[c] <= Len(tetherTurns[c])
    BY <1>0 DEF TypeOK, ReadInv
  <2>3. k \in DOMAIN tetherTurns[c]
    BY <2>2
  <2>4. QED BY <2>1, <2>3 DEF QueuedIn
<1>1. ASSUME NEW c \in Conns, NEW d \in Conns, Serving(c)', Serving(d)' PROVE c = d
  <2>1. Serving(c) \/ \A e \in Conns : ~Serving(e) /\ (e # c => handler'[e] = handler[e])
    BY <1>0, <1>1 DEF HandlerMoves, Serving
  <2>2. Serving(d) \/ \A e \in Conns : ~Serving(e) /\ (e # d => handler'[e] = handler[e])
    BY <1>0, <1>1 DEF HandlerMoves, Serving
  <2>3. QED BY <1>1, <2>1, <2>2 DEF AloneInv, Serving
<1>2. ASSUME NEW t \in Turns, NEW c \in Conns, QueuedIn(queue', t), DrainedTo(t, c)'
      PROVE  handler'[c] = "draining"
  <2>1. DrainedTo(t, c) => QueuedIn(queue, t)
    BY <1>0, <1>2, <1>d, QueueMoves
  <2>2. handler[c] = "draining"
    BY <1>0, <1>2, <2>1, DrainMoves DEF AloneInv
  <2>3. queue' # <<>>
    BY <1>2, NothingQueued
  <2>4. QED BY <1>0, <2>2, <2>3 DEF HandlerMoves
<1>3. ASSUME NEW t \in Turns, NEW c \in Conns, NEW d \in Conns, c # d, DrainedTo(t, d)',
             handler'[c] \in {"attaching", "draining"}, QueuedIn(tetherTurns'[c], t)
      PROVE  FALSE
  <2>1. Serving(c) /\ handler[c] \in {"handshake", "attaching", "draining"}
    BY <1>0, <1>3 DEF HandlerMoves, Serving
  <2>2. DrainedTo(t, d) /\ handler[d] # "draining"
    BY <1>0, <1>3, <2>1, DrainMoves DEF AloneInv, Serving
  <2>3. CASE handler[c] = "handshake"
    <3>1. tetherTurns'[c] = queue
      BY <1>0, <1>3, <2>3 DEF HandlerMoves
    <3>2. QED BY <1>3, <2>2, <3>1 DEF AloneInv
  <2>4. CASE handler[c] \in {"attaching", "draining"}
    BY <1>0, <1>3, <2>2, <2>4 DEF ReadMoves, AloneInv
  <2>5. QED BY <2>1, <2>3, <2>4
<1>4. ASSUME NEW t \in Turns, NEW c \in Conns, NEW d \in Conns, DrainedTo(t, c)', DrainedTo(t, d)'
      PROVE  c = d
  <2>1. DrainedTo(t, c) \/ (handler[c] = "draining" /\ QueuedIn(tetherTurns[c], t))
    BY <1>0, <1>4, DrainMoves
  <2>2. DrainedTo(t, d) \/ (handler[d] = "draining" /\ QueuedIn(tetherTurns[d], t))
    BY <1>0, <1>4, DrainMoves
  <2>3. QED BY <2>1, <2>2 DEF AloneInv, Serving
<1>5. QED BY <1>1, <1>2, <1>3, <1>4 DEF AloneInv

(* No turn is given to two surfaces as long as none attaches over another, *)
(* though peers vanish at any point and their handlers break off: what a   *)
(* drain that broke off has given is not in the queue any more             *)
(* (sbp_ws.py:110-136; completions.py:323-328).                            *)
THEOREM NothingIsGivenTwiceAlone ==
    ASSUME "overlap" \notin Faults
    PROVE  Spec => []NoDuplicateDelivery
<1>1. Init => HandshakeInv /\ AloneInv
  <2>1. Init => HandshakeInv
    BY TetherAssumption DEF Init, HandshakeInv, HandshakeFirst, WellOpened, OnlyTurns, Acknowledged
  <2>2. Init => AloneInv
    BY DEF Init, AloneInv, Serving, QueuedIn, DrainedTo
  <2>3. QED BY <2>1, <2>2
<1>2. TypeOK /\ HandshakeInv /\ DeliveryInv /\ AloneInv /\ [Next]_vars => AloneInv'
  BY AloneStep
<1>3. DeliveryInv /\ AloneInv => NoDuplicateDelivery
  <2> SUFFICES ASSUME DeliveryInv, AloneInv, NEW c \in Conns, NEW d \in Conns, NEW t \in Turns,
                      GivenTo(t, c), GivenTo(t, d)
               PROVE  c = d
    BY DEF NoDuplicateDelivery
  <2>1. (DrainedTo(t, c) \/ PushedTo(t, c)) /\ (DrainedTo(t, d) \/ PushedTo(t, d))
    BY DEF DeliveryInv, RouteInv
  <2>2. QED BY <2>1 DEF PushedTo, AloneInv
<1>4. QED BY <1>1, <1>2, <1>3, TypeCorrect, HandshakeStep, DeliveryInvariant, PTL DEF Spec
=============================================================================
