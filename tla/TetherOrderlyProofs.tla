------------------------- MODULE TetherOrderlyProofs -------------------------
(***************************************************************************)
(* While no peer vanishes and no two connections overlap, the Tether keeps *)
(* its promise: proofs for every set of connections and of turns.          *)
(***************************************************************************)
EXTENDS TetherProofs


(* Control.                                                                *)

LEMMA OrderlyControlStep ==
    ASSUME Faults = {}, TypeOK, OrderlyControl, [Next]_vars
    PROVE  OrderlyControl'
<1> USE TetherAssumption DEF InSession, Serving
<1>a. /\ \A c \in Conns : /\ socket[c] # "lost"
                          /\ InSession(c) <=> connection = c
                          /\ Serving(c) => socket[c] = "open"
                          /\ handler[c] \in {"new", "handshake", "attaching"} => drained[c] = 0
                          /\ handler[c] \in {"attaching", "draining"} => queue = tetherTurns[c]
      /\ \A c, d \in Conns : Serving(c) /\ Serving(d) => c = d
      /\ \A t \in Turns : task[t] \in {"sending", "chunking"} => via[t] \in Conns
  BY DEF OrderlyControl
<1>1. ASSUME NEW c \in Conns, Handler(c) PROVE OrderlyControl'
  <2> USE <1>a DEF OrderlyControl, TypeOK, HandlerStates, conns, store, tasks
  <2>1. CASE Connect(c) BY <2>1 DEF Connect
  <2>2. CASE PeerDrop(c) BY <2>2 DEF PeerDrop
  <2>3. CASE Reject(c) BY <2>3 DEF Reject, Hangup
  <2>4. CASE Attach(c) BY <2>4 DEF Attach, Register
  <2>5. CASE AttachSent(c) BY <2>5 DEF AttachSent
  <2>6. CASE AttachFail(c) BY <2>6 DEF AttachFail
  <2>7. CASE DrainStep(c) BY <2>7 DEF DrainStep
  <2>8. CASE DrainEnd(c) BY <2>8 DEF DrainEnd
  <2>9. CASE Detach(c) BY <2>9 DEF Detach, Hangup, Release
  <2>10. CASE Dropped(c) BY <2>10 DEF Dropped
  <2>11. QED BY <1>1, <2>1, <2>2, <2>3, <2>4, <2>5, <2>6, <2>7, <2>8, <2>9, <2>10 DEF Handler
<1>2. ASSUME NEW t \in Turns, Request(t) PROVE OrderlyControl'
  <2> USE <1>a DEF OrderlyControl, TypeOK, TaskStates, conns, store, tasks
  <2>e. ASSUME NEW live, NEW buffered, Emit(t, live, buffered), UNCHANGED <<conns, connection>>
        PROVE  OrderlyControl'
    <3>1. CASE connection # None
      BY <2>e, <3>1 DEF Emit, Send
    <3>2. CASE connection = None
      <4>1. Buffer(t, buffered)
        BY <2>e, <3>2 DEF Emit
      <4>2. \A c \in Conns : ~InSession(c)
        BY <3>2
      <4>3. QED BY <2>e, <4>1, <4>2 DEF Buffer
    <3>3. QED BY <3>1, <3>2
  <2>1. CASE Refuse(t) \/ StartPush(t) \/ StartStream(t)
    BY <2>1 DEF Refuse, StartPush, StartStream, Accept
  <2>2. CASE LlmFails(t) \/ ReplyEmpty(t) \/ StreamEmpty(t)
    BY <2>2 DEF LlmFails, ReplyEmpty, StreamEmpty
  <2>3. CASE Reply(t) BY <2>3, <2>e DEF Reply
  <2>4. CASE Chunk(t) BY <2>4 DEF Chunk, Send
  <2>5. CASE StreamEnd(t) BY <2>5, <2>e DEF StreamEnd
  <2>6. CASE SendSucceeds(t) BY <2>6 DEF SendSucceeds, Sent
  <2>7. CASE SendFails(t) BY <2>7 DEF SendFails, Sent
  <2>8. QED BY <1>2, <2>1, <2>2, <2>3, <2>4, <2>5, <2>6, <2>7 DEF Request
<1>3. CASE UNCHANGED vars
  BY <1>a, <1>3 DEF vars, conns, store, tasks, OrderlyControl
<1>4. QED BY <1>1, <1>2, <1>3 DEF Next

(* A handler that serves a surface serves the registered one.              *)
THEOREM ServedSurfaceIsRegistered ==
    ASSUME Faults = {}
    PROVE  Spec => []ServedIsRegistered
<1>1. Init => OrderlyControl
  BY TetherAssumption DEF Init, OrderlyControl, InSession, Serving
<1>2. OrderlyControl => ServedIsRegistered
  BY DEF OrderlyControl, ServedIsRegistered, InSession
<1>3. TypeOK /\ OrderlyControl /\ [Next]_vars => OrderlyControl'
  BY OrderlyControlStep
<1>4. QED BY <1>1, <1>2, <1>3, TypeCorrect, PTL DEF Spec

-----------------------------------------------------------------------------
(* Data: what a write, an append and a message change.                     *)

LEMMA GivenWrite ==
    ASSUME TypeOK, NEW c \in Conns, socket[c] = "open", NEW f \in Frame, frames' = Written(c, f),
           NEW t, NEW d \in Conns
    PROVE  GivenTo(t, d)' <=> GivenTo(t, d) \/ (d = c /\ EndsTurn(f) /\ f.turn = t)
<1>1. CASE d = c
  <2>1. frames'[d] = Append(frames[d], f) /\ frames[d] \in Seq(Frame)
    BY <1>1 DEF Written, TypeOK
  <2> DEFINE n == Len(frames[d]) + 1
  <2>2. /\ DOMAIN frames'[d] = DOMAIN frames[d] \cup {n}
        /\ frames'[d][n] = f
        /\ \A i \in DOMAIN frames[d] : frames'[d][i] = frames[d][i]
    BY <2>1
  <2>3. QED BY <1>1, <2>2 DEF GivenTo
<1>2. CASE d # c
  <2>1. frames'[d] = frames[d]
    BY <1>2 DEF Written, TypeOK
  <2>2. QED BY <1>2, <2>1 DEF GivenTo
<1>3. QED BY <1>1, <1>2

LEMMA QueuedAppend ==
    ASSUME NEW q \in Seq(Frame), NEW f \in Frame, NEW t
    PROVE  QueuedIn(Append(q, f), t) <=> QueuedIn(q, t) \/ f.turn = t
<1> DEFINE n == Len(q) + 1
<1>1. /\ DOMAIN Append(q, f) = DOMAIN q \cup {n}
      /\ Append(q, f)[n] = f
      /\ \A i \in DOMAIN q : Append(q, f)[i] = q[i]
  OBVIOUS
<1>2. QED BY <1>1 DEF QueuedIn

LEMMA PersistedSaid ==
    ASSUME TypeOK, NEW u \in Turns \cup {None}, NEW r \in {"user", "assistant"},
           history' = Said(r, u), NEW t
    PROVE  Persisted(t)' => Persisted(t) \/ (r = "assistant" /\ u = t)
<1> DEFINE m == [role |-> r, turn |-> u]
           n == Len(history) + 1
<1>1. history \in Seq(Message) /\ m \in Message
  BY DEF TypeOK, Message
<1>2. /\ DOMAIN history' = DOMAIN history \cup {n}
      /\ history'[n] = m
      /\ \A i \in DOMAIN history : history'[i] = history[i]
  BY <1>1 DEF Said
<1>3. QED BY <1>2 DEF Persisted

-----------------------------------------------------------------------------
(* Data: the five ways in which a step can bear on the delivery of turns.  *)

Taken(i, c) == handler[c] = "draining" /\ i <= drained[c]

(* The step leaves the buffering and the drain alone, persists no turn but *)
(* those of S and gives each connection c the turns of G[c].               *)
Keeps(S, G) ==
    /\ \A t \in Turns : Unemitted(t)' => Unemitted(t)
    /\ \A t \in Turns : Persisted(t)' => Persisted(t) \/ t \in S
    /\ \A t \in Turns, c \in Conns : GivenTo(t, c)' <=> GivenTo(t, c) \/ t \in G[c]

Still == queue' = queue /\ \A c \in Conns : \A i \in DOMAIN queue : Taken(i, c)' <=> Taken(i, c)
Nobody == [c \in Conns |-> {}]
Only(c, t) == [Nobody EXCEPT ![c] = {t}]
Emits(t) == Unemitted(t) /\ ~Unemitted(t)'

QuietKind == Still /\ Keeps({}, Nobody)
PushKind(t, c) == Still /\ Emits(t) /\ Keeps({t}, Only(c, t))
HoldKind(t) ==
    /\ Emits(t)
    /\ connection = None
    /\ \E f \in Frame : f.turn = t /\ queue' = Append(queue, f)
    /\ UNCHANGED <<handler, drained>>
    /\ Keeps({t}, Nobody)
DrainKind(c) ==
    /\ handler[c] = "draining"
    /\ drained[c] + 1 \in DOMAIN queue
    /\ drained' = [drained EXCEPT ![c] = @ + 1]
    /\ UNCHANGED <<handler, queue>>
    /\ Keeps({}, Only(c, queue[drained[c] + 1].turn))
ClearKind(c) ==
    /\ handler[c] = "draining"
    /\ drained[c] = Len(queue)
    /\ queue' = <<>>
    /\ Keeps({}, Nobody)

StepKind ==
    \/ QuietKind
    \/ \E t \in Turns : HoldKind(t) \/ \E c \in Conns : PushKind(t, c)
    \/ \E c \in Conns : DrainKind(c) \/ ClearKind(c)

(* A step that hands over no frame that ends a turn leaves GivenTo as it is. *)
LEMMA NothingGiven ==
    ASSUME TypeOK, \/ UNCHANGED frames
                   \/ \E c \in Conns, f \in Frame :
                         socket[c] = "open" /\ ~EndsTurn(f) /\ frames' = Written(c, f)
    PROVE  \A t \in Turns, c \in Conns : GivenTo(t, c)' <=> GivenTo(t, c)
<1>1. CASE UNCHANGED frames
  BY <1>1 DEF GivenTo
<1>2. ASSUME NEW c \in Conns, NEW f \in Frame,
             socket[c] = "open", ~EndsTurn(f), frames' = Written(c, f)
      PROVE  \A t \in Turns, d \in Conns : GivenTo(t, d)' <=> GivenTo(t, d)
  BY <1>2, GivenWrite
<1>3. QED BY <1>1, <1>2

(* An emission is a push to the registered connection or a hold.           *)
LEMMA EmitKind ==
    ASSUME TypeOK, OrderlyControl, NEW t \in Turns, NEW live \in Frame, NEW buffered \in Frame,
           Unemitted(t), EndsTurn(live), live.turn = t, buffered.turn = t,
           Emit(t, live, buffered), UNCHANGED <<conns, connection>>,
           history' = Said("assistant", t)
    PROVE  HoldKind(t) \/ \E c \in Conns : PushKind(t, c)
<1> USE TetherAssumption DEF conns
<1>1. \A u \in Turns : Persisted(u)' => Persisted(u) \/ u \in {t}
  BY PersistedSaid
<1>2. CASE connection # None
  <2>1. Send(t, live, "sending") /\ UNCHANGED queue
    BY <1>2 DEF Emit
  <2>2. connection \in Conns /\ socket[connection] = "open"
    BY <1>2 DEF OrderlyControl, InSession, Serving, TypeOK
  <2>3. frames' = Written(connection, live)
    BY <2>1 DEF Send
  <2>4. \A u \in Turns, c \in Conns :
           GivenTo(u, c)' <=> GivenTo(u, c) \/ u \in Only(connection, t)[c]
    <3>1. \A u \in Turns, c \in Conns :
             GivenTo(u, c)' <=> GivenTo(u, c) \/ (c = connection /\ live.turn = u)
      BY <2>2, <2>3, GivenWrite
    <3>2. \A u \in Turns, c \in Conns : u \in Only(connection, t)[c] <=> c = connection /\ t = u
      BY <2>2 DEF Only, Nobody
    <3>3. QED BY <3>1, <3>2
  <2>5. Emits(t) /\ \A u \in Turns : Unemitted(u)' => Unemitted(u)
    BY <2>1 DEF Send, Emits, Unemitted, TypeOK
  <2>6. Still
    BY <2>1 DEF Still, Taken
  <2>7. PushKind(t, connection)
    BY <1>1, <2>4, <2>5, <2>6 DEF PushKind, Keeps
  <2>8. QED BY <2>2, <2>7
<1>3. CASE connection = None
  <2>1. Buffer(t, buffered)
    BY <1>3 DEF Emit
  <2>2. Emits(t) /\ \A u \in Turns : Unemitted(u)' => Unemitted(u)
    BY <2>1 DEF Buffer, Emits, Unemitted, TypeOK
  <2>3. \A u \in Turns, c \in Conns : GivenTo(u, c)' <=> GivenTo(u, c) \/ u \in Nobody[c]
    BY <2>1 DEF Buffer, GivenTo, Nobody
  <2>4. QED BY <1>1, <1>3, <2>1, <2>2, <2>3 DEF HoldKind, Keeps, Buffer, Enqueue
<1>4. QED BY <1>2, <1>3

(* A step that gives nothing, persists nothing and moves neither the queue *)
(* nor a drain is quiet.                                                   *)
LEMMA QuietStep ==
    ASSUME TypeOK, queue' = queue,
           \A c \in Conns : \A i \in DOMAIN queue : Taken(i, c)' <=> Taken(i, c),
           \/ UNCHANGED frames
           \/ \E c \in Conns, f \in Frame :
                 socket[c] = "open" /\ ~EndsTurn(f) /\ frames' = Written(c, f),
           \/ UNCHANGED history
           \/ history' = Said("user", None),
           \A t \in Turns : Unemitted(t)' => Unemitted(t)
    PROVE  QuietKind
<1>1. \A t \in Turns, c \in Conns : GivenTo(t, c)' <=> GivenTo(t, c) \/ t \in Nobody[c]
  BY NothingGiven DEF Nobody
<1>2. \A t \in Turns : Persisted(t)' => Persisted(t) \/ t \in {}
  <2>1. CASE UNCHANGED history BY <2>1 DEF Persisted
  <2>2. CASE history' = Said("user", None) BY <2>2, PersistedSaid
  <2>3. QED BY <2>1, <2>2
<1>3. QED BY <1>1, <1>2 DEF QuietKind, Keeps, Still

(* Every step of an orderly session is of one of the kinds.                *)
LEMMA StepKinds ==
    ASSUME Faults = {}, TypeOK, HandshakeInv, OrderlyControl, [Next]_vars
    PROVE  StepKind
<1> USE TetherAssumption
<1>1. ASSUME NEW c \in Conns, Handler(c) PROVE StepKind
  <2> USE DEF conns, store, tasks, Unemitted, Taken
  <2>0. /\ socket[c] # "lost"
        /\ Serving(c) => socket[c] = "open"
        /\ handler[c] \in {"new", "handshake", "attaching"} => drained[c] = 0
        /\ handler[c] \in {"attaching", "draining"} => queue = tetherTurns[c]
    BY DEF OrderlyControl
  <2>1. CASE Connect(c)
    <3>1. QuietKind BY <2>1, QuietStep DEF Connect, TypeOK, HandlerStates
    <3>2. QED BY <3>1 DEF StepKind
  <2>2. CASE PeerDrop(c) BY <2>2 DEF PeerDrop
  <2>3. CASE Reject(c)
    <3> DEFINE f == [type |-> "ERROR", turn |-> None, n |-> 0]
    <3>1. f \in Frame /\ ~EndsTurn(f) BY DEF Frame, FrameTypes, EndsTurn
    <3>2. UNCHANGED frames \/ frames' = Written(c, f) BY <2>3 DEF Reject
    <3>3. socket[c] = "open" BY <2>0, <2>3 DEF Reject, Serving
    <3>4. \A d \in Conns : \A i \in DOMAIN queue : Taken(i, d)' <=> Taken(i, d)
      BY <2>3 DEF Reject, TypeOK
    <3>5. QuietKind BY <2>3, <3>1, <3>2, <3>3, <3>4, QuietStep DEF Reject
    <3>6. QED BY <3>5 DEF StepKind
  <2>4. CASE Attach(c)
    <3> DEFINE f == [type |-> "SESSION_ATTACHED", turn |-> None, n |-> Len(queue)]
    <3>1. f \in Frame /\ ~EndsTurn(f) BY DEF Frame, FrameTypes, EndsTurn, TypeOK
    <3>2. frames' = Written(c, f) BY <2>4 DEF Attach
    <3>3. socket[c] = "open" BY <2>0, <2>4 DEF Attach, Serving
    <3>4. \A d \in Conns : \A i \in DOMAIN queue : Taken(i, d)' <=> Taken(i, d)
      BY <2>4 DEF Attach, TypeOK
    <3>5. QuietKind BY <2>4, <3>1, <3>2, <3>3, <3>4, QuietStep DEF Attach
    <3>6. QED BY <3>5 DEF StepKind
  <2>5. CASE AttachSent(c)
    <3>1. \A d \in Conns : \A i \in DOMAIN queue : Taken(i, d)' <=> Taken(i, d)
      BY <2>0, <2>5 DEF AttachSent, TypeOK
    <3>2. QuietKind BY <2>5, <3>1, QuietStep DEF AttachSent
    <3>3. QED BY <3>2 DEF StepKind
  <2>6. CASE AttachFail(c) BY <2>0, <2>6 DEF AttachFail
  <2>7. CASE DrainStep(c)
    <3> DEFINE f == queue[drained[c] + 1]
    <3>1. handler[c] = "draining" /\ drained[c] + 1 \in DOMAIN queue
      BY <2>0, <2>7 DEF DrainStep, TypeOK
    <3>2. f \in Frame /\ EndsTurn(f) /\ f.turn \in Turns
      BY <3>1 DEF HandshakeInv, OnlyTurns, EndsTurn, TypeOK
    <3>3. frames' = Written(c, f) /\ socket[c] = "open"
      BY <2>0, <2>7 DEF DrainStep, Serving
    <3>4. \A t \in Turns, d \in Conns : GivenTo(t, d)' <=> GivenTo(t, d) \/ t \in Only(c, f.turn)[d]
      <4>1. \A t \in Turns, d \in Conns : GivenTo(t, d)' <=> GivenTo(t, d) \/ (d = c /\ f.turn = t)
        BY <3>2, <3>3, GivenWrite
      <4>2. \A t \in Turns, d \in Conns : t \in Only(c, f.turn)[d] <=> d = c /\ f.turn = t
        BY DEF Only, Nobody
      <4>3. QED BY <4>1, <4>2
    <3>5. Keeps({}, Only(c, f.turn))
      BY <2>7, <3>4 DEF Keeps, DrainStep, Persisted
    <3>6. DrainKind(c) BY <2>7, <3>1, <3>5 DEF DrainKind, DrainStep
    <3>7. QED BY <3>6 DEF StepKind
  <2>8. CASE DrainEnd(c)
    <3>1. handler[c] = "draining" /\ drained[c] = Len(queue) /\ queue' = <<>>
      BY <2>0, <2>8 DEF DrainEnd, DrainOver
    <3>2. Keeps({}, Nobody)
      BY <2>8, NothingGiven DEF DrainEnd, Keeps, Nobody, Persisted
    <3>3. QED BY <3>1, <3>2 DEF ClearKind, StepKind
  <2>9. CASE Detach(c)
    <3>1. \A d \in Conns : \A i \in DOMAIN queue : Taken(i, d)' <=> Taken(i, d)
      BY <2>9 DEF Detach, TypeOK
    <3>2. QuietKind BY <2>9, <3>1, QuietStep DEF Detach
    <3>3. QED BY <3>2 DEF StepKind
  <2>10. CASE Dropped(c) BY <2>0, <2>10 DEF Dropped
  <2>11. QED BY <1>1, <2>1, <2>2, <2>3, <2>4, <2>5, <2>6, <2>7, <2>8, <2>9, <2>10 DEF Handler
<1>2. ASSUME NEW t \in Turns, Request(t) PROVE StepKind
  <2> USE DEF conns, store, tasks
  <2>q. ASSUME UNCHANGED <<frames, queue, handler, drained>>,
               UNCHANGED history \/ history' = Said("user", None),
               \A u \in Turns : Unemitted(u)' => Unemitted(u)
        PROVE  StepKind
    <3>1. QuietKind BY <2>q, QuietStep DEF Taken
    <3>2. QED BY <3>1 DEF StepKind
  <2>1. CASE Refuse(t) \/ StartPush(t) \/ StartStream(t)
    BY <2>1, <2>q DEF Refuse, StartPush, StartStream, Accept, Unemitted, TypeOK
  <2>2. CASE LlmFails(t) \/ ReplyEmpty(t) \/ StreamEmpty(t)
    BY <2>2, <2>q DEF LlmFails, ReplyEmpty, StreamEmpty, Unemitted, TypeOK
  <2>3. CASE Reply(t)
    <3> DEFINE f == TurnFrame(t, StepCount(Said("assistant", t)))
    <3>1. f \in Frame /\ EndsTurn(f) /\ f.turn = t
      BY SaidType, StepCountType DEF TurnFrame, Frame, FrameTypes, EndsTurn, TypeOK
    <3>2. Emit(t, f, f) /\ history' = Said("assistant", t) /\ UNCHANGED <<conns, connection>>
      BY <2>3 DEF Reply
    <3>3. Unemitted(t) BY <2>3 DEF Reply, Unemitted
    <3>4. QED BY <3>1, <3>2, <3>3, EmitKind DEF StepKind
  <2>4. CASE Chunk(t)
    <3> DEFINE f == [type |-> "TURN_CHUNK", turn |-> t, n |-> chunk[t] + 1]
    <3>1. f \in Frame /\ ~EndsTurn(f)
      BY DEF Frame, FrameTypes, EndsTurn, TypeOK
    <3>2. CASE connection = None
      BY <2>4, <2>q, <3>2 DEF Chunk, Unemitted
    <3>3. CASE connection # None
      <4>1. Send(t, f, "chunking")
        BY <2>4, <3>3 DEF Chunk
      <4>2. connection \in Conns /\ socket[connection] = "open"
        BY <3>3 DEF OrderlyControl, InSession, Serving, TypeOK
      <4>3. \A u \in Turns : Unemitted(u)' => Unemitted(u)
        BY <2>4, <4>1 DEF Send, Chunk, Unemitted, TypeOK
      <4>4. frames' = Written(connection, f)
        BY <4>1 DEF Send
      <4>5. QuietKind
        BY <2>4, <3>1, <4>2, <4>3, <4>4, QuietStep DEF Chunk, Taken
      <4>6. QED BY <4>5 DEF StepKind
    <3>4. QED BY <3>2, <3>3
  <2>5. CASE StreamEnd(t)
    <3> DEFINE live == [type |-> "TURN_COMPLETE", turn |-> t, n |-> 0]
               buffered == TurnFrame(t, 0)
    <3>1. /\ live \in Frame /\ EndsTurn(live) /\ live.turn = t
          /\ buffered \in Frame /\ buffered.turn = t
      BY DEF TurnFrame, Frame, FrameTypes, EndsTurn
    <3>2. Emit(t, live, buffered) /\ history' = Said("assistant", t)
          /\ UNCHANGED <<conns, connection>>
      BY <2>5 DEF StreamEnd
    <3>3. Unemitted(t) BY <2>5 DEF StreamEnd, Unemitted
    <3>4. QED BY <3>1, <3>2, <3>3, EmitKind DEF StepKind
  <2>6. CASE SendSucceeds(t) \/ SendFails(t)
    BY <2>6, <2>q DEF SendSucceeds, SendFails, Sent, Unemitted, TypeOK
  <2>7. QED BY <1>2, <2>1, <2>2, <2>3, <2>4, <2>5, <2>6 DEF Request
<1>3. CASE UNCHANGED vars
  <2>1. QuietKind
    BY <1>3, QuietStep DEF vars, conns, store, tasks, Taken, Unemitted
  <2>2. QED BY <2>1 DEF StepKind
<1>4. QED BY <1>1, <1>2, <1>3 DEF Next

-----------------------------------------------------------------------------
(* Data: each kind of step preserves the invariant.                        *)

LEMMA WhoIsGiven ==
    /\ \A u, d : d \in Conns => u \notin Nobody[d]
    /\ \A c \in Conns, t \in Turns : \A u, d :
           d \in Conns => (u \in Only(c, t)[d] <=> d = c /\ u = t)
  BY DEF Nobody, Only

LEMMA NothingLostMeans ==
    NoTurnLost <=> \A t \in Turns : Persisted(t) =>
                       QueuedIn(queue, t) \/ \E c \in Conns : GivenTo(t, c)
  BY DEF NoTurnLost, Waiting, Delivered

LEMMA NothingLostMeansNext ==
    NoTurnLost' <=> \A t \in Turns : Persisted(t)' =>
                        QueuedIn(queue', t) \/ \E c \in Conns : GivenTo(t, c)'
  BY DEF NoTurnLost, Waiting, Delivered, QueuedIn

LEMMA OrderlyDataStep ==
    ASSUME TypeOK, HandshakeInv, OrderlyControl, OrderlyData, StepKind
    PROVE  OrderlyData'
<1> USE TetherAssumption
<1>a. /\ \A t \in Turns : Unemitted(t) =>
             ~QueuedIn(queue, t) /\ \A c \in Conns : ~GivenTo(t, c)
      /\ \A i, j \in DOMAIN queue : queue[i].turn = queue[j].turn => i = j
      /\ \A i \in DOMAIN queue, c \in Conns : GivenTo(queue[i].turn, c) <=> Taken(i, c)
      /\ \A t \in Turns : Persisted(t) => QueuedIn(queue, t) \/ \E c \in Conns : GivenTo(t, c)
      /\ \A c, d \in Conns, t \in Turns : GivenTo(t, c) /\ GivenTo(t, d) => c = d
      /\ \A i \in DOMAIN queue : queue[i].turn \in Turns
      /\ queue \in Seq(Frame)
  BY NothingLostMeans DEF OrderlyData, Taken, NoDuplicateDelivery, HandshakeInv, OnlyTurns, TypeOK
(* It is enough to show each part of the invariant in the next state. *)
<1> DEFINE Goal ==
         /\ \A u \in Turns : Unemitted(u)' =>
                ~QueuedIn(queue', u) /\ \A d \in Conns : ~GivenTo(u, d)'
         /\ \A i, j \in DOMAIN queue' : queue'[i].turn = queue'[j].turn => i = j
         /\ \A i \in DOMAIN queue', d \in Conns :
                GivenTo(queue[i].turn, d)' <=> Taken(i, d)'
         /\ \A u \in Turns : Persisted(u)' =>
                QueuedIn(queue', u) \/ \E d \in Conns : GivenTo(u, d)'
         /\ \A d, e \in Conns, u \in Turns : GivenTo(u, d)' /\ GivenTo(u, e)' => d = e
<1>b. Goal => OrderlyData'
  BY NothingLostMeansNext DEF OrderlyData, Taken, NoDuplicateDelivery, QueuedIn
<1>1. CASE QuietKind
  <2>1. \A u \in Turns, d \in Conns : GivenTo(u, d)' <=> GivenTo(u, d)
    BY <1>1, WhoIsGiven DEF QuietKind, Keeps
  <2>2. ASSUME NEW i \in DOMAIN queue', NEW d \in Conns
        PROVE  GivenTo(queue[i].turn, d)' <=> Taken(i, d)'
    <3>1. queue' = queue /\ (Taken(i, d)' <=> Taken(i, d))
      BY <1>1 DEF QuietKind, Still
    <3>2. GivenTo(queue[i].turn, d)' <=> GivenTo(queue[i].turn, d)
      BY <1>a, <2>1, <3>1 DEF GivenTo
    <3>3. QED BY <1>a, <3>1, <3>2
  <2>3. Goal
    BY <1>a, <1>1, <2>1, <2>2 DEF QuietKind, Still, Keeps
  <2>4. QED BY <1>b, <2>3
<1>2. ASSUME NEW t \in Turns, NEW c \in Conns, PushKind(t, c)
      PROVE  OrderlyData'
  <2>1. \A u \in Turns, d \in Conns : GivenTo(u, d)' <=> GivenTo(u, d) \/ (d = c /\ u = t)
    BY <1>2, WhoIsGiven DEF PushKind, Keeps
  <2>2. ~QueuedIn(queue, t) /\ \A d \in Conns : ~GivenTo(t, d)
    BY <1>2, <1>a DEF PushKind, Emits
  <2>3. queue' = queue /\ ~Unemitted(t)'
    BY <1>2 DEF PushKind, Still, Emits
  <2>4. ASSUME NEW i \in DOMAIN queue', NEW d \in Conns
        PROVE  GivenTo(queue[i].turn, d)' <=> Taken(i, d)'
    <3>1. Taken(i, d)' <=> Taken(i, d)
      BY <1>2, <2>3 DEF PushKind, Still
    <3>2. queue[i].turn # t
      BY <2>2, <2>3 DEF QueuedIn
    <3>3. GivenTo(queue[i].turn, d)' <=> GivenTo(queue[i].turn, d)
      BY <1>a, <2>1, <2>3, <3>2 DEF GivenTo
    <3>4. QED BY <1>a, <2>3, <3>1, <3>3
  <2>5. \A u \in Turns : Unemitted(u)' =>
           ~QueuedIn(queue', u) /\ \A d \in Conns : ~GivenTo(u, d)'
    BY <1>2, <1>a, <2>1, <2>3 DEF PushKind, Keeps
  <2>6. \A u \in Turns : Persisted(u)' =>
           QueuedIn(queue', u) \/ \E d \in Conns : GivenTo(u, d)'
    BY <1>2, <1>a, <2>1, <2>3 DEF PushKind, Keeps
  <2>7. \A d, e \in Conns, u \in Turns : GivenTo(u, d)' /\ GivenTo(u, e)' => d = e
    BY <1>a, <2>1, <2>2
  <2>8. QED BY <1>a, <1>b, <2>3, <2>4, <2>5, <2>6, <2>7
<1>3. ASSUME NEW t \in Turns, HoldKind(t)
      PROVE  OrderlyData'
  <2>1. \A u \in Turns, d \in Conns : GivenTo(u, d)' <=> GivenTo(u, d)
    BY <1>3, WhoIsGiven DEF HoldKind, Keeps
  <2>2. ~QueuedIn(queue, t) /\ (\A d \in Conns : ~GivenTo(t, d)) /\ ~Unemitted(t)'
    BY <1>3, <1>a DEF HoldKind, Emits
  <2>3. PICK f \in Frame : f.turn = t /\ queue' = Append(queue, f)
    BY <1>3 DEF HoldKind
  <2>4. \A u : QueuedIn(queue', u) <=> QueuedIn(queue, u) \/ t = u
    BY <1>a, <2>3, QueuedAppend
  <2> DEFINE n == Len(queue) + 1
  <2>5. /\ DOMAIN queue' = DOMAIN queue \cup {n}
        /\ n \notin DOMAIN queue
        /\ queue'[n].turn = t
        /\ \A i \in DOMAIN queue : queue'[i] = queue[i]
    BY <1>a, <2>3
  <2>6. \A i, d : d \in Conns => ~Taken(i, d) /\ ~Taken(i, d)'
    BY <1>3 DEF HoldKind, OrderlyControl, InSession, Taken
  <2>7. \A i, j \in DOMAIN queue' : queue'[i].turn = queue'[j].turn => i = j
    BY <1>a, <2>2, <2>5 DEF QueuedIn
  <2>8. ASSUME NEW i \in DOMAIN queue', NEW d \in Conns
        PROVE  GivenTo(queue[i].turn, d)' <=> Taken(i, d)'
    <3>1. queue'[i].turn \in Turns /\ ~GivenTo(queue'[i].turn, d)
      BY <1>a, <2>2, <2>5, <2>6
    <3>2. ~GivenTo(queue[i].turn, d)'
      BY <2>1, <3>1 DEF GivenTo
    <3>3. QED BY <2>6, <3>2
  <2>9. \A u \in Turns : Unemitted(u)' =>
           ~QueuedIn(queue', u) /\ \A d \in Conns : ~GivenTo(u, d)'
    BY <1>3, <1>a, <2>1, <2>2, <2>4 DEF HoldKind, Keeps
  <2>10. \A u \in Turns : Persisted(u)' =>
           QueuedIn(queue', u) \/ \E d \in Conns : GivenTo(u, d)'
    BY <1>3, <1>a, <2>1, <2>4 DEF HoldKind, Keeps
  <2>11. QED BY <1>a, <1>b, <2>1, <2>7, <2>8, <2>9, <2>10
<1>4. ASSUME NEW c \in Conns, DrainKind(c)
      PROVE  OrderlyData'
  <2> DEFINE k == drained[c] + 1
             t == queue[k].turn
  <2>1. k \in DOMAIN queue /\ t \in Turns /\ handler[c] = "draining" /\ queue' = queue
    BY <1>4, <1>a DEF DrainKind
  <2>2. \A u \in Turns, d \in Conns : GivenTo(u, d)' <=> GivenTo(u, d) \/ (d = c /\ u = t)
    BY <1>4, <2>1, WhoIsGiven DEF DrainKind, Keeps
  <2>3. \A d \in Conns : d # c => handler[d] # "draining"
    BY <2>1 DEF OrderlyControl, Serving
  <2>4. \A d \in Conns : ~GivenTo(t, d)
    BY <1>a, <2>1, <2>3 DEF Taken, TypeOK
  <2>5. \A i \in DOMAIN queue, d \in Conns : Taken(i, d)' <=> Taken(i, d) \/ (d = c /\ i = k)
    BY <1>4, <1>a, <2>1 DEF DrainKind, Taken, TypeOK
  <2>6. ASSUME NEW i \in DOMAIN queue', NEW d \in Conns
        PROVE  GivenTo(queue[i].turn, d)' <=> Taken(i, d)'
    <3>1. GivenTo(queue[i].turn, d)' <=> GivenTo(queue[i].turn, d) \/ (d = c /\ queue[i].turn = t)
      BY <1>a, <2>1, <2>2 DEF GivenTo
    <3>2. queue[i].turn = t <=> i = k
      BY <1>a, <2>1
    <3>3. QED BY <1>a, <2>1, <2>5, <3>1, <3>2
  <2>7. \A u \in Turns : Unemitted(u)' =>
           ~QueuedIn(queue', u) /\ \A d \in Conns : ~GivenTo(u, d)'
    <3>1. \A u \in Turns : Unemitted(u)' => Unemitted(u)
      BY <1>4 DEF DrainKind, Keeps
    <3>2. QueuedIn(queue, t)
      BY <2>1 DEF QueuedIn
    <3>3. QED BY <1>a, <2>1, <2>2, <3>1, <3>2
  <2>8. \A u \in Turns : Persisted(u)' =>
           QueuedIn(queue', u) \/ \E d \in Conns : GivenTo(u, d)'
    BY <1>4, <1>a, <2>1, <2>2 DEF DrainKind, Keeps
  <2>9. \A d, e \in Conns, u \in Turns : GivenTo(u, d)' /\ GivenTo(u, e)' => d = e
    BY <1>a, <2>2, <2>4
  <2>10. QED BY <1>a, <1>b, <2>1, <2>6, <2>7, <2>8, <2>9
<1>5. ASSUME NEW c \in Conns, ClearKind(c)
      PROVE  OrderlyData'
  <2>1. \A u \in Turns, d \in Conns : GivenTo(u, d)' <=> GivenTo(u, d)
    BY <1>5, WhoIsGiven DEF ClearKind, Keeps
  <2>2. queue' = <<>> /\ \A u : ~QueuedIn(queue', u)
    BY <1>5 DEF ClearKind, QueuedIn
  <2>3. \A u \in Turns : QueuedIn(queue, u) => GivenTo(u, c)
    BY <1>5, <1>a DEF ClearKind, Taken, QueuedIn
  <2>4. \A u \in Turns : Unemitted(u)' =>
           ~QueuedIn(queue', u) /\ \A d \in Conns : ~GivenTo(u, d)'
    BY <1>5, <1>a, <2>1, <2>2 DEF ClearKind, Keeps
  <2>5. \A u \in Turns : Persisted(u)' =>
           QueuedIn(queue', u) \/ \E d \in Conns : GivenTo(u, d)'
    BY <1>5, <1>a, <2>1, <2>3 DEF ClearKind, Keeps
  <2>6. QED BY <1>a, <1>b, <2>1, <2>2, <2>4, <2>5
<1>6. QED BY <1>1, <1>2, <1>3, <1>4, <1>5 DEF StepKind

-----------------------------------------------------------------------------
(* The theorems of an orderly session.                                     *)

OrderlyInv == TypeOK /\ HandshakeInv /\ OrderlyControl /\ OrderlyData

LEMMA OrderlyInvariant ==
    ASSUME Faults = {}
    PROVE  Spec => []OrderlyInv
<1> USE TetherAssumption
<1>1. Init => HandshakeInv
  BY DEF Init, HandshakeInv, HandshakeFirst, WellOpened, OnlyTurns, Acknowledged
<1>2. Init => OrderlyControl
  BY DEF Init, OrderlyControl, InSession, Serving
<1>3. Init => OrderlyData
  <2> SUFFICES ASSUME Init PROVE OrderlyData
    OBVIOUS
  <2>1. \A t \in Turns, c \in Conns : ~GivenTo(t, c)
    BY DEF Init, GivenTo
  <2>2. \A t \in Turns : ~Persisted(t) /\ ~QueuedIn(queue, t)
    BY DEF Init, Persisted, QueuedIn
  <2>3. DOMAIN queue = {}
    BY DEF Init
  <2>4. QED BY <2>1, <2>2, <2>3 DEF OrderlyData, NoTurnLost, NoDuplicateDelivery
<1>4. Init => TypeOK
  BY DEF Init, TypeOK, HandlerStates, TaskStates
<1>5. OrderlyInv /\ [Next]_vars => OrderlyInv'
  <2> SUFFICES ASSUME OrderlyInv, [Next]_vars PROVE OrderlyInv'
    OBVIOUS
  <2>1. TypeOK' /\ HandshakeInv' /\ OrderlyControl'
    BY TypeStep, HandshakeStep, OrderlyControlStep DEF OrderlyInv
  <2>2. OrderlyData'
    BY StepKinds, OrderlyDataStep DEF OrderlyInv
  <2>3. QED BY <2>1, <2>2 DEF OrderlyInv
<1>6. Init => OrderlyInv
  BY <1>1, <1>2, <1>3, <1>4 DEF OrderlyInv
<1>7. QED BY <1>5, <1>6, PTL DEF Spec

(* Every answer the agent persisted waits in the queue or was handed to a  *)
(* surface.                                                                *)
THEOREM NothingIsLost ==
    ASSUME Faults = {}
    PROVE  Spec => []NoTurnLost
<1>1. OrderlyInv => NoTurnLost
  BY DEF OrderlyInv, OrderlyData
<1>2. QED BY <1>1, OrderlyInvariant, PTL

(* No turn is handed to two connections.                                   *)
THEOREM NothingIsGivenTwice ==
    ASSUME Faults = {}
    PROVE  Spec => []NoDuplicateDelivery
<1>1. OrderlyInv => NoDuplicateDelivery
  BY DEF OrderlyInv, OrderlyData
<1>2. QED BY <1>1, OrderlyInvariant, PTL

(* The session implements ReliableTether: each kind of step is one of its  *)
(* steps or a stutter.                                                     *)
THEOREM KeepsThePromise ==
    ASSUME Faults = {}
    PROVE  Spec => ImplementsReliableTether
<1> USE TetherAssumption
<1>1. Init => Promise!Init
  BY DEF Init, Promise!Init, Waiting, Delivered, QueuedIn, GivenTo
<1>2. OrderlyInv /\ [Next]_vars => [Promise!Next]_<<Waiting, Delivered>>
  <2> SUFFICES ASSUME OrderlyInv, [Next]_vars
               PROVE  [Promise!Next]_<<Waiting, Delivered>>
    OBVIOUS
  <2>a. /\ \A t \in Turns : Unemitted(t) =>
               ~QueuedIn(queue, t) /\ \A c \in Conns : ~GivenTo(t, c)
        /\ \A i, j \in DOMAIN queue : queue[i].turn = queue[j].turn => i = j
        /\ \A i \in DOMAIN queue, c \in Conns : GivenTo(queue[i].turn, c) <=> Taken(i, c)
        /\ \A i \in DOMAIN queue : queue[i].turn \in Turns
        /\ queue \in Seq(Frame)
    BY DEF OrderlyInv, OrderlyData, Taken, HandshakeInv, OnlyTurns, TypeOK
  <2>b. /\ \A t \in Turns : t \in Delivered <=> \E c \in Conns : GivenTo(t, c)
        /\ \A t \in Turns : t \in Delivered' <=> \E c \in Conns : GivenTo(t, c)'
        /\ \A t \in Turns : t \in Waiting <=> QueuedIn(queue, t) /\ t \notin Delivered
        /\ \A t \in Turns : t \in Waiting' <=> QueuedIn(queue', t) /\ t \notin Delivered'
        /\ Delivered \subseteq Turns /\ Delivered' \subseteq Turns
        /\ Waiting \subseteq Turns /\ Waiting' \subseteq Turns
    BY DEF Waiting, Delivered, QueuedIn
  <2>k. StepKind
    BY StepKinds DEF OrderlyInv
  <2>1. CASE QuietKind
    <3>1. queue' = queue /\ \A t \in Turns, c \in Conns : GivenTo(t, c)' <=> GivenTo(t, c)
      BY <2>1, WhoIsGiven DEF QuietKind, Still, Keeps
    <3>2. Delivered' = Delivered
      BY <2>b, <3>1
    <3>3. Waiting' = Waiting
      BY <2>b, <3>1, <3>2
    <3>4. QED BY <3>2, <3>3
  <2>2. ASSUME NEW t \in Turns, NEW c \in Conns, PushKind(t, c)
        PROVE  Promise!Push(t)
    <3>1. queue' = queue
          /\ \A u \in Turns, d \in Conns : GivenTo(u, d)' <=> GivenTo(u, d) \/ (d = c /\ u = t)
      BY <2>2, WhoIsGiven DEF PushKind, Still, Keeps
    <3>2. ~QueuedIn(queue, t) /\ \A d \in Conns : ~GivenTo(t, d)
      BY <2>2, <2>a DEF PushKind, Emits
    <3>3. Delivered' = Delivered \cup {t}
      BY <2>b, <3>1
    <3>4. Waiting' = Waiting
      BY <2>b, <3>1, <3>2, <3>3
    <3>5. QED BY <2>b, <3>2, <3>3, <3>4 DEF Promise!Push
  <2>3. ASSUME NEW t \in Turns, HoldKind(t)
        PROVE  Promise!Hold(t)
    <3>1. \A u \in Turns, d \in Conns : GivenTo(u, d)' <=> GivenTo(u, d)
      BY <2>3, WhoIsGiven DEF HoldKind, Keeps
    <3>2. ~QueuedIn(queue, t) /\ \A d \in Conns : ~GivenTo(t, d)
      BY <2>3, <2>a DEF HoldKind, Emits
    <3>3. \A u : QueuedIn(queue', u) <=> QueuedIn(queue, u) \/ t = u
      BY <2>3, <2>a, QueuedAppend DEF HoldKind
    <3>4. Delivered' = Delivered
      BY <2>b, <3>1
    <3>5. Waiting' = Waiting \cup {t}
      BY <2>b, <3>2, <3>3, <3>4
    <3>6. QED BY <2>b, <3>2, <3>4, <3>5 DEF Promise!Hold
  <2>4. ASSUME NEW c \in Conns, DrainKind(c)
        PROVE  Promise!Drain(queue[drained[c] + 1].turn) /\ queue[drained[c] + 1].turn \in Turns
    <3> DEFINE k == drained[c] + 1
               t == queue[k].turn
    <3>1. k \in DOMAIN queue /\ t \in Turns /\ handler[c] = "draining" /\ queue' = queue
      BY <2>4, <2>a DEF DrainKind
    <3>2. \A u \in Turns, d \in Conns : GivenTo(u, d)' <=> GivenTo(u, d) \/ (d = c /\ u = t)
      BY <2>4, <3>1, WhoIsGiven DEF DrainKind, Keeps
    <3>3. \A d \in Conns : ~Taken(k, d)
      BY <3>1 DEF OrderlyInv, OrderlyControl, Serving, Taken, TypeOK
    <3>4. QueuedIn(queue, t) /\ \A d \in Conns : ~GivenTo(t, d)
      BY <2>a, <3>1, <3>3 DEF QueuedIn
    <3>5. Delivered' = Delivered \cup {t}
      BY <2>b, <3>1, <3>2
    <3>6. Waiting' = Waiting \ {t}
      BY <2>b, <3>1, <3>5
    <3>7. t \in Waiting
      BY <2>b, <3>1, <3>4
    <3>8. QED BY <3>1, <3>5, <3>6, <3>7 DEF Promise!Drain
  <2>5. ASSUME NEW c \in Conns, ClearKind(c)
        PROVE  UNCHANGED <<Waiting, Delivered>>
    <3>1. \A u \in Turns, d \in Conns : GivenTo(u, d)' <=> GivenTo(u, d)
      BY <2>5, WhoIsGiven DEF ClearKind, Keeps
    <3>2. \A u : ~QueuedIn(queue', u)
      BY <2>5 DEF ClearKind, QueuedIn
    <3>3. \A u \in Turns : QueuedIn(queue, u) => GivenTo(u, c)
      BY <2>5, <2>a DEF ClearKind, Taken, QueuedIn
    <3>4. Delivered' = Delivered
      BY <2>b, <3>1
    <3>5. Waiting' = Waiting
      BY <2>b, <3>2, <3>3, <3>4
    <3>6. QED BY <3>4, <3>5
  <2>6. QED BY <2>k, <2>1, <2>2, <2>3, <2>4, <2>5 DEF StepKind, Promise!Next
<1>3. QED BY <1>1, <1>2, OrderlyInvariant, PTL DEF Spec, ImplementsReliableTether, Promise!Spec
=============================================================================
