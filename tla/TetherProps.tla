----------------------------- MODULE TetherProps -----------------------------
(***************************************************************************)
(* What is asked of one session's Tether: properties that hold whatever    *)
(* the peers do, properties that hold while no peer vanishes and no two    *)
(* connections overlap, and promises of the documents the code breaks.     *)
(***************************************************************************)
EXTENDS Tether, SequencesExt

TypeOK ==
    /\ socket \in [Conns -> {"none", "open", "lost", "closed"}]
    /\ handler \in [Conns -> HandlerStates]
    /\ tetherTurns \in [Conns -> Seq(Frame)]
    /\ drained \in [Conns -> Nat]
    /\ frames \in [Conns -> Seq(Frame)]
    /\ connection \in Conns \cup {None}
    /\ status \in {"active", "suspended"}
    /\ history \in Seq(Message)
    /\ queue \in Seq(Frame)
    /\ snapshot \in Nat
    /\ task \in [Turns -> TaskStates]
    /\ via \in [Turns -> Conns \cup {None}]
    /\ chunk \in [Turns -> 0..Chunks]

-----------------------------------------------------------------------------
(* Notions.                                                                *)

Persisted(t) == \E i \in DOMAIN history : history[i] = [role |-> "assistant", turn |-> t]

Shows(seq, f) == \E i \in DOMAIN seq : seq[i] = f

(* The frame that ends the delivery of a turn. *)
EndsTurn(f) == f.type \in {"TETHER_TURN", "TURN_COMPLETE"}

GivenTo(t, c) == \E i \in DOMAIN frames[c] : EndsTurn(frames[c][i]) /\ frames[c][i].turn = t
Delivered == {t \in Turns : \E c \in Conns : GivenTo(t, c)}

QueuedIn(q, t) == \E i \in DOMAIN q : q[i].turn = t
Waiting == {t \in Turns : QueuedIn(queue, t)} \ Delivered

(* The frames of a connection begin with its one SESSION_ATTACHED, or are  *)
(* an error alone.                                                         *)
WellOpened(seq) ==
    \A i \in DOMAIN seq :
        /\ seq[i].type = "SESSION_ATTACHED" <=> i = 1 /\ seq[1].type # "ERROR"
        /\ seq[i].type = "ERROR" => Len(seq) = 1

-----------------------------------------------------------------------------
(* Whatever the peers do.                                                  *)

(* A surface sees SESSION_ATTACHED before anything else and once only, and *)
(* a refused connection sees its error and nothing more: registration      *)
(* makes a socket a target of every producer, so it must not precede the   *)
(* acknowledgement (sbp_ws.py:106-121).                                    *)
HandshakeFirst == \A c \in Conns : WellOpened(frames[c])

(* No connection is given a turn twice, drained and pushed or drained      *)
(* again (sbp_ws.py:124-136, completions.py:323-328).                      *)
AtMostOncePerConnection ==
    \A c \in Conns : \A i, j \in DOMAIN frames[c] :
        /\ EndsTurn(frames[c][i]) /\ EndsTurn(frames[c][j])
        /\ frames[c][i].turn = frames[c][j].turn
        => i = j

(* The queue and a live push exclude each other: a turn that was ever      *)
(* buffered reaches a surface only by a drain of that surface's handler,   *)
(* and one that was not reaches one surface at most, however the           *)
(* registration changes hands (completions.py:144-158, 323-328).           *)
RouteExclusive ==
    \A t \in Turns :
        \/ \A c \in Conns : GivenTo(t, c) => QueuedIn(tetherTurns[c], t)
        \/ /\ ~QueuedIn(queue, t)
           /\ \A c, d \in Conns : GivenTo(t, c) /\ GivenTo(t, d) => c = d

(* A surface whose handler has reached its receive loop with the socket    *)
(* still good was given exactly the queued_turns it was promised, in       *)
(* queue order; before that, a prefix (sbp_ws.py:113-136).                 *)
AnnouncedTurnsGiven ==
    \A c \in Conns :
        /\ \A k \in DOMAIN tetherTurns[c] :
               Shows(frames[c], tetherTurns[c][k]) <=> k <= drained[c]
        /\ \A i, j \in DOMAIN frames[c], k, l \in DOMAIN tetherTurns[c] :
               frames[c][i] = tetherTurns[c][k] /\ frames[c][j] = tetherTurns[c][l]
                   => (i < j <=> k < l)
        /\ frames[c] # <<>> /\ frames[c][1].type = "SESSION_ATTACHED"
               => frames[c][1].n = Len(tetherTurns[c])
        /\ handler[c] = "loop" /\ socket[c] = "open" => drained[c] = Len(tetherTurns[c])

(* Step count n on a frame, in the queue or on a wire, names the n-th      *)
(* assistant message of the history: a turn is persisted before anyone     *)
(* sees it and concurrent requests never number two turns alike            *)
(* (completions.py:296-328).                                               *)
AnswersUpTo(i) == {k \in 1 .. i : history[k].role = "assistant"}

Numbered(f) ==
    f.type = "TETHER_TURN" =>
        \E i \in DOMAIN history :
            /\ history[i] = [role |-> "assistant", turn |-> f.turn]
            /\ f.turn \in Pushes => f.n = Cardinality(AnswersUpTo(i))

StepCountNamesTurn ==
    \A seq \in {queue} \cup {frames[c] : c \in Conns} : \A i \in DOMAIN seq : Numbered(seq[i])

(* Buffered turns stand in the order in which the session said them,       *)
(* though each producer persists and enqueues on its own.                  *)
QueueInHistoryOrder ==
    \A i, j \in DOMAIN queue : i < j =>
        \E k, l \in DOMAIN history :
            /\ k < l
            /\ history[k] = [role |-> "assistant", turn |-> queue[i].turn]
            /\ history[l] = [role |-> "assistant", turn |-> queue[j].turn]

(* A turn answered over HTTP whose step is a checkpoint is in a snapshot   *)
(* before a surface or the queue sees it (completions.py:303-328).         *)
(* Streamed turns, which carry no step (n = 0), write no checkpoint.       *)
Covered(f) ==
    f.type = "TETHER_TURN" /\ f.n > 0 /\ f.n % CheckpointEvery = 0 => snapshot >= f.n

CheckpointBeforeDelivery ==
    \A seq \in {queue} \cup {frames[c] : c \in Conns} : \A i \in DOMAIN seq : Covered(seq[i])

(* While a surface is registered the session is active: a handler that     *)
(* ends late suspends the session only together with its registration      *)
(* (sbp_ws.py:106-107, 178-180).                                           *)
AttachedIsActive == connection # None => status = "active"

(* A chunk of a streamed turn is given to one connection at most, a        *)
(* connection gets chunks in the order of the LLM, and none after the      *)
(* TURN_COMPLETE, though sends fail and surfaces change in between         *)
(* (completions.py:120-149).                                               *)
ChunksInOrder ==
    \A c, d \in Conns : \A i \in DOMAIN frames[c], j \in DOMAIN frames[d] :
        LET f == frames[c][i]
            g == frames[d][j]
        IN f.type = "TURN_CHUNK" /\ f.turn = g.turn =>
              /\ g.type = "TURN_CHUNK" /\ f.n = g.n => c = d /\ i = j
              /\ g.type = "TURN_CHUNK" /\ c = d /\ i < j => f.n < g.n
              /\ g.type = "TURN_COMPLETE" /\ c = d => i < j

(* The strengthening that makes HandshakeFirst inductive: a connection is  *)
(* a target of sends only once it was acknowledged, and the handler of an  *)
(* open socket has not ended.                                              *)
Acknowledged(c) ==
    /\ handler[c] \in {"new", "handshake"} => frames[c] = <<>> /\ connection # c
    /\ handler[c] \in {"attaching", "draining", "loop"} /\ socket[c] = "open"
         => frames[c] # <<>> /\ frames[c][1].type # "ERROR"
    /\ handler[c] = "gone" => socket[c] # "open"

OnlyTurns(q) == \A i \in DOMAIN q : q[i].type = "TETHER_TURN" /\ q[i].turn \in Turns

HandshakeInv ==
    /\ HandshakeFirst
    /\ OnlyTurns(queue)
    /\ \A c \in Conns : Acknowledged(c) /\ OnlyTurns(tetherTurns[c])

Unemitted(t) == task[t] \in {"new", "llm", "chunking"}

(* What a handler has read of the queue, and how much of it it has sent.   *)
ReadInv ==
    \A c \in Conns :
        /\ Serving(c) => socket[c] \in {"open", "lost"}
        /\ handler[c] \in {"new", "handshake"} => tetherTurns[c] = <<>>
        /\ handler[c] \in {"new", "handshake", "attaching"} => drained[c] = 0
        /\ drained[c] <= Len(tetherTurns[c])
        /\ handler[c] = "loop" /\ socket[c] = "open" => drained[c] = Len(tetherTurns[c])

(* The strengthening of AtMostOncePerConnection and RouteExclusive: a turn *)
(* not yet emitted is nowhere, no buffer holds a turn twice, and a turn    *)
(* given to c was drained to c or is in no buffer and nobody else's.       *)
Distinct(q) == \A i, j \in DOMAIN q : q[i].turn = q[j].turn => i = j
DrainedTo(t, c) == \E k \in 1 .. drained[c] : tetherTurns[c][k].turn = t
PushedTo(t, c) ==
    ~QueuedIn(queue, t) /\ \A d \in Conns : ~QueuedIn(tetherTurns[d], t) /\ (GivenTo(t, d) => d = c)

RouteInv ==
    /\ \A t \in Turns : Unemitted(t) =>
           ~QueuedIn(queue, t) /\ \A c \in Conns : ~QueuedIn(tetherTurns[c], t) /\ ~GivenTo(t, c)
    /\ Distinct(queue) /\ \A c \in Conns : Distinct(tetherTurns[c])
    /\ \A t \in Turns, c \in Conns : GivenTo(t, c) => DrainedTo(t, c) \/ PushedTo(t, c)
    /\ AtMostOncePerConnection

(* The strengthening of ChunksInOrder: the chunks on the wires are those   *)
(* that were accumulated, and a complete turn grows no more.               *)
ChunkInv ==
    /\ \A c \in Conns : \A i \in DOMAIN frames[c] :
           LET f == frames[c][i] IN
           /\ f.type = "TURN_CHUNK" => f.turn \in Streams /\ f.n <= chunk[f.turn]
           /\ f.type = "TURN_COMPLETE" => f.turn \in Streams /\ ~Unemitted(f.turn)
    /\ ChunksInOrder

(* The strengthening of StepCountNamesTurn, QueueInHistoryOrder and        *)
(* CheckpointBeforeDelivery: what handlers have read of the queue is       *)
(* numbered and covered like the queue, and no snapshot is ahead.          *)
StepInv ==
    /\ StepCountNamesTurn /\ CheckpointBeforeDelivery /\ QueueInHistoryOrder
    /\ \A c \in Conns : \A k \in DOMAIN tetherTurns[c] :
           Numbered(tetherTurns[c][k]) /\ Covered(tetherTurns[c][k])
    /\ snapshot <= StepCount(history)

DeliveryInv == ReadInv /\ RouteInv /\ AnnouncedTurnsGiven /\ ChunkInv /\ StepInv

-----------------------------------------------------------------------------
(* Liveness, under Fairness.                                               *)

(* Every request ends: none waits for ever on a surface that is gone       *)
(* (completions.py:85-158, 273-328).                                       *)
RequestsSettle == \A t \in Turns : task[t] # "new" ~> task[t] \in Settled

(* A buffered turn read by an attaching handler is given to its surface,   *)
(* unless the surface is lost (sbp_ws.py:110-136).                         *)
DrainDelivers ==
    \A c \in Conns, t \in Turns :
        QueuedIn(tetherTurns[c], t) ~> GivenTo(t, c) \/ socket[c] = "lost"

(* A surface lost after its handshake does not stay registered: turns must *)
(* find their way to the queue again (sbp_ws.py:171-180).                  *)
LostSurfaceReleased ==
    \A c \in Conns :
        socket[c] = "lost" /\ handler[c] \in {"draining", "loop"}
            ~> handler[c] = "gone" /\ connection # c

-----------------------------------------------------------------------------
(* While no peer vanishes and no two connections overlap.                  *)

(* Every answer of the agent waits in the queue or was handed to a         *)
(* surface.                                                                *)
NoTurnLost == \A t \in Turns : Persisted(t) => t \in Waiting \cup Delivered

(* No two connections are given the same turn: the drain of one is over,   *)
(* and the queue clear, before another's begins.  For that peers may       *)
(* vanish too, and handlers break off (sbp_ws.py:110-136).                 *)
NoDuplicateDelivery ==
    \A c, d \in Conns, t \in Turns : GivenTo(t, c) /\ GivenTo(t, d) => c = d

(* Its strengthening, while connections do not overlap: what was drained   *)
(* to one is in the queue only until its drain ends, and in no other drain *)
(* under way.                                                              *)
AloneInv ==
    /\ \A c, d \in Conns : Serving(c) /\ Serving(d) => c = d
    /\ \A t \in Turns, c \in Conns :
           QueuedIn(queue, t) /\ DrainedTo(t, c) => handler[c] = "draining"
    /\ \A t \in Turns, c, d \in Conns :
           /\ handler[c] \in {"attaching", "draining"} /\ QueuedIn(tetherTurns[c], t)
                  /\ DrainedTo(t, d) => c = d
           /\ DrainedTo(t, c) /\ DrainedTo(t, d) => c = d

(* The surface whose handler is serving it is the registered one, so new   *)
(* turns go to it.                                                         *)
ServedIsRegistered ==
    \A c \in Conns : handler[c] \in {"draining", "loop"} => connection = c

(* The strengthening that makes them inductive.  Control: one connection   *)
(* is served at a time, it is the registered one, and while it drains the  *)
(* queue stands still.  Data: a turn not yet emitted is nowhere, and a     *)
(* queued turn was given to a surface only by the drain that is under way. *)
InSession(c) == handler[c] \in {"attaching", "draining", "loop"}

OrderlyControl ==
    /\ \A c \in Conns : /\ socket[c] # "lost"
                        /\ InSession(c) <=> connection = c
                        /\ Serving(c) => socket[c] = "open"
                        /\ handler[c] \in {"new", "handshake", "attaching"} => drained[c] = 0
                        /\ handler[c] \in {"attaching", "draining"} => queue = tetherTurns[c]
    /\ \A c, d \in Conns : Serving(c) /\ Serving(d) => c = d
    /\ \A t \in Turns : task[t] \in {"sending", "chunking"} => via[t] \in Conns

OrderlyData ==
    /\ \A t \in Turns : Unemitted(t) =>
           ~QueuedIn(queue, t) /\ \A c \in Conns : ~GivenTo(t, c)
    /\ \A i, j \in DOMAIN queue : queue[i].turn = queue[j].turn => i = j
    /\ \A i \in DOMAIN queue, c \in Conns :
           GivenTo(queue[i].turn, c) <=> handler[c] = "draining" /\ i <= drained[c]
    /\ NoTurnLost
    /\ NoDuplicateDelivery

(* The session implements the promise of the Tether. *)
Promise == INSTANCE ReliableTether WITH waiting <- Waiting, delivered <- Delivered
ImplementsReliableTether == Promise!Spec

-----------------------------------------------------------------------------
(* Promises of the documents that the code breaks.                         *)

(* SPEC.md:461-462: "deliver buffered turns through the live WebSocket in  *)
(* chronological order before delivering any new turns".                   *)
BufferedBeforeLive ==
    \A c \in Conns : \A i, j \in DOMAIN frames[c] :
        /\ i < j
        /\ frames[c][j] \in ToSet(tetherTurns[c])
        => \/ frames[c][i].type = "SESSION_ATTACHED"
           \/ frames[c][i] \in ToSet(tetherTurns[c])

(* docs/concepts/resume.md:54-58, SPEC.md:485-487: a repeated attach of a  *)
(* running session drains the queue and continues normally.  The surface   *)
(* registered last stays registered until its own handler ends, its socket *)
(* is lost or another surface takes over.                                  *)
RegisteredUntilGone ==
    [][\A c \in Conns :
          connection = c /\ connection' = None => handler'[c] = "gone" \/ socket[c] = "lost"]_vars

(* completions.py:94-97: "queues the accumulated content as a TETHER_TURN  *)
(* so nothing is lost": a surface told that a streamed turn is complete    *)
(* holds every chunk of it, or the turn is in the queue.                   *)
StreamWhole ==
    \A c \in Conns, t \in Streams :
        (\E i \in DOMAIN frames[c] : frames[c][i].type = "TURN_COMPLETE" /\ frames[c][i].turn = t)
        => \/ \E k \in DOMAIN queue : queue[k].turn = t
           \/ \A n \in 1..chunk[t] : \E j \in DOMAIN frames[c] :
                  frames[c][j] = [type |-> "TURN_CHUNK", turn |-> t, n |-> n]
=============================================================================
