# State Bridge Protocol: a TLA+ verification project

The State Bridge Protocol (SBP) keeps an agent's session alive while the
surfaces a human uses come and go. This directory models the reference server
(`src/reference/server-python/sbp_server`), checks the models with TLC and
proves their main theorems with TLAPS. Paths below are relative to the
repository; `sbp_server/` stands for `src/reference/server-python/sbp_server/`.

## The system

The server is one Python process with one asyncio event loop. Every HTTP
request, every WebSocket connection and every streamed turn is a coroutine of
its own; they share the stores and one registry of live sockets.

| Part | State | Operations |
| --- | --- | --- |
| WebSocket handler, `routers/sbp_ws.py` | its place in the handshake, drain or loop; the turns it read | attach, drain, receive loop, detach |
| Connection registry, `ws_connection_manager.py` | `_connections`, `_tool_futures`, `_session_tool_calls`, `_surface_ctx` | register, disconnect, send, request and resolve a tool call |
| Completions router, `routers/completions.py` | none of its own; a task per request or stream | probe, resolve a session, persist, checkpoint, push or buffer a turn |
| In-memory stores, `backends/memory.py` | sessions and token index, messages, Tether queues, snapshots, exports | one coroutine each, which never suspends |
| Roaming router, `routers/sbp.py`, `token.py` | none; exports in the roaming store | export, import, handoff, fork, lineage |
| SQL queues, `backends/sqlite.py`, `postgres.py` | table `tether_turns` | enqueue, drain, ack, clear, purge |
| TypeScript client, `src/reference/client-typescript/src` | socket, pending connect, attempt counter, closed flag | connect, reconnect, dispatch, disconnect |
| `app.py`, `cli.py`, `demo.py`, `models/`, `conformance/runner.py` | none | wiring, declarations, drivers |

How they interact. A surface opens a WebSocket; its handler validates the first
frame, registers the socket, reads the session's Tether queue, acknowledges,
sends what it read, clears the queue and then reads frames until the socket
ends. Meanwhile completion requests of the same session persist the agent's
turns and look in the registry: with a surface they push, without one they
enqueue. `request_tool_call` sends a `TOOL_CALL` to the surface and waits for a
future that the handler's `TOOL_RESULT` branch resolves and `disconnect`
cancels.

What is hard. Nothing holds a lock: between any two awaits that suspend, every
other coroutine of the session may run. The registry names a session, not a
socket, so each handler and each failing send may unregister a socket that is
not its own. What a handler read from the queue is old when it clears it. That
a peer is gone is learned late, by some coroutines before others. A cancelled
future is raised in a coroutine that may not have begun to wait for it.

What makes each part correct:

* handler and queue: a surface hears `SESSION_ATTACHED` first, then the turns it
  was promised, in order; turns leave the queue only when they were delivered;
* producers: each turn is persisted, numbered and checkpointed before it is seen,
  and takes exactly one of the two routes;
* registry: who is registered is being served, and a lost surface is let go;
* tool calls: each ends in one way, leaves nothing behind and never waits for a
  surface that is gone;
* session resolution: a token finds its own session, an answer goes where its
  question went, and the status that the 202 probe believes is right;
* roaming: a token is good for one import, and a copy is what its source was;
* SQL queues: what a caller was told survives, and a drain gives all that is owed;
* client: it reconnects while it may and not after, and its promises settle.

## The modules

| Module | What it is |
| --- | --- |
| `Tether` | one session: its connections' handlers, its turns' requests and streams, the registry, history, queue and snapshots |
| `TetherProps` | type invariant, properties and strengthenings of `Tether`, and its refinement mapping |
| `ReliableTether` | abstract: a turn is handed over at once or waits, once |
| `TetherProofs` | type correctness, `AttachedIsActive`, `HandshakeFirst`, under every fault |
| `TetherOrderlyProofs` | no loss, no duplicate and the refinement, without faults |
| `TetherDeliveryProofs` | what a surface is given, how turns are numbered and checkpointed, under every fault; no duplicate without overlaps |
| `MCTether` | the symmetry set of the TLC instances |
| `Bridge` | the tool calls of one session, and what attaching and losing surfaces does to them |
| `BridgeProps` | its properties, its inductive invariant and its refinement mapping |
| `ToolCalls` | abstract: a call is answered, expires, or is cancelled with its surface |
| `BridgeProofs` | every invariant of `Bridge`, and the refinement, under every fault |
| `MCBridge` | the TLC instances |
| `Sessions` | all sessions of a server: the session and snapshot stores, completion requests from token to checkpoint, surfaces coming and going |
| `Roaming` | extends `Sessions` with export, import, handoff, fork and the reports |
| `RoamingProps` | properties of both, the refinement mapping, the inductive invariant |
| `SingleUse` | abstract: a token is issued, redeemed once, and restored or lost |
| `RoamingProofs` | type correctness, the token index, copies, integrity and the refinement |
| `RoamingStoryProofs` | who keeps a token, the family tree, questions and answers, snapshots, imports and handoffs |
| `MCRoaming` | the TLC instance |
| `TetherTable` | the table of the SQL queues, under SQLite's one connection and under PostgreSQL's autocommit |
| `DurableQueue` | abstract: the durability contract with single acknowledgements |
| `TableProps`, `TableProofs`, `MCTable` | its properties, their proofs, the TLC instances |

### Steps

An action is the code between two points where a coroutine really suspends:
receiving a frame, the completion of a send, an answer of the LLM, the resumption
of a waiting future. The in-memory stores are coroutines that never suspend, so
a call of theirs belongs to the action that makes it. `Roaming` has both kinds of
stores: `create_app` takes any, and the variable `suspends` says which a behaviour
has. A call of a store that writes is a step of its own, every message of a replay
included, and so is one whose result is used after another call. With `suspends`
others run between them and a call may raise; without it `MayRun` lets nobody in
between two calls of one handler. Two reads that are followed by nothing but a read
are merged where one result only says that the session exists (`get` and
`list_messages` in `Begin`), and so is the status probe, which writes nothing.

A send is two steps. It begins in the action that makes it, where
`manager.send` captures the registered WebSocket (`via`) and the frame is handed
to the transport if the socket is open; it ends in a later one, where it returns
or raises (`AttachSent`/`AttachFail`, `DrainStep`/`DrainEnd`,
`SendSucceeds`/`SendFails`, `AskSent`/`AskFails`). In between anything may happen,
so a frame counts as given to a surface when an open transport took it. A peer
that dies silently is outside what the server can know: such frames still count
as given.

### Tether

`handler[c]` follows `sbp_websocket` from top to bottom: `new`, `handshake` after
`accept`, `attaching` while `SESSION_ATTACHED` is being sent, `draining`,
`loop`, `gone`. `tetherTurns[c]` and `drained[c]` are the locals of the drain.
`connection`, `status`, `history`, `queue` and `snapshot` are the session's
entries of the registry and the stores; a message keeps its role and its turn, a
snapshot its step. `task[t]` follows `chat_completions` for a pushed turn and
`_stream_to_websocket` for a streamed one, `chunk[t]` counts what the stream
accumulated, and `sse` is a streamed turn without a surface, which is proxied to
its HTTP caller and leaves no trace. `frames[c]` is a history variable: what was
handed to the transport of `c`, in order. Frames carry their turn as a ghost
field where the code's frame has none.

### Bridge

`future[k]` is the Future of call `k`, `toolFutures` and `sessionCalls` are the
keys of the two tables. `call[k]` follows `request_tool_call`: `sending` and
`waiting` are its two awaits, the other values its outcomes. The surfaces keep
only what a call can notice. A timer of `wait_for` may fire in every state of the
future: asyncio lets it win against an answer that has been set and not yet been
collected. An answer is looked up by its call id alone (`ws_connection_manager.py:161`),
and the client sends it on the socket of the moment (`client.ts:275-286`): `Result`
takes it from any connection, for as long as the call is pending. Nothing in the
repository calls `request_tool_call`; calls arrive at
any time, and with the fault `abandon` their callers are cancelled.

### Sessions and Roaming

`session`, `byToken`, `messages` and `latest` are the four maps of the session and
snapshot stores; a message keeps its role and the request it is from, a snapshot
the history it holds, a session its token, its status and its origin metadata. A
uuid4 is named by the request that mints it.

`request[r]` follows `chat_completions`: `lookup` and `create` are the two ways to a
session, `wake` the write of its status, `speak` the user's message, `llm` the wait
for the answer, `answered` and `listed` the calls up to the checkpoint. A streamed
turn that is proxied to its HTTP caller ends in `AnswerEmpty`, as it persists nothing.

`handler[c]` follows the calls of `sbp_websocket` that change the registry or a
status, each a step: `Register` (`sbp_ws.py:106`), `Attach` (`:107`), `Disconnect`
(`:178`), `Detach` (`:180`). Several connections may serve one session; `surfaces` is
the set of sessions with an entry in the registry, which names no socket, so that
`Disconnect` takes away whatever is there. `Unregister` is what a failing send does
(`ws_connection_manager.py:88`) to a handler that knows nothing of it. The drain is
in `Tether`.

`roam[j]` follows the four roaming handlers, which share their steps: `snapshot`
after the history was listed, `record`, `create`, `replay` with the messages still to
be appended, `restore`, `activate`, `suspend`. `Consume` is the body of the lock in
`memory.py:148-154`. An exception in a handler that reads what exists is left out, as
the ids come from `Known`, what clients were told: a session becomes known with the
answer of the request that created it. A copy whose replay breaks (`Break`) is never
known, but it stays in the store, truncated and idle, and its token in the index.
Wall-clock time is not kept: a token may be found expired at any import.

### TetherTable

`disk` is the table as committed and `view` as the connection sees it. A call of
the SQLite queue executes a statement and later commits, in a transaction that
whatever calls are under way share; of PostgreSQL each statement is committed at
once and the later step only returns. A drain reads its rows when its statement
runs or when they are fetched (SQLite steps through a `SELECT` lazily, and whether
it sorts first depends on its plan). `stored`, `spent`, `due` and `barred` are
history variables: what callers were told, and what their calls under way are good
for. `full` says whether a commit may meet a full disk. Python's `sqlite3` opens a
transaction with the first statement that writes, and its `commit` returns at once
if there is none. The two modules import names that `backends/base.py` does not
define and cannot be loaded as they stand; the model takes `TetherTurn` and
`TetherBackend` for what they use them as. Power failures are left out: with
`synchronous=NORMAL` SQLite may lose the last commits in one.

### Faults

`Tether` and `Bridge` have a constant `Faults`. `drop`: a peer vanishes with its transport
knowing it. `overlap`: a surface attaches while an older connection is still being
served, which the server allows. `abandon` (Bridge): the calling task is
cancelled. With the empty set surfaces come one after another and leave by
`DETACH` or a close. `Sessions` and `Roaming` have `Abort`, `Collapse` and `Break`,
with which a completion, the handler of a surface and a roaming request end in any
call of a store that does I/O, between two messages of a replay included; what was
written until then stays. `TetherTable` has `Break` (a caller is cancelled,
or a commit finds the database busy; the transaction stays open), `RollBack` (a
commit meets a full disk), `Shutdown` and `Crash`.

## The runs

| Run | Instance | Distinct states | What it shows |
| --- | --- | --- | --- |
| `Tether_faulty` | 2 connections, 2 pushed turns, 1 streamed of 1 chunk, a checkpoint every 2 steps, both faults | 1.4 million | nine invariants that survive every fault |
| `Tether_live` | 2 connections, 1 pushed, 1 streamed of 2 chunks, both faults, fairness | 303 thousand | liveness, and the order of chunks |
| `Tether_orderly` | 3 connections, 2 pushed, 1 streamed, no faults | 168 thousand | no loss, no duplicate, `ImplementsReliableTether` |
| `Bridge_faulty` | 2 connections, 2 calls, all faults, fairness | 354 thousand | five invariants, two liveness properties, `ImplementsToolCalls` |
| `Roaming_faulty` | 2 completions, 3 roaming requests, 2 connections, 1 client-made token, arrivals of weight 6 (5 with stores that suspend; a completion weighs 2, others 1), a checkpoint at every step, both kinds of stores, at most 2 handlers between two calls | 651 thousand | nine invariants, two action properties, `ImplementsSingleUse` |
| `Table_faulty` | 2 callers, 2 turns, 2 sessions, 2 steps, both backends, every fault | 500 thousand | `ToldTurnsSurvive`, `ImplementsDurableQueue` |

Of the invariants, `HandshakeFirst` watches the handshake, `RouteExclusive`,
`AtMostOncePerConnection` and `AnnouncedTurnsGiven` what a surface is given,
`StepCountNamesTurn`, `QueueInHistoryOrder` and `CheckpointBeforeDelivery` the
concurrent producers, `AttachedIsActive` the registry and the status;
`TablesAgree`, `NothingLeaks`, `PendingIsTracked` and `NoCallWithoutSurface` the
tool calls; `TokenFindsOwner` and `TokenKeepsSession` the token index,
`AnswersFollowQuestions`, `CopiesAgree` and `LineageIsTree` histories and their
copies, `SnapshotOfHistory` and `CheckpointsAdvance` the checkpoints,
`IntegrityChecked` and `ConsumedIsImported` the tokens of exports,
`SuspendedUnderSurface` the status.

Of the properties of `Roaming` three hold with the in-memory stores only
(`~suspends`): `TokenKeepsSession`, `SnapshotOfHistory` and `CheckpointsAdvance`. With
stores that suspend, two requests of one unknown token may both create a session, a
slow checkpoint may overwrite a newer one, and a snapshot may be newer than the history
copied with it. The others hold of both, and two of them say what stores that
suspend add:

* `ConsumedIsImported`: a token is consumed when and only when its importer is at it,
  has made a session active with it, or was stopped by a store that failed. The last
  does burn the token, as the code consumes it first (`sbp.py:182`), and
  `ImplementsSingleUse` allows it too;
* `SuspendedUnderSurface`: a session with a surface is suspended by a handoff, or,
  where the store suspends, by a connection of that session whose last status write
  (`sbp_ws.py:180`) comes after another's registration. With the in-memory stores an
  overlap cannot do it, but for the instant between a registration and its status.

`CopiesAgree` holds of broken replays as well: what is there of the history is right,
and a session that lacks some of it stays idle and is known to nobody.

The bounds. Two connections are what it takes for one to replace, follow or
overlap another, and three for a queue to be drained, refilled and drained again
by one that is neither first nor last. Two pushed turns and a stream are the
least for the order of a queue, of the history and of the wires to differ, and
for a checkpoint modulus of 2 to be stepped over. A chunk limit of 2 lets a
surface get one chunk and not the other. Two calls let one end while the other
waits. Connections and calls are used once: a reconnecting surface is a new
connection. In `Roaming_faulty` three roaming requests are an export and two imports of it, or
copies of copies; two completions let the token of one move while the other waits.
`Calls` and `SlowCalls` bound how many requests and surfaces come in one behaviour, a
completion counting for two: six are enough for a completion, an export and its
import, and a completion in the copy or in the source, or two overlapping surfaces and
a handoff. `Concurrent` bounds how many handlers stand between two calls of stores that
suspend, with any number of others waiting for the LLM: two are what a race takes.
In `Table_faulty` two callers share a transaction, and two turns are in one session
or in two, at one step or at two: `Init` takes every case. That nothing depends on
these bounds is what the proofs add for the
properties they cover. Deadlock is not checked, as every connection and turn is
used up in the end and the instance stops.

Fairness (`Fairness` in each module). A send completes or raises and a lost peer
is noticed, because uvicorn pings its peers (`cli.py:71-78` keeps the default);
a call of the LLM ends, because httpx has a timeout of 120 s
(`completions.py:62`, `:103`); a coroutine that is ready runs. Nothing is assumed
of surfaces: they need not attach, answer or leave. `LossSettles` does without
the timer of `wait_for`; `CallsSettle` states it as its hypothesis.

Each property of a passing run has a mutant in its module: the changed form of
an action or a helper (marked `Mutant`) under which TLC finds the property
violated. No specification uses these.

### Where the code breaks its documents

Six runs end in a counterexample of a sentence of the documents.

| Run | Property | What happens |
| --- | --- | --- |
| `Tether_drop` | `NoTurnLost` | the peer is gone and the server has not noticed: `send` returns False, `completions.py:325` ignores it, the turn is nowhere but in the history |
| `Tether_order` | `BufferedBeforeLive` | the surface is registered at `sbp_ws.py:106`, before its drain, and a new turn overtakes the buffered ones |
| `Tether_stream` | `StreamWhole` | a surface that attaches during a stream is told of the end and never given the beginning, and the turn is not queued |
| `Tether_overlap` | `RegisteredUntilGone` | an older handler ends and unregisters the surface that replaced it (`sbp_ws.py:178`), which goes on reading while its turns are queued; without overlaps a send that began to an earlier, lost surface does the same when it fails (`ws_connection_manager.py:88`) |
| `Bridge_cancel` | `RaisesAsDocumented` | a surface detaches during a call and `request_tool_call` raises `CancelledError` |
| `Table_full` | `EnqueuedTurnsSurvive` | two calls of the SQLite queue share a transaction; the commit of one fails for a full disk and rolls both back (`sqlite.py:144`), and the other reports success |

Other disagreements, with no run of their own: a drain of the SQL queues sorts by step
and by nothing else, so that turns of one step, and all streamed turns, which carry
none (`completions.py:154-158`), come in any order (`sqlite.py:156`, `postgres.py:171`;
`backends/base.py:82`: "in enqueue order"; `SPEC.md:461-462`), and `DurableQueue`
promises the order of steps only; a drain that breaks off clears the
queue all the same (`sbp_ws.py:136`; `backends/base.py:88`); `allow_reuse` never
forks (`sbp.py:168`; `SPEC.md:626-628`), outgoing handoffs and forks are never
reported (`sbp.py:452`, `:457`; `SPEC.md:668`) and an expired token is answered with
422 instead of 410 (`sbp.py:159`; `SPEC.md:954`); the SQL queues cannot be imported
(`sqlite.py:41`); overlapping drains deliver
a turn to both surfaces (`sbp_ws.py:110`; `backends/README.md:48`: "MUST NOT be
delivered twice"); a failing acknowledgement leaves the dead socket registered
(`sbp_ws.py:113`; `docs/concepts/tether.md:69-71`); a streamed turn never writes a
checkpoint (`completions.py:139`; `SPEC.md:424`).

## The proofs

`TetherProofs` assumes `TetherAssumption` only. `TypeCorrect` is inductive by
itself, with a lemma for each helper of the stores. `AttachedIsActive` is as well:
whatever registers sets the status to active, and what suspends also unregisters.
`HandshakeFirst` is not inductive: a producer might be sending to a connection
whose first frame is still to come. `HandshakeInv` adds that a connection before
its acknowledgement has no frames and is not the registered one, that the frames
of an open one begin well, and that the queue and what was read from it hold only
`TETHER_TURN`s.

`TetherOrderlyProofs` assumes `Faults = {}` in addition. `OrderlyControl` says
that at most one handler is serving, that exactly it is registered while in
session, and that the queue stands still while it attaches and drains.
`OrderlyData` says that a turn not yet emitted is nowhere, that no turn is queued
twice, and that a queued turn was given to a connection just when the drain under
way has passed it. The lemma `StepKinds` sorts every step of `Next` into quiet
steps, pushes, buffering, one step of a drain and the clear after it; preservation
(`OrderlyDataStep`) and the refinement (`KeepsThePromise`) are then five cases
each. For these the hypothesis cannot be dropped: with either fault `NoTurnLost`
and `ServedIsRegistered` are false.

`TetherDeliveryProofs` assumes `TetherAssumption` only, so its theorems hold under
every fault and for every number of connections and turns. Again every step is of one
of six kinds (`Kinds`): quiet, a chunk or an error, a handler that reads the queue, a
step of a drain, a push, a turn that is buffered. `DeliveryInv` is shown part by part
and kind by kind:

* `ReadInv`: a handler reads the queue once, with nothing sent, and never sends more
  than it has read;
* `RouteInv` (for `AtMostOncePerConnection`, `RouteExclusive`): a turn not yet emitted
  is nowhere, no buffer holds a turn twice, and a turn given to a connection was
  drained to it or is in no buffer and with nobody else. Without the last part a turn
  that was pushed could be buffered too;
* `AnnouncedTurnsGiven` needs of these only that no turn is read twice;
* `ChunkInv` (for `ChunksInOrder`): the chunks on the wires are among those
  accumulated, and a complete turn grows no more;
* `StepInv` (for `StepCountNamesTurn`, `QueueInHistoryOrder`,
  `CheckpointBeforeDelivery`): what handlers have read is numbered and covered like
  the queue, and no snapshot is ahead of the history. `StepCount` is the cardinality
  of a set of positions, so that what the proof needs of it (it never falls as the
  history grows, and a prefix keeps its count) takes no induction.

`NothingIsGivenTwiceAlone` is `NoDuplicateDelivery` with overlaps excluded and peers
that vanish allowed. `AloneInv` says that what was drained to one connection is in
the queue only until its drain ends, and in no other drain under way: a drain that
breaks off clears the queue, which loses turns and repeats none. So of the two
promises lost under faults, no duplicates depends on overlaps alone.

`BridgeProofs` assumes `BridgeAssumption` only: `BridgeInv` holds under every
fault. It is the conjunction of the run's invariants, with two facts about
futures (a call not asked has none; a tracked one is pending or answered).
`TablesAgree` is what lets a disconnect empty both tables. `BridgeKeepsThePromise`
maps every way of losing a surface to `SurfaceGoes`, and giving up on a call to
`Expire` if its future is open and to a stutter if it is not.

`RoamingProofs` assumes `SessionsAssumption` and `NoneAssumption`, and holds for both
kinds of stores and for any number of requests, connections and handlers between two
calls. `RoamingInv` adds to the invariants proved what makes them inductive: ids that
are still to be minted name no session (`Fresh`), so that a `create` overwrites no
session and no history; whatever a handler refers to exists (`Placed`); what a copy
under way has and what it is still to get are together a beginning of its source's
history (`CopiesUnderWay`), which is what a replay that breaks leaves right; nobody
speaks in a copy, copies it or attaches to it before it is done, as its id and its
token are its own (`NobodyIsAhead`); a request holds a history that its source still
begins with, and so does a recorded bundle (`HistoriesHold`); an export has one
importer at most (`SoleImporter`), and a bundle that nobody has imported still has its
hash (`HashedUntilImported`), which gives `IntegrityChecked`. Histories only grow, by
`IsHistoryOf`, whatever step is taken. The proof takes the invariant apart by whom it
is about (`Apart`: a request, a handler, a roaming request, an export, a session, the
token index): what a step does to its own actor is shown step by step, and that it
leaves the others right once for all steps that keep what there is and write to no
copy that is not whole (`StoresGrow`, `Tame`). For `SingleUse` every other step is shown to leave issued,
redeemed and restored tokens alone.

`TableProofs` assumes `TableAssumption`. `TableInv` relates disk and view: what was
told is in both, and an open transaction never makes a stored turn pending again,
as otherwise a crash could turn an owed turn back; what a call under way is good
for is in the view (`CallsStand`). Each action then maps to one of `DurableQueue`,
a close to its `Restart`; on a full disk nothing is owed, and the refinement says
only that drains are in order.

`RoamingStoryProofs` makes the same assumptions. (`NoneAssumption` says that
Python's `None` is none of the records.) `StoryInv` is inductive relative to
`RoamingInv`. What a step does is described once per kind of state and used by every
part: to the stores (`StoreStep`: nothing to tokens and histories, a message spoken, a
new session, a new copy, a message of a replay), to a completion request
(`RequestStep`), to a roaming request (`RoamingMoveStep`), to an export (`ExportStep`),
to a snapshot (`LatestStep`), to the status of a session (`StatusStep`) and to the
handlers and surfaces (`HandlerStep`). The parts:

* `LineageIsTree` is inductive as it stands, given that a copy is born and that its
  origin exists: a group that holds the newborn has, without it, a root already, and
  nobody has the newborn as a parent;
* `TokenInv`: a minted token's session exists, so a `create` under it overwrites no
  index entry, and a request without force creates only what it did not find, while
  nobody ran in between;
* `AnswersInv`: a request that has found no session has said nothing anywhere, and one
  that waits for the LLM has asked, if at all, in the session it will answer in;
* `SnapshotInv`: with the in-memory stores what a handler listed is the history still,
  and a snapshot on its way, in a request or a bundle, belongs to the history beside
  it. A copy that is not active has no snapshot, or `CheckpointsAdvance` would fail;
* `ImportInv`: a consumed token has an importer, which is at it, has failed (with
  stores that suspend only) or has made its session active;
* `HandoffInv`: a suspended session was the source of a handoff that is done, or was
  left by a connection; with the in-memory stores, if it has a surface, then that has
  just registered and is to set it active.

`RunsAlone` is what `~suspends` gives: while a handler stands between two calls no
other runs.

`DeliveryInv`, `AloneInv`, `RoamingInv` and `StoryInv` were checked by TLC on the instances
of `Tether_faulty` (`AloneInv` with `drop` only) and `Roaming_faulty` before they were
proved.

With these every invariant, action property and refinement that a passing run checks
is a theorem. `NothingIsLost`, `ServedSurfaceIsRegistered` and
`KeepsThePromise` have the hypothesis that no fault occurs, and `NothingIsGivenTwiceAlone`
that there is no overlap; without it they are false. (`NothingIsGivenTwice`, whose
invariant the refinement uses, is the latter without faults.) Model-checked only are the liveness properties
(`RequestsSettle`, `DrainDelivers`, `LostSurfaceReleased`, `LossSettles`,
`CallsSettle`), which rest on fairness, out of reach of the prover, and the six
counterexamples of "Where the code breaks its documents".

## The plan

1. Done: `Tether` and `Bridge`; `Sessions` and `Roaming`; `TetherTable`; with their
   abstractions and proofs.
2. Done: the proofs of every safety property, action property and refinement that a
   passing run checks.
3. `TetherDurable`: `Tether` over `TetherTable`, a restart between any two steps, and
   two replicas with registries of their own; which properties of `Tether` need the
   in-memory queue.
4. `Client`: the TypeScript client's reconnect timer, attempt counter, pending
   connect and tool results on the socket of the moment.

## Not modelled

The pydantic models, the application factory, the CLI and demo, the conformance
runner and the map of tool handlers of the TypeScript bridge have no state or no
choice of their own. The TypeScript client is planned. Signatures, encodings and the
hash function are taken as right. The surface context that the registry keeps is
written and never read by the server; `delete` of the session store and `get` of the
snapshot store are called by nobody. Labels, agent ids, the optional handoff
message and the contents of turns change nothing that a property is about. The Redis
notification of the PostgreSQL queue has no receiver in the repository.
