------------------------------ MODULE Sessions ------------------------------
(***************************************************************************)
(* All sessions of a server: the session and snapshot stores               *)
(* (backends/memory.py, backends/base.py), the completion requests that    *)
(* find a session by its token, create it, speak in it and checkpoint it   *)
(* (routers/completions.py), and the handlers that register surfaces and   *)
(* write the status of their sessions (routers/sbp_ws.py).  The Tether     *)
(* module has one session from within.                                     *)
(*                                                                         *)
(* create_app takes any stores.  The in-memory ones never suspend, so a    *)
(* handler runs from one real wait to the next alone; with stores that do  *)
(* I/O others run between its calls, and a call may raise.  suspends tells *)
(* which a behaviour has.  A call of a store that writes is a step of its  *)
(* own, and so is one whose result is used after another call.             *)
(***************************************************************************)
EXTENDS Naturals, Sequences, FiniteSets

CONSTANTS Requests,       (* completion requests                              *)
          Roams,          (* roaming requests: each may create a session too  *)
          Conns,          (* connections of surfaces                          *)
          Names,          (* tokens that clients made up                      *)
          None,           (* Python's None                                    *)
          Calls,          (* bound: how many requests and surfaces come       *)
          SlowCalls,      (* the same bound with stores that suspend          *)
          Concurrent,     (* bound: how many of them stand between two calls  *)
          CheckpointEvery (* sbp.checkpoint_every of the requests             *)

(* A uuid4 is named by the request that mints it: as the id of the session *)
(* it creates, as that session's token, and as the id of an export.        *)
Ids == Requests \cup Roams
Tokens == Names \cup Ids

ASSUME SessionsAssumption ==
    /\ None \notin Tokens
    /\ Requests \cap Roams = {} /\ Names \cap Ids = {} /\ Conns \cap Ids = {}
    /\ {Calls, SlowCalls} \subseteq Nat
    /\ {Concurrent, CheckpointEvery} \subseteq Nat \ {0}

VARIABLES suspends, (* whether the calls of the stores suspend                *)
          session,  (* _sessions: token, status and origin metadata, or None  *)
          byToken,  (* _by_token                                              *)
          messages, (* _messages                                              *)
          latest,   (* the messages in the latest snapshot, or None           *)
          surfaces, (* _connections: the sessions with a registered surface   *)
          handler,  (* handler[c]: where connection c stands, and its session *)
          calls,    (* how many requests and surfaces have come, by weight    *)
          request,  (* request[r]: where completion request r stands          *)
          roam      (* roam[j]: where roaming request j stands (Roaming)      *)

Come(weight) ==
    /\ calls' = calls + weight
    /\ calls' <= IF suspends THEN SlowCalls ELSE Calls

stores == <<session, byToken, messages, latest>>
registry == <<surfaces, handler>>

Update(s, status) == [session EXCEPT ![s].status = status]
Said(s, message) == [messages EXCEPT ![s] = Append(@, message)]
Steps(history) == Cardinality({i \in DOMAIN history : history[i].role = "assistant"})

(* Mutant: the index is keyed by the session's id. *)
CreateById(s, token, origin) ==
    /\ session' = [session EXCEPT ![s] = [token |-> token, status |-> "idle", origin |-> origin]]
    /\ byToken' = [byToken EXCEPT ![s] = s]
    /\ messages' = [messages EXCEPT ![s] = <<>>]

(* Mutant: a session is born active. *)
CreateActive(s, token, origin) ==
    /\ session' = [session EXCEPT ![s] = [token |-> token, status |-> "active", origin |-> origin]]
    /\ byToken' = [byToken EXCEPT ![token] = s]
    /\ messages' = [messages EXCEPT ![s] = <<>>]

(* The token finds the session from now on, whatever it found before. *)
Create(s, token, origin) ==
    /\ session' = [session EXCEPT ![s] = [token |-> token, status |-> "idle", origin |-> origin]]
    /\ byToken' = [byToken EXCEPT ![token] = s]
    /\ messages' = [messages EXCEPT ![s] = <<>>]

(* Mutant: a wait comes between an answer and its checkpoint. *)
MidLookup == {r \in Requests : request[r].at \in {"lookup", "create", "wake", "speak"}}

(* Who stands between two calls of the stores. *)
MidCompletion ==
    {r \in Requests : request[r].at \in {"lookup", "create", "wake", "speak", "answered", "listed"}}
MidRoaming ==
    {j \in Roams : roam[j].at \in {"snapshot", "record", "create", "replay",
                                   "restore", "activate", "suspend"}}
MidSurface == {c \in Conns : handler[c].at \in {"registered", "leaving"}}

MayRun(x) ==
    LET mid == MidCompletion \cup MidRoaming \cup MidSurface
    IN  mid \subseteq {x} \/ (suspends /\ Cardinality(mid \cup {x}) <= Concurrent)

(* The sessions whose id and token a client has been told. *)
Known == {request[r].sid : r \in {q \in Requests : request[q].at = "done"}}
         \cup {j \in Roams : roam[j].at = "done" /\ session[j] # None}

-----------------------------------------------------------------------------
(* A completion request.                                                   *)

Move(r, at) == request' = [request EXCEPT ![r].at = at]
Failed(r) == request' = [request EXCEPT ![r] = [@ EXCEPT
    !.at = "failed", !.token = None, !.force = FALSE, !.speaks = FALSE, !.sid = None, !.listed = <<>>]]

(* Where it goes once its session is active: a request without messages    *)
(* has nothing to append.  One with several is taken to have one.          *)
Onward(r) == IF request[r].speaks THEN "speak" ELSE "llm"

(* Mutant: the token is taken for the session's id. *)
WithinToken(r, s, at) == request' = [request EXCEPT ![r] = [@ EXCEPT !.at = at, !.sid = request[r].token]]

(* r goes on in session s, and with its token forgets what it was for. *)
Within(r, s, at) == request' = [request EXCEPT ![r] = [@ EXCEPT
    !.at = at, !.sid = s, !.token = None, !.force = FALSE]]

(* It arrives with a token or without, forcing a new session or not, with  *)
(* messages or without.  The last, of a suspended session, is the status   *)
(* probe, which is answered with HTTP 202 and changes nothing.             *)
Arrive(r, token, force, speaks) ==
    /\ request[r].at = "new" /\ Come(2)
    /\ MayRun(r)
    /\ LET found == IF token = None \/ force THEN None ELSE byToken[token]
           probe == ~speaks /\ found # None /\ session[found].status = "suspended"
       IN  request' = [request EXCEPT ![r] =
               IF probe THEN [@ EXCEPT !.at = "resume"]
               ELSE [@ EXCEPT !.at = IF token = None \/ force THEN "create" ELSE "lookup",
                              !.token = token, !.force = force, !.speaks = speaks]]
    /\ UNCHANGED <<suspends, stores, registry, roam>>

(* Its token's session is found, as it is at that moment; or there is none. *)
Lookup(r) ==
    /\ request[r].at = "lookup"
    /\ MayRun(r)
    /\ LET s == byToken[request[r].token] IN
       \/ s # None /\ Within(r, s, IF session[s].status = "suspended" THEN "wake" ELSE Onward(r))
       \/ s = None /\ Move(r, "create")
    /\ UNCHANGED <<suspends, stores, registry, calls, roam>>

Open(r) ==
    /\ request[r].at = "create"
    /\ MayRun(r)
    /\ Create(r, IF request[r].token = None THEN r ELSE request[r].token, None)
    /\ Within(r, r, "wake")
    /\ UNCHANGED <<suspends, latest, registry, calls, roam>>

(* The session it created, or found suspended, is set active. *)
Wake(r) ==
    /\ request[r].at = "wake"
    /\ MayRun(r)
    /\ session' = Update(request[r].sid, "active")
    /\ Move(r, Onward(r))
    /\ UNCHANGED <<suspends, byToken, messages, latest, registry, calls, roam>>

Speak(r) ==
    /\ request[r].at = "speak"
    /\ MayRun(r)
    /\ messages' = Said(request[r].sid, [role |-> "user", by |-> r])
    /\ request' = [request EXCEPT ![r] = [@ EXCEPT !.at = "llm", !.speaks = FALSE]]
    /\ UNCHANGED <<suspends, session, byToken, latest, registry, calls, roam>>

(* The LLM fails or is not configured. *)
Fail(r) ==
    /\ request[r].at = "llm"
    /\ MayRun(r)
    /\ Failed(r)
    /\ UNCHANGED <<suspends, stores, registry, calls, roam>>

(* Mutant: the session is looked up again for the answer. *)
AnswerByToken(r, at) ==
    /\ request[r].at = "llm"
    /\ MayRun(r)
    /\ Move(r, at)
    /\ messages' = Said(byToken[session[request[r].sid].token], [role |-> "assistant", by |-> r])
    /\ UNCHANGED <<suspends, session, byToken, latest, registry, calls, roam>>

(* The answer is persisted.  A streamed turn ends with that (at = "done"), *)
(* any other goes on to its checkpoint.                                    *)
Answer(r, at) ==
    /\ request[r].at = "llm"
    /\ MayRun(r)
    /\ Move(r, at)
    /\ messages' = Said(request[r].sid, [role |-> "assistant", by |-> r])
    /\ UNCHANGED <<suspends, session, byToken, latest, registry, calls, roam>>

(* Nothing is persisted: the answer is empty, or streamed and proxied to   *)
(* the HTTP caller.                                                        *)
AnswerEmpty(r, at) ==
    /\ request[r].at = "llm"
    /\ MayRun(r)
    /\ Move(r, at)
    /\ UNCHANGED <<suspends, stores, registry, calls, roam>>

List(r) ==
    /\ request[r].at = "answered"
    /\ MayRun(r)
    /\ request' = [request EXCEPT ![r] = [@ EXCEPT !.at = "listed", !.listed = messages[request[r].sid]]]
    /\ UNCHANGED <<suspends, stores, registry, calls, roam>>

(* Mutant: the snapshot is filed under the token's session of now. *)
CheckpointByToken(r) ==
    /\ request[r].at = "listed"
    /\ MayRun(r)
    /\ LET listed == request[r].listed IN
       latest' = IF Steps(listed) > 0 /\ Steps(listed) % CheckpointEvery = 0
                 THEN [latest EXCEPT ![byToken[session[request[r].sid].token]] = listed] ELSE latest
    /\ request' = [request EXCEPT ![r] = [@ EXCEPT !.at = "done", !.listed = <<>>]]
    /\ UNCHANGED <<suspends, session, byToken, messages, registry, calls, roam>>

Checkpoint(r) ==
    /\ request[r].at = "listed"
    /\ MayRun(r)
    /\ LET listed == request[r].listed IN
       latest' = IF Steps(listed) > 0 /\ Steps(listed) % CheckpointEvery = 0
                 THEN [latest EXCEPT ![request[r].sid] = listed] ELSE latest
    /\ request' = [request EXCEPT ![r] = [@ EXCEPT !.at = "done", !.listed = <<>>]]
    /\ UNCHANGED <<suspends, session, byToken, messages, registry, calls, roam>>

(* A call of a store that does I/O raises. *)
Abort(r) ==
    /\ suspends
    /\ r \in MidCompletion
    /\ Failed(r)
    /\ UNCHANGED <<suspends, stores, registry, calls, roam>>

-----------------------------------------------------------------------------
(* The handler of a connection.  Others may serve the same session.        *)

HandlerTo(c, at) == handler' = [handler EXCEPT ![c].at = at]

(* Its surface is registered, in place of any other of the session. *)
Register(c, s) ==
    /\ handler[c].at = "new" /\ Come(1)
    /\ MayRun(c)
    /\ s \in Known
    /\ surfaces' = surfaces \cup {s}
    /\ handler' = [handler EXCEPT ![c] = [at |-> "registered", sid |-> s]]
    /\ UNCHANGED <<suspends, stores, request, roam>>

(* Mutant: attaching leaves the status as it is. *)
AttachQuietly(c) ==
    /\ handler[c].at = "registered"
    /\ MayRun(c)
    /\ HandlerTo(c, "serving")
    /\ UNCHANGED <<suspends, stores, surfaces, calls, request, roam>>

(* The status is written, and the session is served. *)
Attach(c) ==
    /\ handler[c].at = "registered"
    /\ MayRun(c)
    /\ session' = Update(handler[c].sid, "active")
    /\ HandlerTo(c, "serving")
    /\ UNCHANGED <<suspends, byToken, messages, latest, surfaces, calls, request, roam>>

(* The loop ends, and takes the registration away, whosever it is. *)
Disconnect(c) ==
    /\ handler[c].at = "serving"
    /\ MayRun(c)
    /\ surfaces' = surfaces \ {handler[c].sid}
    /\ HandlerTo(c, "leaving")
    /\ UNCHANGED <<suspends, stores, calls, request, roam>>

(* The status is written, whoever has come since. *)
Detach(c) ==
    /\ handler[c].at = "leaving"
    /\ MayRun(c)
    /\ session' = Update(handler[c].sid, "suspended")
    /\ HandlerTo(c, "gone")
    /\ UNCHANGED <<suspends, byToken, messages, latest, surfaces, calls, request, roam>>

(* A send to the surface fails.  Its handler learns of it later.           *)
Unregister(s) ==
    /\ s \in surfaces
    /\ MayRun(None)
    /\ surfaces' = surfaces \ {s}
    /\ UNCHANGED <<suspends, stores, handler, calls, request, roam>>

(* The write of the status raises: no finally block is left to run. *)
Collapse(c) ==
    /\ suspends
    /\ c \in MidSurface
    /\ HandlerTo(c, "failed")
    /\ UNCHANGED <<suspends, stores, surfaces, calls, request, roam>>

-----------------------------------------------------------------------------
SessionsInit ==
    /\ suspends \in BOOLEAN
    /\ session = [s \in Ids |-> None]
    /\ byToken = [t \in Tokens |-> None]
    /\ messages = [s \in Ids |-> <<>>]
    /\ latest = [s \in Ids |-> None]
    /\ surfaces = {} /\ calls = 0
    /\ handler = [c \in Conns |-> [at |-> "new", sid |-> None]]
    /\ request = [r \in Requests |-> [at |-> "new", token |-> None, force |-> FALSE,
                                      speaks |-> FALSE, sid |-> None, listed |-> <<>>]]

(* The tokens a client may send. *)
Offered == Names \cup {session[s].token : s \in Known}

Completion(r) ==
    \/ \E token \in Offered, force, speaks \in BOOLEAN : Arrive(r, token, force, speaks)
    \/ \E speaks \in BOOLEAN : Arrive(r, None, FALSE, speaks)
    \/ Lookup(r) \/ Open(r) \/ Wake(r) \/ Speak(r)
    \/ Fail(r) \/ List(r) \/ Checkpoint(r) \/ Abort(r)
    \/ \E at \in {"answered", "done"} : Answer(r, at) \/ AnswerEmpty(r, at)

Surface(c) ==
    \/ \E s \in Ids : Register(c, s)
    \/ Attach(c) \/ Disconnect(c) \/ Detach(c) \/ Collapse(c)
=============================================================================
