------------------------- MODULE RoamingStoryProofs -------------------------
(***************************************************************************)
(* StoryInv is an inductive invariant of Roaming relative to RoamingInv,   *)
(* for any requests, tokens and checkpoints: the family tree of sessions,  *)
(* questions and answers, snapshots, imports and handoffs.                 *)
(*                                                                         *)
(* Every step is first described by what it does to the stores (five       *)
(* kinds), and to each request, connection, export, snapshot and status;   *)
(* the parts of the invariant are shown from those descriptions.           *)
(***************************************************************************)
EXTENDS RoamingProofs

-----------------------------------------------------------------------------
(* Whose step it is, and what others' variables it leaves alone.           *)

RoamingBy(j) ==
    \/ \E s \in Ids : Export(j, s) \/ Handoff(j, s) \/ Fork(j, s)
    \/ \E e \in Roams : Import(j, e)
    \/ RoamStep(j) \/ Break(j)

LEMMA WhoSteps ==
    ASSUME [Next]_vars
    PROVE  /\ suspends' = suspends
           /\ \/ \E r \in Requests : Completion(r) /\ UNCHANGED <<surfaces, handler, roam, exports>>
              \/ \E c \in Conns :
                     Surface(c) /\ UNCHANGED <<byToken, messages, latest, request, roam, exports>>
              \/ \E j \in Roams : RoamingBy(j) /\ UNCHANGED <<surfaces, handler, request>>
              \/ /\ surfaces' \subseteq surfaces
                 /\ UNCHANGED <<session, byToken, messages, latest, handler, request, roam, exports>>
<1>1. ASSUME NEW r \in Requests, Completion(r)
      PROVE  UNCHANGED <<suspends, surfaces, handler, roam>>
  BY <1>1 DEF Completion, Arrive, Lookup, Open, Wake, Speak, Fail, Answer, AnswerEmpty, List, Checkpoint,
              Abort, registry
<1>2. ASSUME NEW c \in Conns, Surface(c)
      PROVE  UNCHANGED <<suspends, byToken, messages, latest, request, roam>>
  BY <1>2 DEF Surface, Register, Attach, Disconnect, Detach, Collapse, stores
<1>3. ASSUME NEW s \in Ids, Unregister(s)
      PROVE  /\ surfaces' \subseteq surfaces
             /\ UNCHANGED <<suspends, session, byToken, messages, latest, handler, request, roam>>
  BY <1>3 DEF Unregister, stores
<1>4. ASSUME NEW j \in Roams, RoamingBy(j)
      PROVE  UNCHANGED <<suspends, surfaces, handler, request>>
  BY <1>4 DEF RoamingBy, Export, Handoff, Fork, Begin, Import, RoamStep, ReadSnapshot, RecordExport, Restore,
              Branch, Replay, Introduce, WriteSnapshot, Activate, SuspendSource, Break, registry
<1>5. CASE UNCHANGED vars
  BY <1>5 DEF vars, stores, registry
<1>. QED BY <1>1, <1>2, <1>3, <1>4, <1>5 DEF Next, RoamingBy

LEMMA ImportsSomething ==
    ASSUME Apart, NEW j \in Roams, NEW e \in Roams, Import(j, e)
    PROVE  /\ roam[j].at = "new" /\ MayRun(j) /\ exports[e] # None /\ exports[e] \in Exports
           /\ UNCHANGED <<session, byToken, messages, latest>>
           /\ \/ Consume(j, e)
              \/ /\ roam' = [roam EXCEPT ![j] = [@ EXCEPT !.kind = "import", !.at = "refused"]]
                 /\ UNCHANGED exports
<1>1. roam[e].at = "done" /\ roam[e].kind = "export"
  BY DEF Import
<1>2. exports[e] # None
  BY <1>1 DEF Apart, RoamOK
<1>. QED BY <1>2 DEF Import, stores, Apart, ExportOK, OrNone

-----------------------------------------------------------------------------
(* What a step does to the sessions, their tokens and their histories.     *)

SessionsStay ==
    \A s \in Ids : /\ session'[s] # None <=> session[s] # None
                   /\ session[s] # None => /\ session'[s].token = session[s].token
                                           /\ session'[s].origin = session[s].origin

Silent == SessionsStay /\ UNCHANGED <<byToken, messages>>

(* Request r has its question or its answer appended to its session. *)
Speaks(r, role) ==
    LET s == request[r].sid IN
    /\ MayRun(r) /\ UNCHANGED <<session, byToken, latest, roam, exports>>
    /\ s \in Ids /\ session[s] # None /\ messages' = Said(s, [role |-> role, by |-> r])
    /\ \A q \in Requests \ {r} : request'[q] = request[q]
    /\ request'[r].sid = s
    /\ \/ role = "user" /\ request[r].at = "speak" /\ request'[r].at = "llm"
       \/ role = "assistant" /\ request[r].at = "llm" /\ request'[r].at \in {"answered", "done"}

(* Roaming request j appends to its copy what it has to. *)
Repeats(j, m) ==
    LET h == roam[j].history IN
    /\ MayRun(j) /\ j \in Copying /\ roam[j].at = "replay"
    /\ UNCHANGED <<session, byToken, latest, request, exports>>
    /\ messages' = Said(j, m)
    /\ \/ h # <<>> /\ m = Head(h) /\ roam'[j].at = "replay" /\ roam'[j].history = Tail(h)
       \/ h = <<>> /\ m = Provenance(j) /\ roam'[j].at \in {"restore", "activate"}

Born(s, token, origin) ==
    /\ s \in Ids /\ session[s] = None
    /\ session'[s] # None /\ session'[s].token = token
    /\ session'[s].origin = origin /\ session'[s].status = "idle"
    /\ byToken' = [byToken EXCEPT ![token] = s]
    /\ messages'[s] = <<>>
    /\ \A q \in Ids \ {s} : session'[q] = session[q] /\ messages'[q] = messages[q]
    /\ UNCHANGED latest

Opens(r) ==
    /\ MayRun(r) /\ request[r].at = "create"
    /\ Born(r, IF request[r].token = None THEN r ELSE request[r].token, None)
    /\ \A q \in Requests \ {r} : request'[q] = request[q]
    /\ request'[r].at = "wake" /\ UNCHANGED <<roam, exports>>

Copies(j) ==
    /\ MayRun(j) /\ roam[j].at = "create"
    /\ Born(j, j, Origin(j)) /\ Origin(j) \in Origins
    /\ UNCHANGED request /\ roam'[j].at = "replay"

StoreKinds ==
    \/ Silent
    \/ \E r \in Requests, role \in {"user", "assistant"} : Speaks(r, role)
    \/ \E j \in Roams, m \in Messages : Repeats(j, m)
    \/ \E r \in Requests : Opens(r)
    \/ \E j \in Roams : Copies(j)

LEMMA SilentWhen ==
    ASSUME UNCHANGED <<session, byToken, messages>>
    PROVE  StoreKinds
BY DEF StoreKinds, Silent, SessionsStay

LEMMA UpdateIsSilent ==
    ASSUME Apart, NEW s \in Ids, session[s] # None, NEW status \in {"active", "suspended"},
           session' = Update(s, status)
    PROVE  /\ SessionsStay
           /\ \A q \in Ids : session[q] # None =>
                  session'[q].status = IF q = s THEN status ELSE session[q].status
<1> DEFINE rec == [session[s] EXCEPT !.status = status]
<1>1. /\ rec \in SessionRecords /\ rec.token = session[s].token /\ rec.origin = session[s].origin
      /\ rec.status = status
  BY SessionFacts DEF SessionRecords
<1>2. session' = [session EXCEPT ![s] = rec]
  BY DEF Update
<1> HIDE DEF rec
<1>. QED BY <1>1, <1>2, NoneAssumption DEF Apart, StateOK, SessionsStay

LEMMA OpenIs ==
    ASSUME Apart, NEW r \in Requests, Open(r), UNCHANGED exports
    PROVE  Opens(r)
<1> DEFINE q == request[r]
           token == IF q.token = None THEN r ELSE q.token
           goes == [q EXCEPT !.at = "wake", !.sid = r, !.token = None, !.force = FALSE]
<1>1. /\ q.at = "create" /\ MayRun(r) /\ Create(r, token, None)
      /\ UNCHANGED <<suspends, latest, calls, roam>>
      /\ request' = [request EXCEPT ![r] = goes]
  BY DEF Open, Within
<1>2. q \in RequestRecords /\ session[r] = None /\ r \in Ids /\ token \in Tokens
  BY <1>1, IdFacts DEF Apart, RequestOK, RequestRecords, OrNone
<1>3. /\ ExportsGrow /\ None \in OrNone(Origins)
      /\ \A j \in Roams : roam[j].at = "done" => roam'[j].at = "done"
  BY <1>1 DEF ExportsGrow, OrNone
<1>4. request'[r] = goes /\ \A p \in Requests \ {r} : request'[p] = request[p]
  BY <1>1 DEF Apart, StateOK
<1> HIDE DEF q, token
<1>5. goes.at = "wake"
  BY <1>2 DEF RequestRecords
<1>6. /\ session'[r] # None /\ session'[r].token = token /\ session'[r].origin = None
      /\ session'[r].status = "idle" /\ messages'[r] = <<>>
      /\ \A p \in Ids \ {r} : session'[p] = session[p] /\ messages'[p] = messages[p]
  BY <1>1, <1>2, <1>3, CreateAdds
<1>7. byToken' = [byToken EXCEPT ![token] = r]
  BY <1>1 DEF Create
<1> HIDE DEF goes
<1>. QED BY <1>1, <1>2, <1>4, <1>5, <1>6, <1>7 DEF Opens, Born, q, token

LEMMA CopyIs ==
    ASSUME Apart, NEW j \in Roams, Restore(j) \/ Branch(j)
    PROVE  Copies(j) /\ roam'[j] = [roam[j] EXCEPT !.at = "replay", !.checked = roam'[j].checked]
<1> DEFINE q == roam[j]
           o == Origin(j)
<1>1. /\ MayRun(j) /\ q.at = "create" /\ Create(j, j, o)
      /\ UNCHANGED <<suspends, latest, calls, request>>
  BY DEF Restore, Branch, Copy
<1>2. /\ q \in RoamRecords /\ session[j] = None /\ q.source \in Ids /\ q.kind # None
      /\ j \in Ids /\ j \in Tokens
  BY <1>1, IdFacts DEF Apart, RoamOK, MidRoaming
<1>3. o \in Origins
  <2>1. q.kind \in Kinds /\ q.export \in OrNone(Roams) /\ Len(q.history) \in Nat /\ j \in OrNone(Roams)
    BY <1>2 DEF RoamRecords, Histories, OrNone
  <2>. QED BY <1>2, <2>1 DEF Origin, Origins
<1>4. roam'[j] = [q EXCEPT !.at = "replay", !.checked = roam'[j].checked] /\ roam'[j].at = "replay"
  <2>1. CASE Restore(j)
    BY <1>2, <2>1 DEF Restore, RoamRecords, Apart, StateOK
  <2>2. CASE Branch(j)
    BY <1>2, <2>2 DEF Branch, RoamTo, RoamRecords, Apart, StateOK
  <2>. QED BY <2>1, <2>2
<1>5. ExportsGrow
  <2>1. CASE Branch(j)
    BY <2>1 DEF Branch, ExportsGrow
  <2>2. CASE Restore(j)
    <3> DEFINE e == q.export  opened == [exports[e] EXCEPT !.hashed = suspends]
    <3>1. exports' = [exports EXCEPT ![e] = opened]
      BY <2>2 DEF Restore
    <3>2. e \in Roams /\ exports[e] \in Exports /\ suspends \in BOOLEAN
      BY <1>2, <2>2 DEF Restore, Apart, StateOK, RoamOK, ExportOK, RoamRecords, OrNone
    <3> HIDE DEF e
    <3>3. opened \in Exports /\ opened.source = exports[e].source /\ opened.history = exports[e].history
      BY <3>2 DEF Exports
    <3> HIDE DEF opened
    <3>. QED BY <3>1, <3>2, <3>3, NoneAssumption DEF ExportsGrow, Apart, StateOK
  <2>. QED BY <2>1, <2>2
<1>6. \A k \in Roams : roam[k].at = "done" => roam'[k].at = "done"
  BY <1>1 DEF Restore, Branch, RoamTo, Apart, StateOK
<1> HIDE DEF o
<1>7. /\ session'[j] # None /\ session'[j].token = j /\ session'[j].origin = o
      /\ session'[j].status = "idle" /\ messages'[j] = <<>>
      /\ \A p \in Ids \ {j} : session'[p] = session[p] /\ messages'[p] = messages[p]
  BY <1>1, <1>2, <1>3, <1>5, <1>6, CreateAdds DEF OrNone
<1>8. byToken' = [byToken EXCEPT ![j] = j]
  BY <1>1 DEF Create
<1>. QED BY <1>1, <1>2, <1>3, <1>4, <1>7, <1>8 DEF Copies, Born, o

LEMMA SpeakIs ==
    ASSUME Apart, NEW r \in Requests, UNCHANGED exports,
           Speak(r) \/ \E at \in {"answered", "done"} : Answer(r, at)
    PROVE  StoreKinds
<1> DEFINE q == request[r]
<1>1. /\ MayRun(r) /\ q.at \in {"speak", "llm"}
      /\ UNCHANGED <<session, byToken, latest, roam, exports>>
  BY DEF Speak, Answer
<1>2. q \in RequestRecords /\ q.sid \in Ids /\ session[q.sid] # None
  BY <1>1, InSession
<1>3. CASE Speak(r)
  <2>1. /\ q.at = "speak" /\ messages' = Said(q.sid, [role |-> "user", by |-> r])
        /\ request' = [request EXCEPT ![r] = [@ EXCEPT !.at = "llm", !.speaks = FALSE]]
    BY <1>3 DEF Speak
  <2>2. /\ request'[r].at = "llm" /\ request'[r].sid = q.sid
        /\ \A p \in Requests \ {r} : request'[p] = request[p]
    BY <1>2, <2>1 DEF Apart, StateOK, RequestRecords
  <2>3. Speaks(r, "user")
    BY <1>1, <1>2, <2>1, <2>2 DEF Speaks
  <2>. QED BY <2>3 DEF StoreKinds
<1>4. ASSUME NEW at \in {"answered", "done"}, Answer(r, at)
      PROVE  StoreKinds
  <2>1. /\ q.at = "llm" /\ messages' = Said(q.sid, [role |-> "assistant", by |-> r])
        /\ request' = [request EXCEPT ![r].at = at]
    BY <1>4 DEF Answer, Move
  <2>2. /\ request'[r].at = at /\ request'[r].sid = q.sid
        /\ \A p \in Requests \ {r} : request'[p] = request[p]
    BY <1>2, <2>1 DEF Apart, StateOK, RequestRecords
  <2>3. Speaks(r, "assistant")
    BY <1>1, <1>2, <2>1, <2>2 DEF Speaks
  <2>. QED BY <2>3 DEF StoreKinds
<1>. QED BY <1>3, <1>4

LEMMA RepeatIs ==
    ASSUME Apart, NEW j \in Roams, Replay(j) \/ Introduce(j)
    PROVE  /\ \E m \in Messages : Repeats(j, m)
           /\ roam'[j] = [roam[j] EXCEPT !.at = roam'[j].at, !.history = roam'[j].history]
           /\ roam'[j].at = "restore" <=> Introduce(j) /\ roam[j].snapshot # None
<1> DEFINE q == roam[j]
<1>1. /\ MayRun(j) /\ q.at = "replay" /\ j \in Copying
      /\ UNCHANGED <<session, byToken, latest, request, exports>>
  BY DEF Replay, Introduce, Copying
<1>2. q \in RoamRecords /\ q.history \in Histories /\ j \in Ids
  BY <1>1, CopyFacts
<1>3. CASE Replay(j)
  <2>1. /\ q.history # <<>> /\ messages' = Said(j, Head(q.history))
        /\ roam' = [roam EXCEPT ![j] = [q EXCEPT !.history = Tail(@)]]
    BY <1>3 DEF Replay
  <2>2. Head(q.history) \in Messages
    BY <1>2, <2>1, HistoryInParts, NoHistory
  <2>3. /\ roam'[j].at = "replay" /\ roam'[j].history = Tail(q.history)
        /\ roam'[j] = [q EXCEPT !.at = roam'[j].at, !.history = roam'[j].history]
    BY <1>1, <1>2, <2>1 DEF Apart, StateOK, RoamRecords
  <2>4. ~Introduce(j)
    BY <2>1 DEF Introduce
  <2>5. Repeats(j, Head(q.history))
    BY <1>1, <2>1, <2>3 DEF Repeats
  <2>. QED BY <2>2, <2>3, <2>4, <2>5
<1>4. CASE Introduce(j)
  <2> DEFINE at == IF q.snapshot # None THEN "restore" ELSE "activate"
  <2>1. /\ q.history = <<>> /\ messages' = Said(j, Provenance(j))
        /\ roam' = [roam EXCEPT ![j] = [q EXCEPT !.at = at]]
    BY <1>4 DEF Introduce, RoamTo
  <2>2. Provenance(j) \in Messages
    BY <1>2 DEF Provenance, Messages
  <2>3. /\ roam'[j].at = at /\ roam'[j] = [q EXCEPT !.at = roam'[j].at, !.history = roam'[j].history]
    BY <1>2, <2>1 DEF Apart, StateOK, RoamRecords
  <2>4. Repeats(j, Provenance(j))
    BY <1>1, <2>1, <2>3 DEF Repeats
  <2>. QED BY <1>4, <2>2, <2>3, <2>4
<1>. QED BY <1>3, <1>4

LEMMA StoreStep ==
    ASSUME RoamingInv, [Next]_vars
    PROVE  StoreKinds
<1>0. Apart
  BY TakeApart
<1>u. ASSUME UNCHANGED <<byToken, messages>>, NEW s \in Ids, session[s] # None,
             NEW status \in {"active", "suspended"}, session' = Update(s, status)
      PROVE  StoreKinds
  BY <1>0, <1>u, UpdateIsSilent DEF StoreKinds, Silent
<1>1. ASSUME NEW r \in Requests, Completion(r), UNCHANGED exports
      PROVE  StoreKinds
  <2>1. CASE Wake(r)
    <3>1. request[r].sid \in Ids /\ session[request[r].sid] # None
      BY <1>0, <2>1, InSession DEF Wake
    <3>. QED BY <1>u, <2>1, <3>1 DEF Wake
  <2>2. CASE UNCHANGED <<session, byToken, messages>>
    BY <2>2, SilentWhen
  <2>3. CASE Open(r)
    BY <1>0, <1>1, <2>3, OpenIs DEF StoreKinds
  <2>. QED BY <1>0, <1>1, <2>1, <2>2, <2>3, SpeakIs
           DEF Completion, Arrive, Lookup, Fail, AnswerEmpty, List, Checkpoint, Abort, stores
<1>2. ASSUME NEW c \in Conns, Surface(c), UNCHANGED <<byToken, messages>>
      PROVE  StoreKinds
  <2>1. CASE Attach(c) \/ Detach(c)
    <3>1. handler[c].sid \in Ids /\ session[handler[c].sid] # None
      BY <1>0, <2>1 DEF Attach, Detach, Apart, HandlerOK
    <3>. QED BY <1>2, <1>u, <2>1, <3>1 DEF Attach, Detach
  <2>2. CASE UNCHANGED session
    BY <1>2, <2>2, SilentWhen
  <2>. QED BY <1>2, <2>1, <2>2 DEF Surface, Register, Disconnect, Collapse, stores
<1>3. ASSUME NEW j \in Roams, RoamingBy(j)
      PROVE  StoreKinds
  <2>1. CASE UNCHANGED <<session, byToken, messages>>
    BY <2>1, SilentWhen
  <2>2. CASE Restore(j) \/ Branch(j)
    BY <1>0, <2>2, CopyIs DEF StoreKinds
  <2>3. CASE Replay(j) \/ Introduce(j)
    BY <1>0, <2>3, RepeatIs DEF StoreKinds
  <2>4. CASE Activate(j)
    <3>1. session[j] # None /\ j \in Ids
      BY <1>0, <2>4, CopyFacts DEF Activate, Copying
    <3>. QED BY <1>u, <2>4, <3>1 DEF Activate
  <2>5. CASE SuspendSource(j)
    <3>1. session[roam[j].source] # None /\ roam[j].source \in Ids
      BY <1>0, <2>5, CopyFacts DEF SuspendSource, Copying
    <3>. QED BY <1>u, <2>5, <3>1 DEF SuspendSource
  <2>6. CASE \E e \in Roams : Import(j, e)
    BY <1>0, <2>6, ImportsSomething, SilentWhen
  <2>. QED BY <1>3, <2>1, <2>2, <2>3, <2>4, <2>5, <2>6
           DEF RoamingBy, Export, Handoff, Fork, Begin, RoamStep, ReadSnapshot, RecordExport,
               WriteSnapshot, Break, stores
<1>4. CASE UNCHANGED <<session, byToken, messages>>
  BY <1>4, SilentWhen
<1>. QED BY <1>1, <1>2, <1>3, <1>4, WhoSteps

-----------------------------------------------------------------------------
(* What a step does to a completion request.                               *)

Early == {"new", "resume", "lookup", "create", "wake", "speak"}

RequestMoves(r) ==
    LET q == request[r]
        q1 == request'[r]
        Forgets == q1.token = None
        Stays == q1.token = q.token /\ q1.sid = q.sid
    IN \/ q1 = q
       \/ suspends /\ q1.at = "failed" /\ Forgets
       \/ /\ MayRun(r)
          /\ \/ /\ q.at = "new" /\ q1.at \in {"resume", "lookup", "create"}
                /\ q1.token \in {None, q.token} \cup Offered
                /\ q1.at = "create" => q1.token = None \/ q1.force
             \/ q.at = "lookup" /\ q1.at = "create" /\ Stays /\ byToken[q.token] = None
             \/ q.at \in {"lookup", "create"} /\ q1.at \in {"wake", "speak", "llm"} /\ Forgets
             \/ q.at = "wake" /\ q1.at \in {"speak", "llm"} /\ Stays
             \/ q.at = "speak" /\ q1.at = "llm" /\ Stays
             \/ q.at = "llm" /\ q1.at \in {"answered", "done"} /\ Stays
             \/ q.at = "llm" /\ q1.at = "failed" /\ Forgets
             \/ /\ q.at = "answered" /\ q1.at = "listed" /\ Stays
                /\ q1.listed = messages[q.sid] /\ UNCHANGED messages
             \/ q.at = "listed" /\ q1.at = "done" /\ Stays

LEMMA RequestStep ==
    ASSUME RoamingInv, [Next]_vars
    PROVE  \A r \in Requests : RequestMoves(r)
<1> SUFFICES ASSUME NEW r \in Requests PROVE RequestMoves(r)
  OBVIOUS
<1>q. ASSUME request'[r] = request[r] PROVE RequestMoves(r)
  BY <1>q DEF RequestMoves
<1>0. request[r] \in RequestRecords /\ request \in [Requests -> RequestRecords]
  BY DEF RoamingInv, TypeOK
<1>1. ASSUME NEW p \in Requests, Completion(p) PROVE RequestMoves(r)
  <2>0. CASE p # r
    <3>1. request'[r] = request[r]
      BY <1>0, <1>1, <2>0 DEF Completion, Arrive, Lookup, Within, Move, Open, Wake, Speak, Fail, Failed,
                              AnswerEmpty, List, Checkpoint, Answer, Abort
    <3>. QED BY <1>q, <3>1
  <2> SUFFICES ASSUME p = r PROVE RequestMoves(r)
    BY <2>0
  <2> USE <1>0 DEF RequestRecords, RequestMoves, Move
  <2>1. ASSUME NEW token \in OrNone(Offered), NEW force \in BOOLEAN, NEW speaks \in BOOLEAN,
               Arrive(r, token, force, speaks)
        PROVE  RequestMoves(r)
    BY <2>1 DEF Arrive, OrNone
  <2>2. CASE Lookup(r)
    <3>1. ASSUME Within(r, byToken[request[r].token],
                        IF session[byToken[request[r].token]].status = "suspended"
                        THEN "wake" ELSE Onward(r))
          PROVE  RequestMoves(r)
      BY <2>2, <3>1 DEF Lookup, Within, Onward
    <3>2. CASE byToken[request[r].token] = None /\ request' = [request EXCEPT ![r].at = "create"]
      BY <2>2, <3>2 DEF Lookup
    <3>. QED BY <2>2, <3>1, <3>2 DEF Lookup
  <2>3. CASE Open(r)
    BY <2>3 DEF Open, Within
  <2>4. CASE Wake(r)
    BY <2>4 DEF Wake, Onward
  <2>5. CASE Speak(r)
    BY <2>5 DEF Speak
  <2>6. CASE Fail(r)
    BY <2>6 DEF Fail, Failed
  <2>7. CASE Abort(r)
    BY <2>7 DEF Abort, Failed
  <2>8. CASE List(r)
    BY <2>8 DEF List, stores
  <2>9. CASE Checkpoint(r)
    BY <2>9 DEF Checkpoint
  <2>10. ASSUME NEW at \in {"answered", "done"}, Answer(r, at) \/ AnswerEmpty(r, at)
         PROVE  RequestMoves(r)
    BY <2>10 DEF Answer, AnswerEmpty
  <2>. QED BY <1>1, <2>1, <2>2, <2>3, <2>4, <2>5, <2>6, <2>7, <2>8, <2>9, <2>10 DEF Completion, OrNone
<1>. QED BY <1>1, <1>q, WhoSteps

-----------------------------------------------------------------------------
(* What a step does to a roaming request.                                  *)

Same(j, fields) == \A f \in fields : roam'[j][f] = roam[j][f]

RoamMoves(j) ==
    LET q == roam[j]
        q1 == roam'[j]
    IN \/ q1 = q
       \/ suspends /\ q.at \notin {"new", "done", "refused"} /\ q1.at = "failed" /\ Same(j, {"kind", "export"})
       \/ /\ MayRun(j)
          /\ \/ /\ q.at = "new" /\ q1.at = "snapshot" /\ Same(j, {"export"})
                /\ q1.history = messages[q1.source] /\ UNCHANGED messages
             \/ q.at = "new" /\ q1.at = "refused" /\ Same(j, {"export"})
             \/ /\ q.at = "new" /\ q1.at = "create"
                /\ \E e \in Roams : /\ exports[e] # None /\ q1.export = e
                                     /\ q1.history = exports[e].history /\ q1.snapshot = exports[e].snapshot
             \/ /\ q.at = "snapshot" /\ q1.at \in {"record", "create"}
                /\ Same(j, {"kind", "source", "export", "history"})
                /\ q1.snapshot = latest[q.source] /\ UNCHANGED messages
             \/ q.at = "record" /\ q1.at = "done" /\ Same(j, {"kind", "export"})
             \/ /\ q.at = "record" /\ q1.at = "create"
                /\ Same(j, {"kind", "source", "export", "history", "snapshot"})
             \/ /\ q.at = "create" /\ q1.at = "replay" /\ Copies(j)
                /\ Same(j, {"kind", "source", "export", "history", "snapshot"})
             \/ /\ q.at = "replay" /\ q1.at \in {"replay", "restore", "activate"}
                /\ \E m \in Messages : Repeats(j, m)
                /\ Same(j, {"kind", "source", "export", "snapshot"})
             \/ /\ q.at = "restore" /\ q1.at = "activate"
                /\ Same(j, {"kind", "source", "export", "snapshot"})
             \/ q.at = "activate" /\ q1.at = "suspend" /\ q.kind = "handoff" /\ Same(j, {"kind", "source", "export"})
             \/ q.at = "activate" /\ q1.at = "done" /\ session'[j].status = "active" /\ Same(j, {"kind", "export"})
             \/ q.at = "suspend" /\ q1.at = "done" /\ Same(j, {"kind", "export"})

LEMMA EndedIs ==
    ASSUME Apart, NEW j \in Roams, NEW at \in {"done", "failed"}, Ended(j, at)
    PROVE  roam'[j].at = at /\ Same(j, {"kind", "export"})
<1> DEFINE q == roam[j]
           rec == [q EXCEPT !.at = at, !.source = None, !.history = <<>>, !.snapshot = None]
<1>1. q \in RoamRecords
  BY DEF Apart, RoamOK
<1>2. rec.at = at /\ rec.kind = q.kind /\ rec.export = q.export
  BY <1>1 DEF RoamRecords
<1>3. roam' = [roam EXCEPT ![j] = rec]
  BY DEF Ended
<1> HIDE DEF rec
<1>. QED BY <1>2, <1>3 DEF Apart, StateOK, Same

LEMMA RoamingMoveStep ==
    ASSUME RoamingInv, [Next]_vars
    PROVE  \A j \in Roams : RoamMoves(j)
<1> SUFFICES ASSUME NEW j \in Roams PROVE RoamMoves(j)
  OBVIOUS
<1>q. ASSUME roam'[j] = roam[j] PROVE RoamMoves(j)
  BY <1>q DEF RoamMoves
<1>a. Apart
  BY TakeApart
<1>0. roam[j] \in RoamRecords /\ roam \in [Roams -> RoamRecords]
  BY DEF RoamingInv, TypeOK
<1>1. ASSUME NEW k \in Roams, RoamingBy(k) PROVE RoamMoves(j)
  <2>0. CASE k # j
    <3>1. roam'[j] = roam[j]
      BY <1>0, <1>1, <2>0 DEF RoamingBy, Export, Handoff, Fork, Begin, Import, Consume, Unbundle, RoamStep,
         ReadSnapshot, RecordExport, Restore, Branch, Replay, Introduce, WriteSnapshot, Activate, RoamTo,
         SuspendSource, Break, Ended
    <3>. QED BY <1>q, <3>1
  <2> SUFFICES ASSUME k = j PROVE RoamMoves(j)
    BY <2>0
  <2>1. ASSUME NEW s \in Ids, NEW kind, Begin(j, kind, s) PROVE RoamMoves(j)
    BY <1>0, <2>1 DEF Begin, stores, RoamRecords, RoamMoves, Same
  <2>2. ASSUME NEW e \in Roams, Import(j, e) PROVE RoamMoves(j)
    <3>1. exports[e] # None
      BY <1>a, <2>2, ImportsSomething
    <3>2. CASE Consume(j, e)
      BY <1>0, <2>2, <3>1, <3>2 DEF Import, Consume, Unbundle, RoamRecords, RoamMoves
    <3>3. CASE roam' = [roam EXCEPT ![j] = [@ EXCEPT !.kind = "import", !.at = "refused"]]
      BY <1>0, <2>2, <3>3 DEF Import, RoamRecords, RoamMoves, Same
    <3>. QED BY <2>2, <3>2, <3>3 DEF Import
  <2>3. CASE ReadSnapshot(j)
    <3> DEFINE at == IF roam[j].kind = "fork" THEN "create" ELSE "record"
    <3>1. /\ roam[j].at = "snapshot" /\ MayRun(j) /\ UNCHANGED messages
          /\ roam' = [roam EXCEPT ![j] = [@ EXCEPT !.at = at, !.snapshot = latest[roam[j].source]]]
      BY <1>0, <2>3 DEF ReadSnapshot, stores, RoamRecords
    <3>2. at \in {"record", "create"}
      OBVIOUS
    <3> HIDE DEF at
    <3>3. /\ roam'[j].at = at /\ roam'[j].snapshot = latest[roam[j].source]
          /\ Same(j, {"kind", "source", "export", "history"})
      BY <1>0, <3>1 DEF RoamRecords, Same
    <3>. QED BY <3>1, <3>2, <3>3 DEF RoamMoves
  <2>4. CASE RecordExport(j)
    <3>1. CASE Ended(j, "done")
      BY <1>a, <2>4, <3>1, EndedIs DEF RecordExport, RoamMoves
    <3>2. CASE roam' = [roam EXCEPT ![j].at = "create"]
      BY <1>0, <2>4, <3>2 DEF RecordExport, RoamRecords, RoamMoves, Same
    <3>. QED BY <2>4, <3>1, <3>2 DEF RecordExport, RoamTo
  <2>5. CASE Restore(j) \/ Branch(j)
    <3>1. Copies(j) /\ roam'[j] = [roam[j] EXCEPT !.at = "replay", !.checked = roam'[j].checked]
      BY <1>a, <2>5, CopyIs
    <3>2. roam'[j].at = "replay" /\ Same(j, {"kind", "source", "export", "history", "snapshot"})
      BY <1>0, <3>1 DEF RoamRecords, Same
    <3>. QED BY <3>1, <3>2 DEF RoamMoves, Copies
  <2>6. CASE Replay(j) \/ Introduce(j)
    <3>1. PICK m \in Messages : Repeats(j, m)
      BY <1>a, <2>6, RepeatIs
    <3>2. roam'[j] = [roam[j] EXCEPT !.at = roam'[j].at, !.history = roam'[j].history]
      BY <1>a, <2>6, RepeatIs
    <3>3. Same(j, {"kind", "source", "export", "snapshot"})
      BY <1>0, <3>2 DEF RoamRecords, Same
    <3>. QED BY <3>1, <3>3 DEF RoamMoves, Repeats
  <2>7. CASE WriteSnapshot(j)
    BY <1>0, <2>7 DEF WriteSnapshot, RoamTo, RoamRecords, RoamMoves, Same
  <2>8. CASE Activate(j)
    <3>1. CASE roam[j].kind = "handoff"
      BY <1>0, <2>8, <3>1 DEF Activate, RoamTo, RoamRecords, RoamMoves, Same
    <3>2. CASE Ended(j, "done")
      <4>1. session[j] # None /\ j \in Ids
        BY <1>a, <2>8, CopyFacts DEF Activate, Copying
      <4>2. session'[j].status = "active"
        BY <1>a, <2>8, <4>1, UpdateIsSilent DEF Activate
      <4>3. roam'[j].at = "done" /\ Same(j, {"kind", "export"})
        BY <1>a, <3>2, EndedIs
      <4>. QED BY <2>8, <4>2, <4>3 DEF Activate, RoamMoves
    <3>. QED BY <2>8, <3>1, <3>2 DEF Activate
  <2>9. CASE SuspendSource(j)
    BY <1>a, <2>9, EndedIs DEF SuspendSource, RoamMoves
  <2>10. CASE Break(j)
    BY <1>a, <2>10, EndedIs DEF Break, MidRoaming, RoamMoves
  <2>. QED BY <1>1, <2>1, <2>2, <2>3, <2>4, <2>5, <2>6, <2>7, <2>8, <2>9, <2>10
           DEF RoamingBy, RoamStep, Export, Handoff, Fork
<1>. QED BY <1>1, <1>q, WhoSteps

-----------------------------------------------------------------------------
(* What a step does to the latest snapshots and the exports.               *)

LatestMoves(s) ==
    \/ latest'[s] = latest[s]
    \/ /\ UNCHANGED messages
       /\ \E r \in Requests : /\ MayRun(r) /\ request[r].at = "listed" /\ s = request[r].sid
                               /\ latest'[s] = request[r].listed
    \/ /\ UNCHANGED messages
       /\ s \in Roams /\ MayRun(s) /\ roam[s].at = "restore" /\ roam'[s].at = "activate"
       /\ latest'[s] = roam[s].snapshot

LEMMA LatestStep ==
    ASSUME RoamingInv, [Next]_vars
    PROVE  \A s \in Ids : LatestMoves(s)
<1> SUFFICES ASSUME NEW s \in Ids PROVE LatestMoves(s)
  OBVIOUS
<1>0. latest \in [Ids -> OrNone(Histories)] /\ roam \in [Roams -> RoamRecords]
  BY DEF RoamingInv, TypeOK
<1>q. ASSUME UNCHANGED latest PROVE LatestMoves(s)
  BY <1>q DEF LatestMoves
<1>1. ASSUME NEW r \in Requests, Completion(r) PROVE LatestMoves(s)
  <2>1. CASE Checkpoint(r)
    BY <1>0, <2>1 DEF Checkpoint, LatestMoves
  <2>2. CASE UNCHANGED latest
    BY <1>q, <2>2
  <2>. QED BY <1>1, <2>1, <2>2 DEF Completion, Arrive, Lookup, Open, Wake, Speak, Fail, AnswerEmpty, List,
                                   Answer, Abort, stores
<1>2. ASSUME NEW j \in Roams, RoamingBy(j) PROVE LatestMoves(s)
  <2>1. CASE WriteSnapshot(j)
    <3>1. roam'[j].at = "activate"
      BY <1>0, <2>1 DEF WriteSnapshot, RoamTo, RoamRecords
    <3>. QED BY <1>0, <2>1, <3>1 DEF WriteSnapshot, LatestMoves
  <2>2. CASE UNCHANGED latest
    BY <1>q, <2>2
  <2>. QED BY <1>2, <2>1, <2>2 DEF RoamingBy, Export, Handoff, Fork, Begin, Import, RoamStep, ReadSnapshot,
                                   RecordExport, Restore, Branch, Replay, Introduce, Activate, SuspendSource,
                                   Break, stores
<1>. QED BY <1>q, <1>1, <1>2, WhoSteps

ExportMoves(e) ==
    LET x == exports[e]
        x1 == exports'[e]
    IN \/ x1 = x
       \/ /\ x # None /\ x1 # None
          /\ x1.source = x.source /\ x1.history = x.history /\ x1.snapshot = x.snapshot
          /\ \/ x1.consumed = x.consumed
             \/ \E j \in Roams : roam'[j].at = "create" /\ roam'[j].export = e
       \/ /\ x = None /\ x1 # None /\ MayRun(e) /\ roam[e].at = "record"
          /\ x1.source = roam[e].source /\ x1.history = roam[e].history
          /\ x1.snapshot = roam[e].snapshot /\ ~x1.consumed

LEMMA ExportStep ==
    ASSUME RoamingInv, [Next]_vars
    PROVE  \A e \in Roams : ExportMoves(e)
<1> SUFFICES ASSUME NEW e \in Roams PROVE ExportMoves(e)
  OBVIOUS
<1>0. exports \in [Roams -> OrNone(Exports)] /\ roam \in [Roams -> RoamRecords]
  BY DEF RoamingInv, TypeOK
<1>a. Apart
  BY TakeApart
<1>q. ASSUME exports'[e] = exports[e] PROVE ExportMoves(e)
  BY <1>q DEF ExportMoves
<1>1. ASSUME NEW j \in Roams, RecordExport(j) PROVE ExportMoves(e)
  <2> DEFINE b == Bundle(j)
  <2>1. exports' = [exports EXCEPT ![j] = b] /\ MayRun(j) /\ roam[j].at = "record"
    BY <1>1 DEF RecordExport
  <2>2. /\ exports[j] = None /\ b \in Exports /\ b.source = roam[j].source /\ b.history = roam[j].history
        /\ b.snapshot = roam[j].snapshot /\ ~b.consumed
    <3>1. roam[j].source \in Ids /\ exports[j] = None
      BY <1>a, <2>1 DEF Apart, RoamOK, MidRoaming
    <3>2. roam[j].history \in Histories /\ roam[j].snapshot \in OrNone(Histories)
      BY <1>0 DEF RoamRecords
    <3>. QED BY <3>1, <3>2 DEF Bundle, Exports
  <2> HIDE DEF b
  <2>3. CASE e = j
    BY <1>0, <2>1, <2>2, <2>3, NoneAssumption DEF ExportMoves
  <2>4. CASE e # j
    BY <1>0, <1>q, <2>1, <2>4
  <2>. QED BY <2>3, <2>4
<1>2. ASSUME NEW j \in Roams, NEW k \in Roams, Import(j, k) PROVE ExportMoves(e)
  <2>1. CASE UNCHANGED exports
    BY <1>q, <2>1
  <2>2. CASE Consume(j, k)
    <3> DEFINE used == [exports[k] EXCEPT !.consumed = TRUE]
    <3>1. exports[k] \in Exports /\ exports[k] # None
      BY <1>a, <1>2, ImportsSomething
    <3>2. /\ used \in Exports /\ used.source = exports[k].source /\ used.history = exports[k].history
          /\ used.snapshot = exports[k].snapshot
      BY <3>1 DEF Exports
    <3>3. exports' = [exports EXCEPT ![k] = used]
      BY <2>2 DEF Consume
    <3>4. roam'[j].at = "create" /\ roam'[j].export = k
      BY <1>0, <2>2 DEF Consume, Unbundle, RoamRecords
    <3> HIDE DEF used
    <3>. QED BY <1>0, <1>q, <3>1, <3>2, <3>3, <3>4, NoneAssumption DEF ExportMoves
  <2>. QED BY <1>2, <2>1, <2>2 DEF Import
<1>3. ASSUME NEW j \in Roams, Restore(j) PROVE ExportMoves(e)
  <2> DEFINE k == roam[j].export  opened == [exports[k] EXCEPT !.hashed = suspends]
  <2>1. k \in Roams /\ exports[k] \in Exports /\ exports[k] # None /\ suspends \in BOOLEAN
    BY <1>0, <1>a, <1>3 DEF Restore, Apart, StateOK, RoamOK, ExportOK, OrNone, RoamRecords
  <2>2. exports' = [exports EXCEPT ![k] = opened]
    BY <1>3 DEF Restore
  <2> HIDE DEF k
  <2>3. /\ opened \in Exports /\ opened.source = exports[k].source /\ opened.history = exports[k].history
        /\ opened.snapshot = exports[k].snapshot /\ opened.consumed = exports[k].consumed
    BY <2>1 DEF Exports
  <2> HIDE DEF opened
  <2>. QED BY <1>0, <1>q, <2>1, <2>2, <2>3, NoneAssumption DEF ExportMoves
<1>4. CASE UNCHANGED exports
  BY <1>4, <1>q
<1>5. ASSUME NEW j \in Roams, RoamingBy(j) PROVE ExportMoves(e)
  BY <1>1, <1>2, <1>3, <1>4, <1>5 DEF RoamingBy, Export, Handoff, Fork, Begin, RoamStep, ReadSnapshot, Branch,
     Replay, Introduce, WriteSnapshot, Activate, SuspendSource, Break
<1>. QED BY <1>4, <1>5, WhoSteps

-----------------------------------------------------------------------------
(* While a handler of the in-memory stores stands between two calls, no    *)
(* other runs.                                                             *)

LEMMA RunsAlone ==
    ASSUME NEW x, MayRun(x), ~suspends
    PROVE  /\ \A r \in Requests \ {x} : r \notin MidCompletion
           /\ \A j \in Roams \ {x} : j \notin MidRoaming
           /\ \A c \in Conns \ {x} : c \notin MidSurface
BY DEF MayRun

-----------------------------------------------------------------------------
(* The family tree.                                                        *)

LEMMA ParentsAre ==
    ASSUME NEW s, NEW p, p \in Parents(s)
    PROVE  session[s].origin # None /\ p = session[s].origin.session
BY DEF Parents, Lineage

LEMMA ParentsStay ==
    ASSUME NEW s, session'[s].origin = session[s].origin
    PROVE  Parents(s)' = Parents(s)
BY DEF Parents, Lineage

LEMMA WritesStay ==
    ASSUME UNCHANGED session
    PROVE  SessionsStay
BY DEF SessionsStay

LEMMA LineageStep ==
    ASSUME RoamingInv, LineageIsTree, [Next]_vars
    PROVE  LineageIsTree'
<1>1. CASE SessionsStay
  <2>1. {s \in Ids : session'[s] # None} = {s \in Ids : session[s] # None}
    BY <1>1 DEF SessionsStay
  <2>2. \A s \in Ids : session[s] # None => Parents(s)' = Parents(s)
    BY <1>1, ParentsStay DEF SessionsStay
  <2>. QED BY <2>1, <2>2 DEF LineageIsTree
<1>2. ASSUME NEW s \in Ids, NEW token, NEW origin, Born(s, token, origin),
             origin # None => session[origin.session] # None
      PROVE  LineageIsTree'
  <2>1. /\ session[s] = None /\ session'[s].origin = origin
        /\ \A q \in Ids \ {s} : session'[q] = session[q]
    BY <1>2 DEF Born
  <2>2. \A q \in Ids \ {s} : Parents(q)' = Parents(q)
    BY <2>1, ParentsStay
  <2>3. \A q \in Ids \ {s} : session[q] # None => s \notin Parents(q)
    BY <2>1, ParentsAre DEF RoamingInv, Placed
  <2>4. s \notin Parents(s)'
    BY <1>2, <2>1 DEF Parents, Lineage
  <2>5. ASSUME NEW group \in SUBSET {q \in Ids : session'[q] # None}, group # {}
        PROVE  \E q \in group : Parents(q)' \cap group = {}
    <3>1. group \ {s} \in SUBSET {q \in Ids : session[q] # None}
      BY <2>1
    <3>2. CASE group \ {s} = {}
      <4>1. s \in group /\ \A q \in group : q = s
        BY <2>5, <3>2
      <4>. QED BY <2>4, <4>1
    <3>3. CASE group \ {s} # {}
      <4>0. PICK rest : rest = group \ {s} /\ rest # {}
        BY <3>3
      <4>1. PICK q \in rest : Parents(q) \cap rest = {}
        BY <3>1, <4>0 DEF LineageIsTree
      <4>2. q \in Ids \ {s} /\ session[q] # None /\ Parents(q) \cap group \subseteq {s}
        BY <3>1, <4>0, <4>1
      <4>. QED BY <2>2, <2>3, <4>0, <4>1, <4>2
    <3>. QED BY <3>2, <3>3
  <2>. QED BY <2>5 DEF LineageIsTree
<1>3. ASSUME NEW r \in Requests, Opens(r) PROVE LineageIsTree'
  BY <1>2, <1>3, IdFacts DEF Opens
<1>4. ASSUME NEW j \in Roams, Copies(j) PROVE LineageIsTree'
  <2>1. session[roam[j].source] # None
    BY <1>4, TakeApart DEF Copies, Apart, RoamOK, MidRoaming
  <2>2. Origin(j).session = roam[j].source
    BY DEF Origin
  <2>. QED BY <1>2, <1>4, <2>1, <2>2, IdFacts DEF Copies
<1>. QED BY <1>1, <1>3, <1>4, StoreStep, WritesStay DEF StoreKinds, Silent, Speaks, Repeats

-----------------------------------------------------------------------------
(* Tokens.                                                                 *)

LEMMA OfferedTokens ==
    ASSUME RoamingInv, TokenInv
    PROVE  \A t \in Offered : t \in Ids => session[t] # None
<1>1. \A s \in Known : s \in Ids /\ session[s] # None
  BY TakeApart, KnownFacts
<1>. QED BY <1>1, SessionsAssumption DEF Offered, TokenInv

LEMMA NobodyVanishes ==
    ASSUME RoamingInv, [Next]_vars
    PROVE  \A s \in Ids : session[s] # None => session'[s] # None /\ session'[s].origin = session[s].origin
<1>1. CASE SessionsStay
  BY <1>1 DEF SessionsStay
<1>2. ASSUME NEW s, NEW token, NEW origin, Born(s, token, origin)
      PROVE  \A q \in Ids : session[q] # None => session'[q] # None /\ session'[q].origin = session[q].origin
  BY <1>2 DEF Born
<1>. QED BY <1>1, <1>2, StoreStep, WritesStay DEF StoreKinds, Silent, Speaks, Repeats, Opens, Copies

LEMMA TokenStep ==
    ASSUME RoamingInv, TokenInv, [Next]_vars
    PROVE  TokenInv'
<1>0. \A s \in Ids : session[s] # None => session'[s] # None
  BY NobodyVanishes
<1>1. ASSUME NEW r \in Requests PROVE request'[r].token \in Ids => session'[request'[r].token] # None
  BY <1>0, RequestStep, OfferedTokens, IdFacts DEF RequestMoves, TokenInv
<1>2. ASSUME NEW s \in Ids, session'[s] # None, session'[s].token \in Ids
      PROVE  session'[session'[s].token] # None
  <2>1. CASE SessionsStay
    BY <1>0, <1>2, <2>1 DEF SessionsStay, TokenInv
  <2>2. ASSUME NEW r \in Requests, Opens(r)
        PROVE  session'[session'[s].token] # None
    BY <1>0, <1>2, <2>2 DEF Opens, Born, TokenInv
  <2>3. ASSUME NEW j \in Roams, Copies(j)
        PROVE  session'[session'[s].token] # None
    BY <1>0, <1>2, <2>3 DEF Copies, Born, TokenInv
  <2>. QED BY <2>1, <2>2, <2>3, StoreStep, WritesStay DEF StoreKinds, Silent, Speaks, Repeats
<1>3. ASSUME NEW r \in Requests, ~suspends', request'[r].at = "create", request'[r].token # None, ~request'[r].force
      PROVE  byToken'[request'[r].token] = None
  <2>1. suspends' = suspends
    BY WhoSteps
  <2>2. byToken[request'[r].token] = None
    BY <1>3, <2>1, RequestStep DEF RequestMoves, TokenInv
  <2>3. CASE UNCHANGED byToken
    BY <2>2, <2>3
  <2>4. ASSUME NEW p \in Requests, Opens(p) PROVE FALSE
    <3>1. p # r /\ request[r].at = "create"
      BY <1>3, <2>4 DEF Opens
    <3>2. r \in MidCompletion
      BY <3>1 DEF MidCompletion
    <3>. QED BY <1>3, <2>1, <2>4, <3>1, <3>2, RunsAlone DEF Opens
  <2>5. ASSUME NEW j \in Roams, Copies(j) PROVE FALSE
    <3>1. j # r /\ request[r].at = "create"
      BY <1>3, <2>5, IdFacts DEF Copies
    <3>2. r \in MidCompletion
      BY <3>1 DEF MidCompletion
    <3>. QED BY <1>3, <2>1, <2>5, <3>1, <3>2, RunsAlone DEF Copies
  <2>. QED BY <2>3, <2>4, <2>5, StoreStep DEF StoreKinds, Silent, Speaks, Repeats
<1>. QED BY <1>1, <1>2, <1>3 DEF TokenInv

LEMMA TokenMoves ==
    ASSUME RoamingInv, TokenInv, [Next]_vars, ~suspends,
           NEW t \in Tokens, byToken[t] \notin {None, byToken'[t]}
    PROVE  \E r \in Requests : byToken'[t] = r /\ request[r].token = t /\ request[r].force
<1>0. byToken[t] \in Ids /\ session[byToken[t]] # None /\ session[byToken[t]].token = t
      /\ byToken \in [Tokens -> OrNone(Ids)]
  BY DEF RoamingInv, TypeOK, OrNone, TokenFindsOwner
<1>1. t \in Ids => session[t] # None
  BY <1>0 DEF TokenInv
<1>2. ASSUME NEW r \in Requests, Opens(r)
      PROVE  byToken'[t] = r /\ request[r].token = t /\ request[r].force
  <2>1. /\ byToken' = [byToken EXCEPT ![IF request[r].token = None THEN r ELSE request[r].token] = r]
        /\ session[r] = None /\ r \in Ids /\ request[r].at = "create"
    BY <1>2 DEF Opens, Born
  <2>2. request[r].token = t /\ t # None
    BY <1>0, <1>1, <2>1, IdFacts
  <2>3. request[r].force
    BY <2>1, <2>2 DEF TokenInv
  <2>. QED BY <1>0, <2>1, <2>2, <2>3
<1>3. ASSUME NEW j \in Roams, Copies(j) PROVE FALSE
  <2>1. byToken' = [byToken EXCEPT ![j] = j] /\ session[j] = None /\ j \in Ids
    BY <1>3 DEF Copies, Born
  <2>. QED BY <1>0, <1>1, <2>1
<1>. QED BY <1>2, <1>3, StoreStep DEF StoreKinds, Silent, Speaks, Repeats

-----------------------------------------------------------------------------
(* Questions and answers.                                                  *)

(* AnswersFollowQuestions, with the question found anywhere.               *)
AnswersFollow ==
    \A r \in Requests, s, q \in Ids : \A i \in DOMAIN messages[s] :
        messages[s][i] = [role |-> "assistant", by |-> r] /\ Holds(q, "user", r)
            => \E k \in 1 .. i - 1 : messages[s][k] = [role |-> "user", by |-> r]

LEMMA AnswersMean ==
    /\ AnswersFollowQuestions <=> AnswersFollow
    /\ AnswersFollowQuestions' <=> AnswersFollow'
BY DEF AnswersFollowQuestions, AnswersFollow, Holds

LEMMA AnswersAre ==
    ASSUME AnswersInv
    PROVE  /\ \A p \in Requests, q \in Ids :
                 /\ request[p].at \in Early => ~Holds(q, "user", p) /\ ~Holds(q, "assistant", p)
                 /\ request[p].at = "llm" /\ Holds(q, "user", p) => Holds(request[p].sid, "user", p)
           /\ AnswersFollow
BY AnswersMean DEF AnswersInv, Early

(* What is appended to session s is the only new message.                  *)
LEMMA OneMore ==
    ASSUME Apart, NEW s \in Ids, NEW m \in Messages, messages' = Said(s, m), NEW n, n = Len(messages[s]) + 1
    PROVE  /\ DOMAIN messages'[s] = DOMAIN messages[s] \cup {n} /\ messages'[s][n] = m
           /\ \A i \in DOMAIN messages[s] : messages'[s][i] = messages[s][i] /\ i \in 1 .. n - 1 /\ i \in Nat
           /\ \A q \in Ids \ {s} : messages'[q] = messages[q]
           /\ n \in Nat
<1>1. messages[s] \in Histories
  BY DEF Apart, StateOK
<1>2. messages'[s] = Append(messages[s], m) /\ \A q \in Ids \ {s} : messages'[q] = messages[q]
  BY DEF Said, Apart, StateOK
<1>. QED BY <1>1, <1>2 DEF Histories

(* What a request in waiting holds, others do not take away.               *)
LEMMA HeldStays ==
    ASSUME AnswersInv, NEW p \in Requests, request'[p] = request[p],
           request[p].at = "llm" => request[p].sid \in Ids,
           \A q \in Ids : Holds(q, "user", p) => Holds(q, "user", p)',
           request[p].at \in Early => \A q \in Ids : ~Holds(q, "user", p)' /\ ~Holds(q, "assistant", p)',
           (\E q \in Ids : Holds(q, "user", p)') => \E q \in Ids : Holds(q, "user", p)
    PROVE  \A q \in Ids :
               /\ request'[p].at \in Early => ~Holds(q, "user", p)' /\ ~Holds(q, "assistant", p)'
               /\ request'[p].at = "llm" /\ Holds(q, "user", p)' => Holds(request[p].sid, "user", p)'
<1>1. ASSUME request[p].at = "llm", NEW q \in Ids, Holds(q, "user", p)'
      PROVE  Holds(request[p].sid, "user", p)'
  <2>1. PICK x \in Ids : Holds(x, "user", p)
    BY <1>1
  <2>2. request[p].sid \in Ids /\ Holds(request[p].sid, "user", p)
    BY <1>1, <2>1, AnswersAre
  <2>3. PICK s \in Ids : s = request[p].sid
    BY <2>2
  <2>4. Holds(s, "user", p)'
    BY <2>2, <2>3
  <2>. QED BY <2>3, <2>4 DEF Holds
<1>. QED BY <1>1

LEMMA SpeaksAnswers ==
    ASSUME RoamingInv, AnswersInv, NEW r \in Requests, NEW role \in {"user", "assistant"}, Speaks(r, role)
    PROVE  AnswersInv'
<1>s. PICK s \in Ids : s = request[r].sid
  BY DEF Speaks
<1> DEFINE n == Len(messages[s]) + 1
           m == [role |-> role, by |-> r]
<1>0. m \in Messages /\ messages' = Said(s, m)
  BY <1>s, IdFacts DEF Speaks, Messages
<1>1. /\ DOMAIN messages'[s] = DOMAIN messages[s] \cup {n} /\ messages'[s][n] = m
      /\ \A i \in DOMAIN messages[s] : messages'[s][i] = messages[s][i] /\ i \in 1 .. n - 1 /\ i \in Nat
      /\ \A q \in Ids \ {s} : messages'[q] = messages[q]
      /\ n \in Nat
  <2> HIDE DEF n, m
  <2>. QED BY <1>0, TakeApart, OneMore DEF n
<1> HIDE DEF n
<1>2. \A p \in Requests, q \in Ids, x \in {"user", "assistant"} :
          Holds(q, x, p)' <=> Holds(q, x, p) \/ (q = s /\ x = role /\ p = r)
  <2> SUFFICES ASSUME NEW p \in Requests, NEW q \in Ids, NEW x \in {"user", "assistant"}
               PROVE  Holds(q, x, p)' <=> Holds(q, x, p) \/ (q = s /\ x = role /\ p = r)
    OBVIOUS
  <2>1. CASE q = s
    BY <1>1, <2>1 DEF Holds
  <2>2. CASE q # s
    BY <1>1, <2>2 DEF Holds
  <2>. QED BY <2>1, <2>2
<1>3. ASSUME NEW p \in Requests, NEW q \in Ids
      PROVE  /\ request'[p].at \in Early => ~Holds(q, "user", p)' /\ ~Holds(q, "assistant", p)'
             /\ request'[p].at = "llm" /\ Holds(q, "user", p)' => Holds(request[p].sid, "user", p)'
  <2>1. CASE p = r
    <3>1. /\ request'[r].at \notin Early /\ request'[r].sid = s
          /\ request'[r].at = "llm" => role = "user" /\ request[r].at \in Early
      BY <1>s DEF Speaks, Early
    <3>2. request'[r].at = "llm" => Holds(s, "user", r)'
      BY <1>0, <1>2, <3>1
    <3>3. Holds(s, "user", r)' => Holds(request[r].sid, "user", r)'
      BY <3>1 DEF Holds
    <3>. QED BY <2>1, <3>1, <3>2, <3>3
  <2>2. CASE p # r
    <3>1. request'[p] = request[p] /\ (request[p].at = "llm" => request[p].sid \in Ids)
      BY <2>2 DEF Speaks, RoamingInv, TypeOK
    <3>2. \A x \in Ids, y \in {"user", "assistant"} : Holds(x, y, p)' <=> Holds(x, y, p)
      BY <1>2, <2>2
    <3>3. request[p].at \in Early => \A x \in Ids : ~Holds(x, "user", p)' /\ ~Holds(x, "assistant", p)'
      BY <3>2, AnswersAre
    <3>4. /\ request'[p].at \in Early => ~Holds(q, "user", p)' /\ ~Holds(q, "assistant", p)'
          /\ request'[p].at = "llm" /\ Holds(q, "user", p)' => Holds(request[p].sid, "user", p)'
      BY <3>1, <3>2, <3>3, HeldStays
    <3>. QED BY <3>4
  <2>. QED BY <2>1, <2>2
<1>4. ASSUME NEW p \in Requests, NEW x \in Ids, NEW q \in Ids, NEW i \in DOMAIN messages'[x],
             messages'[x][i] = [role |-> "assistant", by |-> p], Holds(q, "user", p)'
      PROVE  \E k \in 1 .. i - 1 : messages'[x][k] = [role |-> "user", by |-> p]
  <2>1. CASE i \in DOMAIN messages[x] /\ messages'[x][i] = messages[x][i]
    <3>1. Holds(x, "assistant", p)
      BY <1>4, <2>1 DEF Holds
    <3>2. Holds(q, "user", p)
      <4>1. CASE Holds(q, "user", p)
        BY <4>1
      <4>2. CASE p = r /\ role = "user"
        BY <3>1, <4>2, AnswersAre DEF Speaks, Early
      <4>. QED BY <1>2, <1>4, <4>1, <4>2
    <3>3. PICK k \in 1 .. i - 1 : messages[x][k] = [role |-> "user", by |-> p]
      BY <1>4, <2>1, <3>2, AnswersAre DEF AnswersFollow
    <3>4. k \in DOMAIN messages[x]
      BY <2>1 DEF RoamingInv, TypeOK, Histories
    <3>5. messages'[x][k] = messages[x][k]
      BY <1>1, <3>4
    <3>. QED BY <3>3, <3>5
  <2>2. CASE x = s /\ i = n
    <3>1. role = "assistant" /\ p = r /\ request[r].at = "llm"
      BY <1>1, <1>4, <2>2 DEF Speaks
    <3>2. Holds(q, "user", r)
      BY <1>2, <1>4, <3>1
    <3>3. Holds(s, "user", r)
      BY <1>s, <3>1, <3>2, AnswersAre
    <3>. QED BY <1>1, <2>2, <3>1, <3>3 DEF Holds
  <2>. QED BY <1>1, <2>1, <2>2
<1>5. AnswersFollow'
  BY <1>4 DEF AnswersFollow
<1>6. \A p \in Requests, q \in Ids :
          request'[p].at = "llm" /\ Holds(q, "user", p)' => Holds(request[p].sid, "user", p)'
  BY <1>3
<1>. QED BY <1>3, <1>5, <1>6, AnswersMean DEF AnswersInv, Early

(* A step after which nobody is quoted who was not, and everybody who was. *)
LEMMA QuietAnswers ==
    ASSUME RoamingInv, AnswersInv, [Next]_vars, AnswersFollow',
           \A p \in Requests, q \in Ids, x \in {"user", "assistant"} :
               Holds(q, x, p)' => \E y \in Ids : Holds(y, x, p),
           \A p \in Requests, q \in Ids :
               session[q] # None /\ Holds(q, "user", p) => Holds(q, "user", p)'
    PROVE  AnswersInv'
<1>1. ASSUME NEW p \in Requests, NEW q \in Ids
      PROVE  /\ request'[p].at \in Early => ~Holds(q, "user", p)' /\ ~Holds(q, "assistant", p)'
             /\ request'[p].at = "llm" /\ Holds(q, "user", p)' => Holds(request[p].sid, "user", p)'
  <2>1. /\ request'[p].at \in Early => request[p].at \in Early
        /\ request'[p].at = "llm" => request'[p] = request[p] \/ request[p].at \in Early
    BY RequestStep DEF RequestMoves, Early
  <2>2. request[p].at \in Early => ~Holds(q, "user", p)' /\ ~Holds(q, "assistant", p)'
    BY AnswersAre
  <2>3. ASSUME request'[p] = request[p], request[p].at = "llm", Holds(q, "user", p)'
        PROVE  Holds(request[p].sid, "user", p)'
    <3>1. PICK y \in Ids : Holds(y, "user", p)
      BY <2>3
    <3>2. Holds(request[p].sid, "user", p)
      BY <2>3, <3>1, AnswersAre
    <3>3. PICK s \in Ids : s = request[p].sid /\ session[s] # None
      BY <2>3 DEF RoamingInv, TypeOK, Placed
    <3>4. Holds(s, "user", p)'
      BY <3>2, <3>3
    <3>. QED BY <2>3, <3>3, <3>4 DEF Holds
  <2>. QED BY <2>1, <2>2, <2>3
<1>2. \A p \in Requests, q \in Ids :
          request'[p].at = "llm" /\ Holds(q, "user", p)' => Holds(request[p].sid, "user", p)'
  BY <1>1
<1>. QED BY <1>1, <1>2, AnswersMean DEF AnswersInv, Early

LEMMA BornAnswers ==
    ASSUME RoamingInv, AnswersInv, [Next]_vars, NEW s, NEW token, NEW origin, Born(s, token, origin)
    PROVE  AnswersInv'
<1>1. /\ s \in Ids /\ session[s] = None /\ messages'[s] = <<>>
      /\ \A q \in Ids \ {s} : messages'[q] = messages[q]
  BY DEF Born
<1>2. ASSUME NEW p \in Requests, NEW q \in Ids, NEW x \in {"user", "assistant"}, Holds(q, x, p)'
      PROVE  q # s /\ Holds(q, x, p)
  BY <1>1, <1>2 DEF Holds
<1>3. ASSUME NEW p \in Requests, NEW q \in Ids, session[q] # None, Holds(q, "user", p)
      PROVE  Holds(q, "user", p)'
  BY <1>1, <1>3 DEF Holds
<1>4. ASSUME NEW p \in Requests, NEW x \in Ids, NEW q \in Ids, NEW i \in DOMAIN messages'[x],
             messages'[x][i] = [role |-> "assistant", by |-> p], Holds(q, "user", p)'
      PROVE  \E k \in 1 .. i - 1 : messages'[x][k] = [role |-> "user", by |-> p]
  <2>1. messages'[x] = messages[x]
    BY <1>1, <1>4
  <2>2. Holds(q, "user", p)
    BY <1>2, <1>4
  <2>. QED BY <1>4, <2>1, <2>2, AnswersAre DEF AnswersFollow
<1>5. AnswersFollow'
  BY <1>4 DEF AnswersFollow
<1>6. \A p \in Requests, q \in Ids, x \in {"user", "assistant"} :
          Holds(q, x, p)' => \E y \in Ids : Holds(y, x, p)
  BY <1>2
<1>. QED BY <1>3, <1>5, <1>6, QuietAnswers

(* What a copy repeats stands in its source, after the same beginning.     *)
LEMMA RepeatsSource ==
    ASSUME Apart, NEW j \in Roams, NEW m \in Messages, Repeats(j, m), roam[j].history # <<>>,
           NEW n, n = Len(messages[j]) + 1
    PROVE  \E src \in Ids : /\ n \in DOMAIN messages[src] /\ messages[src][n] = m
                            /\ \A k \in 1 .. n - 1 : messages[j][k] = messages[src][k]
<1> DEFINE x == messages[j]  h == roam[j].history  src == roam[j].source  y == messages[src]  w == x \o h
<1>1. j \in Copying /\ roam[j].at = "replay" /\ m = Head(h)
  BY DEF Repeats
<1>2. src \in Ids /\ session[src] # None /\ j \in Ids /\ session[j] # None /\ h \in Histories
  BY <1>1, CopyFacts
<1>3. x \in Histories /\ y \in Histories
  BY <1>2, SessionFacts
<1>4. IsHistoryOf(w, y)
  BY <1>1 DEF Apart, RoamOK, UnderWay
<1>5. w \in Histories /\ Len(w) = Len(x) + Len(h) /\ w[Len(x) + 1] = Head(h) /\ IsHistoryOf(x, w)
  BY <1>2, <1>3, HistoryInParts
<1>6. Len(h) > 0
  BY <1>2 DEF Histories
<1> HIDE DEF x, y, w, h
<1>7. /\ Len(x) \in Nat /\ Len(y) \in Nat /\ Len(h) \in Nat /\ DOMAIN y = 1 .. Len(y)
      /\ n = Len(x) + 1
  BY <1>2, <1>3 DEF Histories, x
<1>8. n \in 1 .. Len(w) /\ n \in 1 .. Len(y)
  BY <1>4, <1>5, <1>6, <1>7 DEF IsHistoryOf
<1>9. y[n] = m
  BY <1>1, <1>4, <1>5, <1>7, <1>8 DEF IsHistoryOf
<1>10. ASSUME NEW k \in 1 .. n - 1 PROVE x[k] = y[k]
  <2>1. k \in 1 .. Len(x) /\ k \in 1 .. Len(w)
    BY <1>5, <1>6, <1>7
  <2>. QED BY <1>4, <1>5, <2>1 DEF IsHistoryOf
<1>. QED BY <1>2, <1>7, <1>8, <1>9, <1>10 DEF x, y

LEMMA RepeatsAnswers ==
    ASSUME RoamingInv, AnswersInv, [Next]_vars, NEW j \in Roams, NEW m \in Messages, Repeats(j, m)
    PROVE  AnswersInv'
<1> DEFINE n == Len(messages[j]) + 1
<1>0. Apart /\ j \in Ids /\ messages' = Said(j, m)
  BY TakeApart, IdFacts DEF Repeats
<1>1. /\ DOMAIN messages'[j] = DOMAIN messages[j] \cup {n} /\ messages'[j][n] = m
      /\ \A i \in DOMAIN messages[j] : messages'[j][i] = messages[j][i] /\ i \in 1 .. n - 1 /\ i \in Nat
      /\ \A q \in Ids \ {j} : messages'[q] = messages[q]
      /\ n \in Nat
  <2> HIDE DEF n
  <2>. QED BY <1>0, OneMore DEF n
<1>2. DOMAIN messages[j] = 1 .. n - 1
  <2>1. messages[j] \in Histories
    BY <1>0 DEF Apart, StateOK
  <2>. QED BY <2>1 DEF Histories
<1>3. \/ m = Provenance(j)
      \/ \E src \in Ids : /\ n \in DOMAIN messages[src] /\ messages[src][n] = m
                          /\ \A k \in 1 .. n - 1 : messages[j][k] = messages[src][k]
  <2> HIDE DEF n
  <2>1. CASE roam[j].history = <<>>
    BY <2>1 DEF Repeats
  <2>2. CASE roam[j].history # <<>>
    BY <1>0, <2>2, RepeatsSource DEF n
  <2>. QED BY <2>1, <2>2
<1> HIDE DEF n
<1>4. \A p \in Requests, x \in {"user", "assistant"} : [role |-> x, by |-> p] # Provenance(j)
  BY DEF Provenance
<1>5. ASSUME NEW p \in Requests, NEW q \in Ids, NEW x \in {"user", "assistant"}, Holds(q, x, p)'
      PROVE  \E y \in Ids : Holds(y, x, p)
  <2>1. CASE Holds(q, x, p)
    BY <2>1
  <2>2. CASE ~Holds(q, x, p)
    <3>1. m = [role |-> x, by |-> p]
      BY <1>1, <1>5, <2>2 DEF Holds
    <3>. QED BY <1>3, <1>4, <3>1 DEF Holds
  <2>. QED BY <2>1, <2>2
<1>6. ASSUME NEW p \in Requests, NEW q \in Ids, Holds(q, "user", p)
      PROVE  Holds(q, "user", p)'
  BY <1>1, <1>6 DEF Holds
<1>7. ASSUME NEW p \in Requests, NEW x \in Ids, NEW q \in Ids, NEW i \in DOMAIN messages'[x],
             messages'[x][i] = [role |-> "assistant", by |-> p], Holds(q, "user", p)'
      PROVE  \E k \in 1 .. i - 1 : messages'[x][k] = [role |-> "user", by |-> p]
  <2>1. PICK y \in Ids : Holds(y, "user", p)
    BY <1>5, <1>7
  <2>2. CASE i \in DOMAIN messages[x] /\ messages'[x][i] = messages[x][i]
    <3>1. PICK k \in 1 .. i - 1 : messages[x][k] = [role |-> "user", by |-> p]
      BY <1>7, <2>1, <2>2, AnswersAre DEF AnswersFollow
    <3>2. k \in DOMAIN messages[x]
      BY <2>2 DEF RoamingInv, TypeOK, Histories
    <3>3. messages'[x][k] = messages[x][k]
      BY <1>1, <3>2
    <3>. QED BY <3>1, <3>3
  <2>3. CASE x = j /\ i = n
    <3>1. m = [role |-> "assistant", by |-> p]
      BY <1>1, <1>7, <2>3
    <3>2. PICK src \in Ids : /\ n \in DOMAIN messages[src] /\ messages[src][n] = m
                             /\ \A k \in 1 .. n - 1 : messages[j][k] = messages[src][k]
      BY <1>3, <1>4, <3>1
    <3>3. PICK k \in 1 .. n - 1 : messages[src][k] = [role |-> "user", by |-> p]
      BY <2>1, <3>1, <3>2, AnswersAre DEF AnswersFollow
    <3>4. messages'[j][k] = messages[j][k]
      BY <1>1, <1>2, <3>3
    <3>. QED BY <2>3, <3>2, <3>3, <3>4
  <2>. QED BY <1>1, <2>2, <2>3
<1>8. AnswersFollow'
  BY <1>7 DEF AnswersFollow
<1>. QED BY <1>5, <1>6, <1>8, QuietAnswers

LEMMA AnswersStep ==
    ASSUME RoamingInv, AnswersInv, [Next]_vars
    PROVE  AnswersInv'
<1>1. CASE UNCHANGED messages
  <2>1. \A p \in Requests, q \in Ids, x \in {"user", "assistant"} : Holds(q, x, p)' <=> Holds(q, x, p)
    BY <1>1 DEF Holds
  <2>2. AnswersFollow'
    <3>1. AnswersFollow
      BY AnswersAre
    <3>. QED BY <1>1, <3>1 DEF AnswersFollow, Holds
  <2>. QED BY <2>1, <2>2, QuietAnswers
<1>2. ASSUME NEW r \in Requests, Opens(r) PROVE AnswersInv'
  BY <1>2, BornAnswers DEF Opens
<1>3. ASSUME NEW j \in Roams, Copies(j) PROVE AnswersInv'
  BY <1>3, BornAnswers DEF Copies
<1>. QED BY <1>1, <1>2, <1>3, StoreStep, SpeaksAnswers, RepeatsAnswers DEF StoreKinds, Silent

-----------------------------------------------------------------------------
(* Snapshots.                                                              *)

LEMMA HistoriesKept ==
    ASSUME RoamingInv, [Next]_vars
    PROVE  /\ messages' \in [Ids -> Histories]
           /\ \A s \in Ids : session[s] # None =>
                  session'[s] # None /\ IsHistoryOf(messages[s], messages'[s])
<1>0. Apart /\ messages \in [Ids -> Histories]
  BY TakeApart DEF RoamingInv, TypeOK
<1>1. messages' \in [Ids -> Histories]
  BY RoamingStep DEF RoamingInv, TypeOK
<1>2. CASE UNCHANGED messages
  BY <1>0, <1>1, <1>2, HistoryIsOfItself, NobodyVanishes
<1>3. ASSUME NEW s \in Ids, NEW m \in Messages, messages' = Said(s, m)
      PROVE  \A q \in Ids : IsHistoryOf(messages[q], messages'[q])
  <2>1. \A q \in Ids : messages'[q] = IF q = s THEN Append(messages[q], m) ELSE messages[q]
    BY <1>0, <1>3 DEF Said
  <2>. QED BY <1>0, <2>1, HistoryOfAppend, HistoryIsOfItself
<1>4. ASSUME NEW s, NEW token, NEW origin, Born(s, token, origin)
      PROVE  \A q \in Ids : session[q] # None => IsHistoryOf(messages[q], messages'[q])
  BY <1>0, <1>4, HistoryIsOfItself DEF Born
<1>5. ASSUME NEW r \in Requests, NEW role \in {"user", "assistant"}, Speaks(r, role)
      PROVE  \A q \in Ids : IsHistoryOf(messages[q], messages'[q])
  <2>1. [role |-> role, by |-> r] \in Messages
    BY IdFacts DEF Messages
  <2>. QED BY <1>3, <1>5, <2>1 DEF Speaks
<1>6. ASSUME NEW j \in Roams, NEW m \in Messages, Repeats(j, m)
      PROVE  \A q \in Ids : IsHistoryOf(messages[q], messages'[q])
  BY <1>3, <1>6, IdFacts DEF Repeats
<1>. QED BY <1>1, <1>2, <1>4, <1>5, <1>6, StoreStep, NobodyVanishes DEF StoreKinds, Silent, Opens, Copies

LEMMA CheckpointMoves ==
    ASSUME RoamingInv, SnapshotInv, [Next]_vars, ~suspends, NEW s \in Ids, latest[s] # None
    PROVE  IsHistoryOf(latest[s], latest'[s])
<1>1. latest[s] \in Histories
  BY DEF RoamingInv, TypeOK, OrNone
<1>2. CASE latest'[s] = latest[s]
  BY <1>1, <1>2, HistoryIsOfItself
<1>3. CASE \E r \in Requests : request[r].at = "listed" /\ s = request[r].sid /\ latest'[s] = request[r].listed
  BY <1>3 DEF SnapshotInv
<1>4. CASE s \in Roams /\ roam[s].at = "restore"
  BY <1>4 DEF SnapshotInv
<1>. QED BY <1>2, <1>3, <1>4, LatestStep DEF LatestMoves

(* What stands between two calls has the histories to itself.              *)
LEMMA NobodyElseWrites ==
    ASSUME RoamingInv, [Next]_vars, ~suspends
    PROVE  /\ \A r \in Requests :
                  request[r].at = "listed" /\ request'[r] = request[r] => messages' = messages
           /\ \A j \in MidRoaming :
                  roam'[j] = roam[j] => messages' = messages /\ latest'[j] = latest[j]
<1>1. ASSUME NEW r \in Requests, request[r].at = "listed", request'[r] = request[r]
      PROVE  messages' = messages
  <2>1. ASSUME NEW x, MayRun(x) PROVE x = r
    BY <1>1, <2>1, RunsAlone DEF MidCompletion
  <2>. QED BY <1>1, <2>1, StoreStep, IdFacts DEF StoreKinds, Silent, Speaks, Repeats, Opens, Copies
<1>2. ASSUME NEW j \in MidRoaming, roam'[j] = roam[j]
      PROVE  messages' = messages /\ latest'[j] = latest[j]
  <2>0. j \in Roams /\ j \in Ids /\ j \notin Requests
    BY IdFacts DEF MidRoaming
  <2>1. ASSUME NEW x, MayRun(x) PROVE x = j
    BY <2>0, <2>1, RunsAlone
  <2>2. ASSUME NEW m \in Messages, Repeats(j, m) PROVE FALSE
    <3> DEFINE h == roam[j].history
    <3>1. h \in Histories /\ roam[j].at = "replay"
      BY <2>0, <2>2 DEF Repeats, RoamingInv, TypeOK, RoamRecords
    <3>2. h # <<>> /\ h = Tail(h)
      BY <1>2, <2>2, <3>1 DEF Repeats
    <3> HIDE DEF h
    <3>3. Len(Tail(h)) = Len(h) - 1
      BY <3>1, <3>2, NoHistory, HistoryInParts
    <3>4. Len(h) \in Nat
      BY <3>1 DEF Histories
    <3>. QED BY <3>2, <3>3, <3>4
  <2>3. ASSUME Copies(j) PROVE FALSE
    BY <1>2, <2>3 DEF Copies
  <2>4. UNCHANGED messages
    BY <2>0, <2>1, <2>2, <2>3, StoreStep DEF StoreKinds, Silent, Speaks, Repeats, Opens, Copies
  <2>5. latest'[j] = latest[j]
    BY <1>2, <2>0, <2>1, LatestStep DEF LatestMoves
  <2>. QED BY <2>4, <2>5
<1>. QED BY <1>1, <1>2

(* What a copy's snapshot is of, while its history is replayed.            *)
LEMMA ReplaySnapshot ==
    ASSUME RoamingInv, SnapshotInv, [Next]_vars, ~suspends, NEW j \in Roams, roam[j].at = "replay",
           NEW m \in Messages, Repeats(j, m), roam'[j].snapshot = roam[j].snapshot, roam[j].snapshot # None
    PROVE  /\ roam'[j].at = "replay" => IsHistoryOf(roam[j].snapshot, messages'[j] \o roam'[j].history)
           /\ roam'[j].at = "restore" => IsHistoryOf(roam[j].snapshot, messages'[j])
<1> DEFINE x == messages[j]  h == roam[j].history  z == roam[j].snapshot  w == x \o h  a == Append(x, m)
<1>1. x \in Histories /\ h \in Histories /\ z \in Histories /\ j \in Ids
  BY IdFacts DEF RoamingInv, TypeOK, RoamRecords, OrNone
<1>2. IsHistoryOf(z, w)
  BY DEF SnapshotInv
<1>3. messages'[j] = a
  BY <1>1 DEF Repeats, Said, RoamingInv, TypeOK
<1>4. CASE h # <<>>
  <2>1. m = Head(h) /\ roam'[j].at = "replay" /\ roam'[j].history = Tail(h)
    BY <1>4 DEF Repeats
  <2>2. Append(x, Head(h)) \o Tail(h) = w
    <3> HIDE DEF x, h
    <3>. QED BY <1>1, <1>4, HistoryInParts
  <2>. QED BY <1>2, <1>3, <2>1, <2>2
<1>5. CASE h = <<>>
  <2>1. roam'[j].at # "replay"
    BY <1>5 DEF Repeats
  <2> HIDE DEF x, h, z
  <2>2. w = x
    BY <1>1, <1>5, HistoryInParts
  <2>3. a \in Histories /\ IsHistoryOf(x, a)
    BY <1>1, HistoryOfAppend
  <2>4. IsHistoryOf(z, a)
    BY <1>1, <1>2, <2>2, <2>3, HistoryGrows
  <2>. QED BY <1>3, <2>1, <2>4 DEF z
<1>. QED BY <1>4, <1>5

LEMMA SnapshotStep ==
    ASSUME RoamingInv, SnapshotInv, [Next]_vars
    PROVE  SnapshotInv'
<1>0. /\ suspends' = suspends /\ messages' \in [Ids -> Histories] /\ Apart /\ RoamingInv'
      /\ \A s \in Ids : session[s] # None => session'[s] # None /\ IsHistoryOf(messages[s], messages'[s])
  BY WhoSteps, HistoriesKept, TakeApart, RoamingStep
<1>1. ASSUME NEW s \in Ids, latest'[s] # None PROVE session[s] # None
  <2>1. CASE latest'[s] = latest[s]
    BY <1>1, <2>1 DEF SnapshotInv
  <2>2. CASE \E r \in Requests : request[r].at = "listed" /\ s = request[r].sid
    BY <2>2 DEF RoamingInv, Placed
  <2>3. CASE s \in Roams /\ roam[s].at = "restore"
    BY <1>0, <2>3, CopyFacts DEF Copying
  <2>. QED BY <2>1, <2>2, <2>3, LatestStep DEF LatestMoves
<1>2. ASSUME ~suspends, NEW s \in Ids, latest'[s] # None PROVE IsHistoryOf(latest'[s], messages'[s])
  <2>0. session[s] # None /\ messages[s] \in Histories /\ messages'[s] \in Histories
    BY <1>0, <1>1, <1>2 DEF RoamingInv, TypeOK
  <2>1. CASE latest'[s] = latest[s]
    <3>1. latest[s] \in Histories
      BY <1>2, <2>1 DEF RoamingInv, TypeOK, OrNone
    <3>. QED BY <1>0, <1>2, <2>0, <2>1, <3>1, HistoryGrows DEF SnapshotInv
  <2>2. CASE \E r \in Requests : /\ UNCHANGED messages /\ request[r].at = "listed" /\ s = request[r].sid
                                 /\ latest'[s] = request[r].listed
    BY <1>2, <2>0, <2>2, HistoryIsOfItself DEF SnapshotInv
  <2>3. CASE /\ UNCHANGED messages /\ s \in Roams /\ roam[s].at = "restore"
             /\ latest'[s] = roam[s].snapshot
    BY <1>2, <2>3 DEF SnapshotInv
  <2>. QED BY <2>1, <2>2, <2>3, LatestStep DEF LatestMoves
<1>4. ASSUME ~suspends, NEW r \in Requests, request'[r].at = "listed"
      PROVE  request'[r].listed = messages'[request'[r].sid]
  <2>1. CASE request'[r] = request[r]
    BY <1>4, <2>1, NobodyElseWrites DEF SnapshotInv
  <2>2. CASE /\ UNCHANGED messages /\ request'[r].listed = messages[request[r].sid]
             /\ request'[r].sid = request[r].sid
    BY <2>2
  <2>. QED BY <1>4, <2>1, <2>2, RequestStep DEF RequestMoves
<1>5. ASSUME ~suspends, NEW e \in Roams, exports'[e] # None, exports'[e].snapshot # None
      PROVE  IsHistoryOf(exports'[e].snapshot, exports'[e].history)
  <2>1. CASE roam[e].at = "record" /\ exports'[e].history = roam[e].history
             /\ exports'[e].snapshot = roam[e].snapshot
    BY <1>5, <2>1 DEF SnapshotInv
  <2>. QED BY <1>5, <2>1, ExportStep DEF ExportMoves, SnapshotInv
<1>8. ASSUME ~suspends, NEW j \in Roams
      PROVE  /\ roam'[j].at = "snapshot" => roam'[j].history = messages'[roam'[j].source]
             /\ roam'[j].at \in {"record", "create"} /\ roam'[j].snapshot # None =>
                    IsHistoryOf(roam'[j].snapshot, roam'[j].history)
             /\ roam'[j].at = "replay" /\ roam'[j].snapshot # None =>
                    IsHistoryOf(roam'[j].snapshot, messages'[j] \o roam'[j].history)
             /\ roam'[j].at = "restore" => IsHistoryOf(roam'[j].snapshot, messages'[j])
             /\ roam'[j].at \in {"replay", "restore"} => latest'[j] = None
  <2>1. CASE roam'[j] = roam[j]
    <3>1. j \in MidRoaming => messages' = messages /\ latest'[j] = latest[j]
      BY <1>8, <2>1, NobodyElseWrites
    <3>2. roam[j].at \in {"snapshot", "record", "create", "replay", "restore"} => j \in MidRoaming
      BY DEF MidRoaming
    <3>. QED BY <1>8, <2>1, <3>1, <3>2 DEF SnapshotInv
  <2>2. CASE roam'[j].at = "snapshot" /\ roam'[j].history = messages[roam'[j].source] /\ UNCHANGED messages
    BY <2>2
  <2>3. CASE /\ roam[j].at = "snapshot" /\ roam'[j].at \in {"record", "create"}
             /\ Same(j, {"kind", "source", "export", "history"}) /\ roam'[j].snapshot = latest[roam[j].source]
    <3>1. roam[j].source \in Ids /\ roam[j].history = messages[roam[j].source]
      BY <1>0, <1>8, <2>3 DEF SnapshotInv, Apart, RoamOK, MidRoaming
    <3>2. roam'[j].history = roam[j].history
      BY <2>3 DEF Same
    <3>. QED BY <1>8, <2>3, <3>1, <3>2 DEF SnapshotInv
  <2>4. CASE /\ roam'[j].at = "create"
             /\ \E e \in Roams : /\ exports[e] # None /\ roam'[j].history = exports[e].history
                                 /\ roam'[j].snapshot = exports[e].snapshot
    BY <1>8, <2>4 DEF SnapshotInv
  <2>5. CASE /\ roam[j].at = "record" /\ roam'[j].at = "create"
             /\ Same(j, {"kind", "source", "export", "history", "snapshot"})
    BY <1>8, <2>5 DEF SnapshotInv, Same
  <2>6. CASE /\ roam[j].at = "create" /\ roam'[j].at = "replay" /\ Copies(j)
             /\ Same(j, {"kind", "source", "export", "history", "snapshot"})
    <3>1. /\ j \in Ids /\ session[j] = None /\ latest' = latest /\ messages'[j] = <<>>
          /\ roam'[j].history = roam[j].history /\ roam'[j].snapshot = roam[j].snapshot
      BY <2>6 DEF Copies, Born, Same
    <3>2. latest'[j] = None
      BY <1>1, <3>1
    <3>3. messages'[j] \o roam'[j].history = roam[j].history
      <4>1. roam[j].history \in Histories
        BY DEF RoamingInv, TypeOK, RoamRecords
      <4>. QED BY <3>1, <4>1, NoHistory, HistoryInParts
    <3>. QED BY <1>8, <2>6, <3>1, <3>2, <3>3 DEF SnapshotInv
  <2>7. CASE /\ roam[j].at = "replay" /\ roam'[j].at \in {"replay", "restore", "activate"}
             /\ \E m \in Messages : Repeats(j, m) /\ Same(j, {"kind", "source", "export", "snapshot"})
    <3>1. PICK m \in Messages : Repeats(j, m)
      BY <2>7
    <3>2. roam'[j].snapshot = roam[j].snapshot /\ latest' = latest /\ latest[j] = None
      BY <1>8, <2>7, <3>1 DEF Same, Repeats, SnapshotInv
    <3>3. roam'[j].at = "restore" => roam'[j].snapshot # None
      BY <1>0 DEF RoamingInv, CopiesUnderWay, UnderWay
    <3>4. ASSUME roam[j].snapshot # None
          PROVE  /\ roam'[j].at = "replay" =>
                        IsHistoryOf(roam[j].snapshot, messages'[j] \o roam'[j].history)
                 /\ roam'[j].at = "restore" => IsHistoryOf(roam[j].snapshot, messages'[j])
      BY <1>8, <2>7, <3>1, <3>2, <3>4, ReplaySnapshot
    <3>. QED BY <2>7, <3>2, <3>3, <3>4
  <2>. QED BY <1>8, <2>1, <2>2, <2>3, <2>4, <2>5, <2>6, <2>7, RoamingMoveStep DEF RoamMoves
<1>. QED BY <1>0, <1>1, <1>2, <1>4, <1>5, <1>8 DEF SnapshotInv

-----------------------------------------------------------------------------
(* What a step does to the status of a session, to the handler of a        *)
(* connection and to the registered surfaces.                              *)

StatusMoves(s) ==
    \/ session[s] = None /\ session'[s].status = "idle"
    \/ session[s] # None /\ session'[s].status = session[s].status
    \/ session[s] # None /\ session'[s].status = "active"
    \/ /\ session[s] # None /\ session'[s].status = "suspended"
       /\ \/ \E j \in Roams : roam[j].at = "suspend" /\ roam[j].source = s /\ roam'[j].at = "done"
          \/ \E c \in Conns : /\ handler[c].at = "leaving" /\ handler[c].sid = s
                              /\ handler'[c].at = "gone" /\ handler'[c].sid = s /\ UNCHANGED surfaces

HandlerMoves(c) ==
    LET h == handler[c]
        h1 == handler'[c]
    IN \/ h1 = h
       \/ h.at = "new" /\ h1.at = "registered" /\ MayRun(c)
       \/ /\ h.at = "registered" /\ h1.at = "serving"
          /\ h.sid \in Ids /\ session'[h.sid].status = "active"
       \/ h.at = "serving" /\ h1.at = "leaving" /\ h1.sid = h.sid /\ surfaces' = surfaces \ {h.sid}
       \/ h.at = "leaving" /\ h1.at = "gone"
       \/ suspends /\ h.at \in {"registered", "leaving"} /\ h1.at = "failed"

SurfacesMove ==
    \/ surfaces' \subseteq surfaces
    \/ \E c \in Conns : /\ MayRun(c) /\ handler[c].at = "new" /\ handler'[c].at = "registered"
                        /\ surfaces' = surfaces \cup {handler'[c].sid}

LEMMA UpdateMoves ==
    ASSUME Apart, NEW q \in Ids, session[q] # None, NEW status \in {"active", "suspended"},
           session' = Update(q, status), NEW s \in Ids, session'[s] # None
    PROVE  session[s] # None /\ session'[s].status = IF s = q THEN status ELSE session[s].status
BY UpdateIsSilent DEF SessionsStay

LEMMA StatusStep ==
    ASSUME RoamingInv, [Next]_vars
    PROVE  \A s \in Ids : session'[s] # None => StatusMoves(s)
<1> SUFFICES ASSUME NEW s \in Ids, session'[s] # None PROVE StatusMoves(s)
  OBVIOUS
<1>0. Apart
  BY TakeApart
<1>q. ASSUME UNCHANGED session PROVE StatusMoves(s)
  BY <1>q DEF StatusMoves
<1>b. ASSUME NEW q, NEW token, NEW origin, Born(q, token, origin) PROVE StatusMoves(s)
  BY <1>b DEF Born, StatusMoves
<1>1. ASSUME NEW r \in Requests, Completion(r), UNCHANGED exports PROVE StatusMoves(s)
  <2>1. CASE Open(r)
    BY <1>0, <1>1, <1>b, <2>1, OpenIs DEF Opens
  <2>2. CASE Wake(r)
    <3>1. request[r].sid \in Ids /\ session[request[r].sid] # None
      BY <1>0, <2>2, InSession DEF Wake
    <3>. QED BY <1>0, <2>2, <3>1, UpdateMoves DEF Wake, StatusMoves
  <2>3. CASE UNCHANGED session
    BY <1>q, <2>3
  <2>. QED BY <1>1, <2>1, <2>2, <2>3 DEF Completion, Arrive, Lookup, Speak, Fail, AnswerEmpty, List, Checkpoint,
                                         Answer, Abort, stores
<1>2. ASSUME NEW c \in Conns, Surface(c) PROVE StatusMoves(s)
  <2>0. handler[c].at # "new" => handler[c].sid \in Ids /\ session[handler[c].sid] # None
    BY <1>0 DEF Apart, HandlerOK
  <2>1. CASE Attach(c)
    BY <1>0, <2>0, <2>1, UpdateMoves DEF Attach, StatusMoves
  <2>2. CASE Detach(c)
    <3>1. handler'[c].at = "gone" /\ handler'[c].sid = handler[c].sid
      BY <2>2 DEF Detach, HandlerTo, RoamingInv, TypeOK, HandlerRecords
    <3>. QED BY <1>0, <2>0, <2>2, <3>1, UpdateMoves DEF Detach, StatusMoves
  <2>3. CASE UNCHANGED session
    BY <1>q, <2>3
  <2>. QED BY <1>2, <2>1, <2>2, <2>3 DEF Surface, Register, Disconnect, Collapse, stores
<1>3. ASSUME NEW j \in Roams, RoamingBy(j) PROVE StatusMoves(s)
  <2>1. CASE Restore(j) \/ Branch(j)
    BY <1>0, <1>b, <2>1, CopyIs DEF Copies
  <2>2. CASE Activate(j)
    <3>1. session[j] # None /\ j \in Ids
      BY <1>0, <2>2, CopyFacts DEF Activate, Copying
    <3>. QED BY <1>0, <2>2, <3>1, UpdateMoves DEF Activate, StatusMoves
  <2>3. CASE SuspendSource(j)
    <3>1. session[roam[j].source] # None /\ roam[j].source \in Ids
      BY <1>0, <2>3, CopyFacts DEF SuspendSource, Copying
    <3>2. roam'[j].at = "done"
      BY <1>0, <2>3, EndedIs DEF SuspendSource
    <3>. QED BY <1>0, <2>3, <3>1, <3>2, UpdateMoves DEF SuspendSource, StatusMoves
  <2>4. CASE UNCHANGED session
    BY <1>q, <2>4
  <2>. QED BY <1>3, <2>1, <2>2, <2>3, <2>4
           DEF RoamingBy, Export, Handoff, Fork, Begin, Import, RoamStep, ReadSnapshot, RecordExport, Replay,
               Introduce, WriteSnapshot, Break, stores
<1>. QED BY <1>q, <1>1, <1>2, <1>3, WhoSteps

LEMMA HandlerStep ==
    ASSUME RoamingInv, [Next]_vars
    PROVE  SurfacesMove /\ \A c \in Conns : HandlerMoves(c)
<1>0. Apart /\ handler \in [Conns -> HandlerRecords]
  BY TakeApart DEF RoamingInv, TypeOK
<1>1. ASSUME NEW d \in Conns, Surface(d)
      PROVE  SurfacesMove /\ \A c \in Conns : HandlerMoves(c)
  <2>1. CASE \E s \in Ids : Register(d, s)
    BY <1>0, <2>1 DEF Register, SurfacesMove, HandlerMoves
  <2>2. CASE Attach(d)
    <3>1. handler[d].sid \in Ids /\ session[handler[d].sid] # None /\ handler[d].at = "registered"
      BY <1>0, <2>2 DEF Attach, Apart, HandlerOK
    <3>2. session'[handler[d].sid].status = "active"
      BY <1>0, <2>2, <3>1, UpdateIsSilent DEF Attach
    <3>3. handler'[d].at = "serving" /\ \A c \in Conns \ {d} : handler'[c] = handler[c]
      BY <1>0, <2>2 DEF Attach, HandlerTo, HandlerRecords
    <3>. QED BY <2>2, <3>1, <3>2, <3>3 DEF Attach, SurfacesMove, HandlerMoves
  <2>3. CASE Disconnect(d)
    <3>1. /\ handler'[d].at = "leaving" /\ handler'[d].sid = handler[d].sid
          /\ \A c \in Conns \ {d} : handler'[c] = handler[c]
      BY <1>0, <2>3 DEF Disconnect, HandlerTo, HandlerRecords
    <3>. QED BY <2>3, <3>1 DEF Disconnect, SurfacesMove, HandlerMoves
  <2>4. CASE Detach(d)
    <3>1. handler'[d].at = "gone" /\ \A c \in Conns \ {d} : handler'[c] = handler[c]
      BY <1>0, <2>4 DEF Detach, HandlerTo, HandlerRecords
    <3>. QED BY <2>4, <3>1 DEF Detach, SurfacesMove, HandlerMoves
  <2>5. CASE Collapse(d)
    <3>1. handler'[d].at = "failed" /\ \A c \in Conns \ {d} : handler'[c] = handler[c]
      BY <1>0, <2>5 DEF Collapse, HandlerTo, HandlerRecords
    <3>. QED BY <2>5, <3>1 DEF Collapse, MidSurface, SurfacesMove, HandlerMoves
  <2>. QED BY <1>1, <2>1, <2>2, <2>3, <2>4, <2>5 DEF Surface
<1>2. CASE surfaces' \subseteq surfaces /\ UNCHANGED handler
  BY <1>2 DEF SurfacesMove, HandlerMoves
<1>. QED BY <1>1, <1>2, WhoSteps

-----------------------------------------------------------------------------
(* Imports.                                                                *)

LEMMA ImportsStay ==
    ASSUME RoamingInv, [Next]_vars, NEW j \in Roams, NEW e \in Roams, ImportedWith(j, e)
    PROVE  /\ ImportedWith(j, e)'
           /\ session[j].status # "idle" => session'[j].status # "idle"
<1>1. j \in Ids /\ session[j] # None /\ session'[j] # None /\ session'[j].origin = session[j].origin
  BY NobodyVanishes, IdFacts DEF ImportedWith
<1>2. ImportedWith(j, e)'
  BY <1>1 DEF ImportedWith
<1>3. session[j].status # "idle" => session'[j].status # "idle"
  BY <1>1, StatusStep DEF StatusMoves
<1>. QED BY <1>2, <1>3

LEMMA ImportStep ==
    ASSUME RoamingInv, ImportInv, [Next]_vars
    PROVE  ImportInv'
<1>0. Apart /\ suspends' = suspends
  BY TakeApart, WhoSteps
<1>1. ASSUME NEW j \in Roams, roam'[j].export # None
      PROVE  /\ roam'[j].at \in {"create", "replay", "restore", "activate", "done", "failed"}
             /\ roam'[j].at = "done" => ImportedWith(j, roam[j].export)' /\ session'[j].status # "idle"
             /\ roam'[j].at = "failed" => suspends
  <2>1. CASE roam[j].at = "new" /\ roam'[j].at = "create"
    BY <2>1
  <2>2. ASSUME roam[j].export # None, roam'[j].export = roam[j].export
        PROVE  /\ roam'[j].at \in {"create", "replay", "restore", "activate", "done", "failed"}
               /\ roam'[j].at = "done" => ImportedWith(j, roam[j].export)' /\ session'[j].status # "idle"
               /\ roam'[j].at = "failed" => suspends
    <3> DEFINE e == roam[j].export
    <3>1. /\ e \in Roams /\ roam[j].kind = "import"
          /\ roam[j].at \in {"create", "replay", "restore", "activate", "done", "failed"}
          /\ roam[j].at = "done" => ImportedWith(j, e) /\ session[j].status # "idle"
          /\ roam[j].at = "failed" => suspends
      BY <1>0, <2>2 DEF Apart, RoamOK, RoamRecords, OrNone, ImportInv
    <3>2. ASSUME ImportedWith(j, e) PROVE ImportedWith(j, roam[j].export)'
      <4>1. PICK x \in Roams : x = e
        BY <3>1
      <4>2. ImportedWith(j, x)'
        BY <3>2, <4>1, ImportsStay
      <4>. QED BY <2>2, <4>1, <4>2 DEF ImportedWith
    <3>3. roam[j].at = "activate" => ImportedWith(j, e)
      BY <1>0, <3>1, CopyFacts DEF Copying, UnderWay, ImportedWith
    <3>4. roam[j].at = "done" => session'[j].status # "idle"
      BY <3>1, ImportsStay
    <3> HIDE DEF e
    <3>5. CASE roam'[j] = roam[j]
      BY <3>1, <3>2, <3>4, <3>5
    <3>6. CASE roam'[j].at = "failed" /\ suspends
      BY <3>6
    <3>7. CASE roam[j].at = "activate" /\ roam'[j].at = "done" /\ session'[j].status = "active"
      BY <3>2, <3>3, <3>7
    <3>. QED BY <3>1, <3>5, <3>6, <3>7, RoamingMoveStep DEF RoamMoves
  <2>. QED BY <1>1, <2>1, <2>2, RoamingMoveStep DEF RoamMoves, Same
<1>2. ASSUME NEW e \in Roams, exports'[e] # None, exports'[e].consumed
      PROVE  \E j \in Roams : roam'[j].export = e
  <2>1. CASE exports[e] # None /\ exports[e].consumed
    <3>1. PICK j \in Roams : roam[j].export = e
      BY <2>1 DEF ImportInv
    <3>2. e # None
      BY IdFacts
    <3>3. roam[j].at # "new"
      BY <3>1, <3>2 DEF ImportInv
    <3>4. roam'[j].export = roam[j].export
      BY <3>3, RoamingMoveStep DEF RoamMoves, Same, Copies
    <3>. QED BY <3>1, <3>4
  <2>2. CASE \E j \in Roams : roam'[j].export = e
    BY <2>2
  <2>. QED BY <1>2, <2>1, <2>2, ExportStep DEF ExportMoves
<1>3. \A j \in Roams : roam'[j].export # None =>
           /\ roam'[j].at \in {"create", "replay", "restore", "activate", "done", "failed"}
           /\ roam'[j].at = "done" => ImportedWith(j, roam[j].export)' /\ session'[j].status # "idle"
           /\ roam'[j].at = "failed" => suspends'
  BY <1>0, <1>1
<1>. QED BY <1>2, <1>3 DEF ImportInv

-----------------------------------------------------------------------------
(* Handoffs.                                                               *)

LEMMA HandoffsStay ==
    ASSUME RoamingInv, [Next]_vars, NEW s \in Ids
    PROVE  /\ HandedOff(s) => HandedOff(s)'
           /\ LeftBy(s) # {} => LeftBy(s)' # {}
           /\ \A j \in Roams : roam[j].at = "suspend" /\ roam[j].source = s /\ roam'[j].at = "done"
                                   => HandedOff(s)'
<1>1. ASSUME NEW j \in Roams, session[j] # None
      PROVE  session'[j] # None /\ session'[j].origin = session[j].origin
  BY <1>1, NobodyVanishes, IdFacts
<1>2. ASSUME HandedOff(s) PROVE HandedOff(s)'
  <2>1. PICK j \in Roams : /\ session[j] # None /\ session[j].origin.kind = "handoff"
                           /\ session[j].origin.session = s /\ roam[j].at = "done"
    BY <1>2 DEF HandedOff
  <2>2. roam'[j].at = "done"
    BY <2>1, RoamingMoveStep DEF RoamMoves
  <2>. QED BY <1>1, <2>1, <2>2 DEF HandedOff
<1>3. ASSUME LeftBy(s) # {} PROVE LeftBy(s)' # {}
  BY <1>3, HandlerStep DEF LeftBy, HandlerMoves
<1>4. ASSUME NEW j \in Roams, roam[j].at = "suspend", roam[j].source = s, roam'[j].at = "done"
      PROVE  HandedOff(s)'
  <2>1. session[j] # None /\ session[j].origin.kind = "handoff" /\ session[j].origin.session = s
    BY <1>4, TakeApart, CopyFacts DEF Copying, UnderWay
  <2>. QED BY <1>1, <1>4, <2>1 DEF HandedOff
<1>. QED BY <1>2, <1>3, <1>4

LEMMA HandoffStep ==
    ASSUME RoamingInv, HandoffInv, [Next]_vars
    PROVE  HandoffInv'
<1>0. suspends' = suspends /\ surfaces' \subseteq Ids /\ \A s \in surfaces' : session'[s] # None
  BY WhoSteps, RoamingStep DEF RoamingInv, TypeOK, Placed
<1>1. ASSUME NEW s \in Ids, session'[s] # None, session'[s].status = "suspended"
      PROVE  HandedOff(s)' \/ LeftBy(s)' # {}
  <2>1. CASE session[s] # None /\ session[s].status = "suspended"
    BY <2>1, HandoffsStay DEF HandoffInv
  <2>2. CASE \E c \in Conns : handler'[c].at = "gone" /\ handler'[c].sid = s
    BY <2>2 DEF LeftBy
  <2>. QED BY <1>1, <2>1, <2>2, StatusStep, HandoffsStay DEF StatusMoves
(* With the in-memory stores nobody comes to a session that is being left. *)
<1>2. ASSUME ~suspends, NEW c \in Conns, handler'[c].at = "leaving"
      PROVE  handler'[c].sid \notin surfaces'
  <2>1. CASE handler'[c] = handler[c]
    <3>1. c \in MidSurface
      BY <1>2, <2>1 DEF MidSurface
    <3>2. surfaces' \subseteq surfaces
      BY <1>2, <2>1, <3>1, HandlerStep, RunsAlone DEF SurfacesMove
    <3>. QED BY <1>2, <2>1, <3>2 DEF HandoffInv
  <2>. QED BY <1>2, <2>1, HandlerStep DEF HandlerMoves
<1>3. ASSUME ~suspends, NEW s \in surfaces', session'[s].status = "suspended"
      PROVE  HandedOff(s)' \/ \E c \in Conns : handler'[c].at = "registered" /\ handler'[c].sid = s
  <2>0. s \in Ids /\ session'[s] # None
    BY <1>0
  <2>1. CASE s \notin surfaces
    BY <2>1, HandlerStep DEF SurfacesMove
  <2>2. CASE s \in surfaces /\ session[s].status = "suspended"
    <3>1. CASE HandedOff(s)
      BY <2>0, <3>1, HandoffsStay
    <3>2. ASSUME NEW c \in Conns, handler[c].at = "registered", handler[c].sid = s
          PROVE  handler'[c].at = "registered" /\ handler'[c].sid = s
      BY <1>3, <3>2, HandlerStep DEF HandlerMoves
    <3>. QED BY <1>3, <2>2, <3>1, <3>2 DEF HandoffInv
  <2>3. ASSUME NEW c \in Conns, handler[c].at = "leaving", handler[c].sid = s, UNCHANGED surfaces
        PROVE  FALSE
    BY <1>3, <2>3 DEF HandoffInv
  <2>. QED BY <1>3, <2>0, <2>1, <2>2, <2>3, StatusStep, HandoffsStay DEF StatusMoves
<1>. QED BY <1>0, <1>1, <1>2, <1>3 DEF HandoffInv

-----------------------------------------------------------------------------
(* The invariant, and what follows of it.                                  *)

LEMMA InitStory == Init => StoryInv
<1> SUFFICES ASSUME Init PROVE StoryInv
  OBVIOUS
<1> USE DEF Init, SessionsInit
<1>1. LineageIsTree /\ TokenInv
  BY IdFacts DEF LineageIsTree, TokenInv
<1>2. AnswersInv
  BY DEF AnswersInv, AnswersFollowQuestions, Holds
<1>3. SnapshotInv /\ ImportInv /\ HandoffInv
  BY DEF SnapshotInv, ImportInv, HandoffInv
<1>. QED BY <1>1, <1>2, <1>3 DEF StoryInv

LEMMA StoryInvariant == Spec => [](RoamingInv /\ StoryInv)
<1>1. Init => StoryInv
  BY InitStory
<1>2. RoamingInv /\ StoryInv /\ [Next]_vars => StoryInv'
  BY LineageStep, TokenStep, AnswersStep, SnapshotStep, ImportStep, HandoffStep DEF StoryInv
<1>. QED BY <1>1, <1>2, RoamingInvariant, PTL DEF Spec

(* Whatever is copied from what, lineage reports a family tree: a copy is  *)
(* born with its origin and has no children yet (sbp.py:441-457).          *)
THEOREM LineageStaysATree == Spec => []LineageIsTree
<1>1. StoryInv => LineageIsTree
  BY DEF StoryInv
<1>. QED BY <1>1, StoryInvariant, PTL

(* An answer is filed after its question, in the question's session and in *)
(* every copy of it, those that are being replayed and those whose replay  *)
(* broke included (completions.py:222, 295-301; sbp.py:208, 309, 376).     *)
THEOREM AnswersStayWithQuestions == Spec => []AnswersFollowQuestions
<1>1. StoryInv => AnswersFollowQuestions
  BY DEF StoryInv, AnswersInv
<1>. QED BY <1>1, StoryInvariant, PTL

(* With the in-memory stores a snapshot is a past of its own session: a    *)
(* handler reads history and snapshot with nobody in between               *)
(* (completions.py:304-310; sbp.py:117-118, 281-282, 359-360).             *)
THEOREM SnapshotsBelong == Spec => []SnapshotOfHistory
<1>1. StoryInv => SnapshotOfHistory
  BY DEF StoryInv, SnapshotInv, SnapshotOfHistory
<1>. QED BY <1>1, StoryInvariant, PTL

(* A token is marked as consumed when and only when a session was imported *)
(* with it and set active, an import is at it, or the import's stores      *)
(* failed it (sbp.py:182-225, 257).                                        *)
THEOREM ConsumptionMeansImport == Spec => []ConsumedIsImported
<1>1. RoamingInv /\ StoryInv => ConsumedIsImported
  <2> SUFFICES ASSUME RoamingInv, StoryInv, NEW e \in Roams, exports[e] # None
               PROVE  exports[e].consumed <=>
                      \E j \in Roams : /\ roam[j].export = e
                                       /\ \/ ImportedWith(j, e) /\ session[j].status # "idle"
                                          \/ j \in MidRoaming
                                          \/ suspends /\ roam[j].at = "failed"
    BY DEF ConsumedIsImported, Inspect
  <2>0. e # None
    BY IdFacts
  <2>1. ASSUME exports[e].consumed
        PROVE  \E j \in Roams : /\ roam[j].export = e
                                /\ \/ ImportedWith(j, e) /\ session[j].status # "idle"
                                   \/ j \in MidRoaming
                                   \/ suspends /\ roam[j].at = "failed"
    <3>1. PICK j \in Roams : roam[j].export = e
      BY <2>1 DEF StoryInv, ImportInv
    <3>. QED BY <2>0, <3>1 DEF StoryInv, ImportInv, MidRoaming
  <2>2. ASSUME NEW j \in Roams, roam[j].export = e PROVE exports[e].consumed
    BY <2>0, <2>2 DEF RoamingInv, SoleImporter
  <2>. QED BY <2>1, <2>2
<1>. QED BY <1>1, StoryInvariant, PTL

(* A session with a surface is left suspended only by a handoff or, with   *)
(* stores that suspend, by the late write of a connection of its own       *)
(* (sbp.py:334; sbp_ws.py:106-107, 178-180).                               *)
THEOREM OnlyHandoffsSuspendSurfaces == Spec => []SuspendedUnderSurface
<1>1. RoamingInv /\ StoryInv => SuspendedUnderSurface
  <2> SUFFICES ASSUME RoamingInv, StoryInv, NEW s \in surfaces, session[s].status = "suspended"
               PROVE  \/ HandedOff(s)
                      \/ IF suspends THEN LeftBy(s) # {} ELSE MidSurface # {}
    BY DEF SuspendedUnderSurface
  <2>1. s \in Ids /\ session[s] # None
    BY DEF RoamingInv, TypeOK, Placed
  <2>2. CASE suspends
    BY <2>1, <2>2 DEF StoryInv, HandoffInv
  <2>3. CASE ~suspends
    BY <2>3 DEF StoryInv, HandoffInv, MidSurface
  <2>. QED BY <2>2, <2>3 DEF RoamingInv, TypeOK
<1>. QED BY <1>1, StoryInvariant, PTL

(* With the in-memory stores only a request that forces a new session      *)
(* takes a token from the session it finds (completions.py:201-216).       *)
THEOREM TokensKeepTheirSessions == Spec => TokenKeepsSession
<1>1. RoamingInv /\ StoryInv /\ [Next]_vars =>
          [~suspends => \A t \in Tokens : byToken[t] \notin {None, byToken'[t]} =>
              \E r \in Requests : byToken'[t] = r /\ request[r].token = t /\ request[r].force]_vars
  BY TokenMoves DEF StoryInv
<1>. QED BY <1>1, StoryInvariant, PTL DEF Spec, TokenKeepsSession

(* With the in-memory stores a checkpoint replaces one of a shorter past   *)
(* (completions.py:296-312).                                               *)
THEOREM CheckpointsGoOn == Spec => CheckpointsAdvance
<1>1. RoamingInv /\ StoryInv /\ [Next]_vars =>
          [~suspends => \A s \in Ids : latest[s] # None => IsHistoryOf(latest[s], latest'[s])]_vars
  BY CheckpointMoves DEF StoryInv
<1>. QED BY <1>1, StoryInvariant, PTL DEF Spec, CheckpointsAdvance
=============================================================================
