------------------------------- MODULE Roaming -------------------------------
(***************************************************************************)
(* The roaming requests (routers/sbp.py) over the stores of Sessions and   *)
(* the roaming token store: export, import, handoff and fork, and what     *)
(* inspect, the list of exports and the lineage report.                    *)
(*                                                                         *)
(* A token is its export.  Its signature is taken as verified: clients     *)
(* offer tokens they were given, and only export gives any.  Time passes   *)
(* between requests, so that a token may be past its exp at any import.    *)
(***************************************************************************)
EXTENDS Sessions

VARIABLE exports (* _exports: the bundle, its source, whether its hash is in
                    it and whether it was consumed; or None                  *)

vars == <<suspends, stores, registry, calls, request, roam, exports>>

-----------------------------------------------------------------------------
(* What the read-only endpoints say.                                       *)

Inspect(e) == [session |-> exports[e].source, consumed |-> exports[e].consumed]
ListExports(s) == {e \in Roams : exports[e] # None /\ exports[e].source = s}

(* Outgoing handoffs and forks are always reported as none. *)
Lineage(s) ==
    LET from == session[s].origin IN
    [exports |-> ListExports(s), outgoing |-> {}, forks |-> {},
     incoming |-> IF from # None /\ from.kind = "handoff" THEN {from.session} ELSE {},
     origin |-> IF from # None /\ from.kind = "fork" THEN {[session |-> from.session, point |-> from.point]}
                ELSE {}]

-----------------------------------------------------------------------------
(* Roaming request j.  What it has read is forgotten with its last use.    *)

RoamTo(j, at) == roam' = [roam EXCEPT ![j].at = at]
Ended(j, at) == roam' = [roam EXCEPT ![j] = [@ EXCEPT !.at = at, !.source = None,
                                                      !.history = <<>>, !.snapshot = None]]

(* The session is got and its messages listed. *)
Begin(j, kind, s) ==
    /\ roam[j].at = "new" /\ Come(1)
    /\ MayRun(j)
    /\ s \in Known
    /\ roam' = [roam EXCEPT ![j] = [@ EXCEPT !.at = "snapshot", !.kind = kind,
                                             !.source = s, !.history = messages[s]]]
    /\ UNCHANGED <<suspends, stores, registry, request, exports>>

Export(j, s) == Begin(j, "export", s)
Handoff(j, s) == Begin(j, "handoff", s)
Fork(j, s) == Begin(j, "fork", s)

(* The latest snapshot is read.  A fork records nothing. *)
ReadSnapshot(j) ==
    /\ roam[j].at = "snapshot"
    /\ MayRun(j)
    /\ roam' = [roam EXCEPT ![j] = [@ EXCEPT !.snapshot = latest[roam[j].source],
                   !.at = IF roam[j].kind = "fork" THEN "create" ELSE "record"]]
    /\ UNCHANGED <<suspends, stores, registry, calls, request, exports>>

Bundle(j) == [source |-> roam[j].source, history |-> roam[j].history,
              snapshot |-> roam[j].snapshot, hashed |-> TRUE, consumed |-> FALSE]

(* The bundle is recorded.  An export ends with it; a handoff goes on with *)
(* its copy, and tells nobody its token.                                   *)
RecordExport(j) ==
    /\ roam[j].at = "record"
    /\ MayRun(j)
    /\ exports' = [exports EXCEPT ![j] = Bundle(j)]
    /\ IF roam[j].kind = "export" THEN Ended(j, "done") ELSE RoamTo(j, "create")
    /\ UNCHANGED <<suspends, stores, registry, calls, request>>

Unbundle(j, e) == roam' = [roam EXCEPT ![j] = [@ EXCEPT
    !.kind = "import", !.at = "create", !.source = exports[e].source, !.export = e,
    !.history = exports[e].history, !.snapshot = exports[e].snapshot]]

(* Mutant: allow_reuse takes the bundle of a token that was consumed. *)
ConsumeAgain(j, e) ==
    /\ exports' = [exports EXCEPT ![e].consumed = TRUE]
    /\ Unbundle(j, e)

(* Mutant: whoever gets the bundle is to mark it. *)
ConsumeLater(j, e) ==
    /\ ~exports[e].consumed
    /\ UNCHANGED exports
    /\ Unbundle(j, e)

(* The token is marked and its bundle handed out in one step, to one. *)
Consume(j, e) ==
    /\ ~exports[e].consumed
    /\ exports' = [exports EXCEPT ![e].consumed = TRUE]
    /\ Unbundle(j, e)

(* A token past its exp is refused, and one that was consumed is gone.     *)
(* allow_reuse asks whether the export exists and changes nothing else.    *)
Import(j, e) ==
    /\ roam[j].at = "new" /\ Come(1)
    /\ MayRun(j)
    /\ roam[e].kind = "export" /\ roam[e].at = "done"
    /\ \/ Consume(j, e)
       \/ roam' = [roam EXCEPT ![j] = [@ EXCEPT !.kind = "import", !.at = "refused"]] /\ UNCHANGED exports
    /\ UNCHANGED <<suspends, stores, registry, request>>

(* Mutant: the copy is entered as its own origin. *)
OriginItself(j) == [kind |-> roam[j].kind, session |-> j, export |-> roam[j].export,
                    point |-> Len(roam[j].history)]

(* The metadata of the copy. *)
Origin(j) == [kind |-> roam[j].kind, session |-> roam[j].source,
              export |-> IF roam[j].kind = "handoff" THEN j ELSE roam[j].export,
              point |-> Len(roam[j].history)]
Provenance(j) == [role |-> "system", by |-> j]

(* Mutant: the copy takes over the token of its source. *)
CopyWithToken(j) == Create(j, session[roam[j].source].token, Origin(j))

(* The copy has a token of its own. *)
Copy(j) == Create(j, j, Origin(j))

(* An import first checks the bundle against its hash, which it takes out  *)
(* of it: out of the stored bundle, where the store hands out its own.     *)
Restore(j) ==
    /\ roam[j].at = "create" /\ roam[j].kind = "import"
    /\ MayRun(j)
    /\ Copy(j)
    /\ roam' = [roam EXCEPT ![j] = [@ EXCEPT !.at = "replay",
                                             !.checked = exports[roam[j].export].hashed]]
    /\ exports' = [exports EXCEPT ![roam[j].export].hashed = suspends]
    /\ UNCHANGED <<suspends, latest, registry, calls, request>>

(* A handoff and a fork copy what they listed themselves. *)
Branch(j) ==
    /\ roam[j].at = "create" /\ roam[j].kind \in {"handoff", "fork"}
    /\ MayRun(j)
    /\ Copy(j)
    /\ RoamTo(j, "replay")
    /\ UNCHANGED <<suspends, latest, registry, calls, request, exports>>

(* The history is appended message by message. *)
Replay(j) ==
    /\ roam[j].at = "replay" /\ roam[j].history # <<>>
    /\ MayRun(j)
    /\ messages' = Said(j, Head(roam[j].history))
    /\ roam' = [roam EXCEPT ![j].history = Tail(@)]
    /\ UNCHANGED <<suspends, session, byToken, latest, registry, calls, request, exports>>

(* A message that says where it is from follows. *)
Introduce(j) ==
    /\ roam[j].at = "replay" /\ roam[j].history = <<>>
    /\ MayRun(j)
    /\ messages' = Said(j, Provenance(j))
    /\ RoamTo(j, IF roam[j].snapshot # None THEN "restore" ELSE "activate")
    /\ UNCHANGED <<suspends, session, byToken, latest, registry, calls, request, exports>>

WriteSnapshot(j) ==
    /\ roam[j].at = "restore"
    /\ MayRun(j)
    /\ latest' = [latest EXCEPT ![j] = roam[j].snapshot]
    /\ RoamTo(j, "activate")
    /\ UNCHANGED <<suspends, session, byToken, messages, registry, calls, request, exports>>

(* The copy is active.  With that all but a handoff end. *)
Activate(j) ==
    /\ roam[j].at = "activate"
    /\ MayRun(j)
    /\ session' = Update(j, "active")
    /\ IF roam[j].kind = "handoff" THEN RoamTo(j, "suspend") ELSE Ended(j, "done")
    /\ UNCHANGED <<suspends, byToken, messages, latest, registry, calls, request, exports>>

(* A handoff ends by suspending the source, whoever is attached to it. *)
SuspendSource(j) ==
    /\ roam[j].at = "suspend"
    /\ MayRun(j)
    /\ session' = Update(roam[j].source, "suspended")
    /\ Ended(j, "done")
    /\ UNCHANGED <<suspends, byToken, messages, latest, registry, calls, request, exports>>

(* A call of a store that does I/O raises, or the server dies in it: what  *)
(* was written until then stays, and nobody is told of it.                 *)
Break(j) ==
    /\ suspends
    /\ j \in MidRoaming
    /\ Ended(j, "failed")
    /\ UNCHANGED <<suspends, stores, registry, calls, request, exports>>

-----------------------------------------------------------------------------
Init ==
    /\ SessionsInit
    /\ roam = [j \in Roams |-> [at |-> "new", kind |-> None, source |-> None, export |-> None,
                                history |-> <<>>, snapshot |-> None, checked |-> FALSE]]
    /\ exports = [e \in Roams |-> None]

RoamStep(j) ==
    \/ ReadSnapshot(j) \/ RecordExport(j)
    \/ Restore(j) \/ Branch(j) \/ Replay(j) \/ Introduce(j)
    \/ WriteSnapshot(j) \/ Activate(j) \/ SuspendSource(j)

Next ==
    \/ \E r \in Requests : Completion(r) /\ UNCHANGED exports
    \/ \E c \in Conns : Surface(c) /\ UNCHANGED exports
    \/ \E s \in Ids : Unregister(s) /\ UNCHANGED exports
    \/ \E j \in Roams : \/ \E s \in Ids : Export(j, s) \/ Handoff(j, s) \/ Fork(j, s)
                        \/ \E e \in Roams : Import(j, e)
                        \/ RoamStep(j) \/ Break(j)

Spec == Init /\ [][Next]_vars
=============================================================================
