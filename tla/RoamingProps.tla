---------------------------- MODULE RoamingProps ----------------------------
(***************************************************************************)
(* What is asked of sessions, their tokens and their copies.               *)
(***************************************************************************)
EXTENDS Roaming

OrNone(S) == {None} \cup S
Messages == [role : {"user", "assistant", "system"}, by : Ids]
Histories == Seq(Messages)
Kinds == {"export", "handoff", "fork", "import"}
Origins == [kind : Kinds, session : Ids, export : OrNone(Roams), point : Nat]
SessionRecords == [token : Tokens, status : {"idle", "active", "suspended"}, origin : OrNone(Origins)]
RequestRecords ==
    [at : {"new", "resume", "lookup", "create", "wake", "speak", "llm", "answered", "listed",
           "done", "failed"},
     token : OrNone(Tokens), force : BOOLEAN, speaks : BOOLEAN, sid : OrNone(Ids), listed : Histories]
RoamRecords ==
    [at : {"new", "snapshot", "record", "create", "replay", "restore", "activate", "suspend",
           "done", "failed", "refused"},
     kind : OrNone(Kinds), source : OrNone(Ids), export : OrNone(Roams),
     history : Histories, snapshot : OrNone(Histories), checked : BOOLEAN]
HandlerRecords ==
    [at : {"new", "registered", "serving", "leaving", "gone", "failed"}, sid : OrNone(Ids)]
Exports ==
    [source : Ids, history : Histories, snapshot : OrNone(Histories), hashed : BOOLEAN, consumed : BOOLEAN]

(* None is no record of the stores, no origin and no kind of roaming. *)
ASSUME NoneAssumption ==
    None \notin SessionRecords /\ None \notin Origins /\ None \notin Exports /\ None \notin Kinds

TypeOK ==
    /\ suspends \in BOOLEAN
    /\ session \in [Ids -> OrNone(SessionRecords)]
    /\ byToken \in [Tokens -> OrNone(Ids)]
    /\ messages \in [Ids -> Histories]
    /\ latest \in [Ids -> OrNone(Histories)]
    /\ surfaces \subseteq Ids
    /\ handler \in [Conns -> HandlerRecords]
    /\ \A c \in Conns : handler[c].at # "new" => handler[c].sid \in Ids
    /\ calls \in Nat
    /\ request \in [Requests -> RequestRecords]
    /\ \A r \in Requests :
           /\ request[r].at = "lookup" => request[r].token # None
           /\ request[r].at \in {"wake", "speak", "llm", "answered", "listed", "done"} =>
                  request[r].sid \in Ids
    /\ roam \in [Roams -> RoamRecords]
    /\ exports \in [Roams -> OrNone(Exports)]

-----------------------------------------------------------------------------
(* Tokens.                                                                 *)

IsHistoryOf(x, y) == Len(x) <= Len(y) /\ \A i \in 1 .. Len(x) : x[i] = y[i]

(* A token finds only a session that was created with it, and every        *)
(* session's token finds some session of that token: no create, by         *)
(* whatever request, leaves the index pointing astray                      *)
(* (memory.py:47-48, 55-57).                                               *)
TokenFindsOwner ==
    /\ \A t \in Tokens : byToken[t] # None =>
           session[byToken[t]] # None /\ session[byToken[t]].token = t
    /\ \A s \in Ids : session[s] # None => byToken[session[s].token] # None

(* With the in-memory stores a token that finds a session is made to find  *)
(* another only by a request that forces a new session with that token,    *)
(* although others look tokens up, create and copy sessions meanwhile      *)
(* (completions.py:201-216; memory.py:48).                                 *)
TokenKeepsSession ==
    [][~suspends => \A t \in Tokens : byToken[t] \notin {None, byToken'[t]} =>
           \E r \in Requests : byToken'[t] = r /\ request[r].token = t /\ request[r].force]_vars

-----------------------------------------------------------------------------
(* Histories and snapshots.                                                *)

(* No history has an answer without the question it answers before it: an  *)
(* answer goes where its question went, though the token may have moved to *)
(* another session while the LLM thought, and copies of a history are cut  *)
(* only at its end (completions.py:222, 295-301; sbp.py:208, 309, 376).    *)
AnswersFollowQuestions ==
    \A r \in Requests, s, q \in Ids : LET asked == [role |-> "user", by |-> r]
                                         answer == [role |-> "assistant", by |-> r]
        IN  \A i \in DOMAIN messages[s], n \in DOMAIN messages[q] :
                messages[s][i] = answer /\ messages[q][n] = asked
                    => \E k \in 1 .. i - 1 : messages[s][k] = asked

(* A copy and its source share the history up to the point of the copy,    *)
(* whatever happens to either afterwards and while the copy is made, and   *)
(* the copy goes on with its provenance; the point is what lineage reports *)
(* of a fork.  A replay that breaks leaves a part of it: then the session  *)
(* is idle for ever, and no client knows of it                             *)
(* (sbp.py:200-225, 302-333, 365-395, 441-447).                            *)
Whole(s) == session[s].origin.point < Len(messages[s])

CopiesAgree ==
    \A s \in Ids : session[s] # None /\ session[s].origin # None =>
        LET from == session[s].origin IN
        /\ from.point <= Len(messages[from.session])
        /\ \A i \in DOMAIN messages[s] :
               /\ i <= from.point => messages[s][i] = messages[from.session][i]
               /\ i = from.point + 1 => messages[s][i] = Provenance(s)
        /\ session[s].status # "idle" \/ s \in Known => Whole(s)

(* Whatever sessions are copied from one another, lineage reports a family *)
(* tree: every group of sessions has one whose reported parent is not in   *)
(* the group, so that who follows the reports from a session gets to its   *)
(* first ancestor (sbp.py:441-457).                                        *)
Parents(s) == Lineage(s).incoming \cup {from.session : from \in Lineage(s).origin}

LineageIsTree ==
    \A group \in SUBSET {s \in Ids : session[s] # None} :
        group # {} => \E s \in group : Parents(s) \cap group = {}

(* With the in-memory stores the latest snapshot of a session is of a past *)
(* of that very session, copies included: a history and a snapshot that    *)
(* were read one after the other belong together (completions.py:304-310;  *)
(* sbp.py:117-118, 281-282, 359-360).                                      *)
SnapshotOfHistory ==
    ~suspends => \A s \in Ids : latest[s] # None => IsHistoryOf(latest[s], messages[s])

(* With the in-memory stores checkpoints never go back, in whatever order  *)
(* the LLM answers concurrent requests of a session                        *)
(* (completions.py:296-312).                                               *)
CheckpointsAdvance ==
    [][~suspends => \A s \in Ids : latest[s] # None => IsHistoryOf(latest[s], latest'[s])]_vars

-----------------------------------------------------------------------------
(* Roaming.                                                                *)

(* An import that goes on has checked its bundle against its hash: the     *)
(* hash is popped from the stored bundle, and only that a token is         *)
(* consumed once keeps a second import from skipping the check             *)
(* (sbp.py:191-193; memory.py:148-154).                                    *)
IntegrityChecked ==
    \A j \in Roams : roam[j].kind = "import" /\ session[j] # None => roam[j].checked

(* A token is marked as consumed when and only when a session that is      *)
(* active, or was, was imported with it, or an import is at it: what       *)
(* inspect says is so.  Only a store that fails leaves a token consumed    *)
(* for nothing, and no order of calls does (sbp.py:182-225, 257).          *)
ImportedWith(s, e) ==
    /\ session[s] # None /\ session[s].origin # None
    /\ session[s].origin.kind = "import" /\ session[s].origin.export = e

ConsumedIsImported ==
    \A e \in Roams : exports[e] # None =>
        (Inspect(e).consumed <=>
         \E j \in Roams : /\ roam[j].export = e
                          /\ \/ ImportedWith(j, e) /\ session[j].status # "idle"
                             \/ j \in MidRoaming
                             \/ suspends /\ roam[j].at = "failed")

(* With the in-memory stores a session with a surface is suspended only by *)
(* a handoff, which does not ask for surfaces; requests, the ends of other *)
(* connections of the session and overlaps do not do it.  With stores that *)
(* suspend a connection of that very session may do it too, whose last     *)
(* write comes after the surface was registered, or was not undone yet     *)
(* (sbp.py:334; completions.py:204-215; sbp_ws.py:106-107, 178-180).       *)
HandedOff(s) ==
    \E j \in Roams : /\ session[j] # None /\ session[j].origin.kind = "handoff"
                     /\ session[j].origin.session = s /\ roam[j].at = "done"
LeftBy(s) == {c \in Conns : handler[c].at = "gone" /\ handler[c].sid = s}

SuspendedUnderSurface ==
    \A s \in surfaces : session[s].status = "suspended" =>
        \/ HandedOff(s)
        \/ IF suspends THEN LeftBy(s) # {} ELSE MidSurface # {}

(* The tokens implement single use, with allow_reuse or without: what      *)
(* importers make of their bundles, and where they break, included.        *)
Redeemed == {p \in Roams \X Roams : roam[p[2]].export = p[1]}
Imported == {p \in Redeemed : session[p[2]] # None}

Tickets == INSTANCE SingleUse WITH
    Exports <- Roams, Importers <- Roams,
    issued <- {e \in Roams : exports[e] # None}, redeemed <- Redeemed, restored <- Imported

ImplementsSingleUse == Tickets!Spec

-----------------------------------------------------------------------------
(* What the proofs need besides.                                           *)

(* The ids that are still to be minted name no session. *)
Fresh ==
    /\ \A r \in Requests : request[r].at \in {"new", "resume", "lookup", "create"} => session[r] = None
    /\ \A j \in Roams :
           roam[j].at \in {"new", "snapshot", "record", "create", "refused"} => session[j] = None

(* Whatever a handler, a surface, an export or a copy refers to exists. *)
Placed ==
    /\ \A r \in Requests :
           request[r].at \in {"wake", "speak", "llm", "answered", "listed", "done"} =>
               session[request[r].sid] # None
    /\ \A s \in surfaces : session[s] # None
    /\ \A c \in Conns : handler[c].at # "new" => session[handler[c].sid] # None
    /\ \A j \in Roams :
           /\ j \in MidRoaming => roam[j].source # None /\ session[roam[j].source] # None
           /\ roam[j].at = "new" <=> roam[j].kind = None
           /\ roam[j].at \in {"new", "snapshot", "record"} => exports[j] = None
           /\ roam[j].at = "done" /\ roam[j].kind = "export" => exports[j] # None
           /\ roam[j].at = "snapshot" => roam[j].kind # "import"
           /\ roam[j].at = "record" => roam[j].kind \in {"export", "handoff"}
           /\ roam[j].at = "create" => roam[j].kind # "export"
           /\ roam[j].at = "create" /\ roam[j].kind = "import" => roam[j].export # None
           /\ roam[j].export # None => roam[j].kind = "import" /\ exports[roam[j].export] # None
    /\ \A e \in Roams : exports[e] # None => session[exports[e].source] # None
    /\ \A s \in Ids : session[s] # None /\ session[s].origin # None =>
                           s \in Roams /\ session[session[s].origin.session] # None

(* A copy that was created knows what it is a copy of, what is there and   *)
(* what is still to come are the history it copies, and when its           *)
(* provenance was appended it is whole.                                    *)
Copying == {j \in Roams : roam[j].at \in {"replay", "restore", "activate", "suspend"}}

UnderWay(j) ==
    /\ j \in Copying =>
           /\ session[j] # None /\ session[j].origin # None
           /\ session[j].origin.kind = roam[j].kind /\ roam[j].kind # "export"
           /\ session[j].origin.session = roam[j].source
           /\ roam[j].kind = "import" => session[j].origin.export = roam[j].export
    /\ roam[j].at = "replay" =>
           /\ Len(messages[j]) + Len(roam[j].history) = session[j].origin.point
           /\ IsHistoryOf(messages[j] \o roam[j].history, messages[roam[j].source])
    /\ j \in Copying /\ roam[j].at # "replay" => Whole(j)
    /\ roam[j].at = "done" /\ session[j] # None => session[j].origin # None /\ Whole(j)
    /\ roam[j].at = "restore" => roam[j].snapshot # None
    /\ roam[j].at = "suspend" => roam[j].kind = "handoff"

CopiesUnderWay == \A j \in Roams : UnderWay(j)

(* Nobody gets at a copy before it is done: not by its id, nor by its      *)
(* token, which is its own.                                                *)
Told(x) == x \in Roams => roam[x].at = "done"

NobodyIsAhead ==
    /\ \A s \in Ids : session[s] # None =>
           /\ s \in Roams => session[s].token = s
           /\ session[s].token # s => Told(session[s].token)
    /\ \A r \in Requests : Told(request[r].token) /\ Told(request[r].sid)
    /\ \A c \in Conns : Told(handler[c].sid)
    /\ \A j \in Roams : Told(roam[j].source)
    /\ \A e \in Roams : exports[e] # None => Told(exports[e].source)

(* Histories that wait to be copied are still the beginning of their       *)
(* source's.                                                               *)
HistoriesHold ==
    /\ \A j \in Roams : roam[j].at \in {"snapshot", "record", "create"} =>
                             IsHistoryOf(roam[j].history, messages[roam[j].source])
    /\ \A e \in Roams : exports[e] # None =>
                             IsHistoryOf(exports[e].history, messages[exports[e].source])

(* Nobody shares an import, and its bundle has its hash until it is        *)
(* checked.                                                                *)
SoleImporter ==
    \A j \in Roams : roam[j].export # None =>
        /\ exports[roam[j].export].consumed
        /\ roam[j].at = "create" => exports[roam[j].export].hashed
        /\ \A k \in Roams : roam[k].export = roam[j].export => k = j
HashedUntilImported == \A e \in Roams : exports[e] # None /\ ~exports[e].consumed => exports[e].hashed

RoamingInv ==
    /\ TypeOK /\ Fresh /\ Placed /\ TokenFindsOwner
    /\ HistoriesHold /\ CopiesUnderWay /\ NobodyIsAhead /\ CopiesAgree
    /\ SoleImporter /\ HashedUntilImported /\ IntegrityChecked

(* The strengthening of TokenKeepsSession: a minted token has its session, *)
(* and a request without force creates only what it did not find.          *)
TokenInv ==
    /\ \A s \in Ids : session[s] # None /\ session[s].token \in Ids => session[session[s].token] # None
    /\ \A r \in Requests :
           /\ request[r].token \in Ids => session[request[r].token] # None
           /\ ~suspends /\ request[r].at = "create" /\ request[r].token # None /\ ~request[r].force
                  => byToken[request[r].token] = None

(* The strengthening of AnswersFollowQuestions: a request that has not     *)
(* spoken has said nothing, and one that thinks has asked, if at all, in   *)
(* its own session.                                                        *)
Holds(s, role, r) == \E i \in DOMAIN messages[s] : messages[s][i] = [role |-> role, by |-> r]

AnswersInv ==
    /\ \A r \in Requests, s \in Ids :
           /\ request[r].at \in {"new", "resume", "lookup", "create", "wake", "speak"} =>
                  ~Holds(s, "user", r) /\ ~Holds(s, "assistant", r)
           /\ request[r].at = "llm" /\ Holds(s, "user", r) => Holds(request[r].sid, "user", r)
    /\ AnswersFollowQuestions

(* The strengthening of SnapshotOfHistory and CheckpointsAdvance: with the *)
(* in-memory stores, what a handler listed is the history still, snapshots *)
(* on their way belong to the history beside them, and a copy that is not  *)
(* active has none yet.                                                    *)
SnapshotInv ==
    /\ \A s \in Ids : latest[s] # None => session[s] # None
    /\ ~suspends =>
        /\ \A s \in Ids : latest[s] # None => IsHistoryOf(latest[s], messages[s])
        /\ \A r \in Requests : request[r].at = "listed" => request[r].listed = messages[request[r].sid]
        /\ \A e \in Roams : exports[e] # None /\ exports[e].snapshot # None =>
               IsHistoryOf(exports[e].snapshot, exports[e].history)
        /\ \A j \in Roams :
               /\ roam[j].at = "snapshot" => roam[j].history = messages[roam[j].source]
               /\ roam[j].at \in {"record", "create"} /\ roam[j].snapshot # None =>
                      IsHistoryOf(roam[j].snapshot, roam[j].history)
               /\ roam[j].at = "replay" /\ roam[j].snapshot # None =>
                      IsHistoryOf(roam[j].snapshot, messages[j] \o roam[j].history)
               /\ roam[j].at = "restore" => IsHistoryOf(roam[j].snapshot, messages[j])
               /\ roam[j].at \in {"replay", "restore"} => latest[j] = None

(* The strengthening of ConsumedIsImported: the importer of a consumed     *)
(* token is at it, has failed or has made its session active.              *)
ImportInv ==
    /\ \A j \in Roams : roam[j].export # None =>
           /\ roam[j].at \in {"create", "replay", "restore", "activate", "done", "failed"}
           /\ roam[j].at = "done" => ImportedWith(j, roam[j].export) /\ session[j].status # "idle"
           /\ roam[j].at = "failed" => suspends
    /\ \A e \in Roams : exports[e] # None /\ exports[e].consumed =>
           \E j \in Roams : roam[j].export = e

(* The strengthening of SuspendedUnderSurface: a session is suspended by a *)
(* handoff or by a connection of its own, and with the in-memory stores    *)
(* only an instant before another's registration sets it active.           *)
HandoffInv ==
    /\ \A s \in Ids : session[s] # None /\ session[s].status = "suspended" =>
           HandedOff(s) \/ LeftBy(s) # {}
    /\ ~suspends =>
        /\ \A c \in Conns : handler[c].at = "leaving" => handler[c].sid \notin surfaces
        /\ \A s \in surfaces : session[s].status = "suspended" =>
               \/ HandedOff(s)
               \/ \E c \in Conns : handler[c].at = "registered" /\ handler[c].sid = s

StoryInv == LineageIsTree /\ TokenInv /\ AnswersInv /\ SnapshotInv /\ ImportInv /\ HandoffInv
=============================================================================
