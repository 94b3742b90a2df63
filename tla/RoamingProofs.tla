---------------------------- MODULE RoamingProofs ----------------------------
(***************************************************************************)
(* RoamingInv is an inductive invariant of Roaming, and every step of      *)
(* Roaming is a step of SingleUse or a stutter: for any requests, tokens   *)
(* and checkpoints, with stores that suspend and fail and with those that  *)
(* do not.                                                                 *)
(***************************************************************************)
EXTENDS RoamingProps, TLAPS

LEMMA IdFacts == /\ Ids = Requests \cup Roams /\ Requests \cap Roams = {}
                 /\ Ids \subseteq Tokens /\ Names \subseteq Tokens /\ None \notin Tokens
                 /\ Names \cap Ids = {} /\ Conns \cap Ids = {}
BY SessionsAssumption DEF Ids, Tokens

-----------------------------------------------------------------------------
(* Histories.                                                              *)

LEMMA NoHistory == <<>> \in Histories /\ \A x \in Histories : IsHistoryOf(<<>>, x)
BY DEF IsHistoryOf, Histories

LEMMA HistoryIsOfItself == ASSUME NEW x \in Histories PROVE IsHistoryOf(x, x)
BY DEF IsHistoryOf, Histories

LEMMA HistoryGrows ==
    ASSUME NEW x \in Histories, NEW y \in Histories, NEW z \in Histories,
           IsHistoryOf(x, y), IsHistoryOf(y, z)
    PROVE  IsHistoryOf(x, z)
BY DEF IsHistoryOf, Histories

LEMMA HistoryOfAppend ==
    ASSUME NEW x \in Histories, NEW m \in Messages
    PROVE  /\ Append(x, m) \in Histories /\ IsHistoryOf(x, Append(x, m))
           /\ Len(Append(x, m)) = Len(x) + 1 /\ Append(x, m)[Len(x) + 1] = m
           /\ \A i \in 1 .. Len(x) : Append(x, m)[i] = x[i]
BY DEF IsHistoryOf, Histories

(* A history is appended to another message by message.                    *)
LEMMA HistoryInParts ==
    ASSUME NEW x \in Histories, NEW y \in Histories
    PROVE  /\ x \o y \in Histories /\ Len(x \o y) = Len(x) + Len(y)
           /\ <<>> \o y = y /\ x \o <<>> = x
           /\ IsHistoryOf(x, x \o y)
           /\ y # <<>> => /\ Head(y) \in Messages /\ Tail(y) \in Histories
                          /\ Len(Tail(y)) = Len(y) - 1
                          /\ (x \o y)[Len(x) + 1] = Head(y)
                          /\ Append(x, Head(y)) \o Tail(y) = x \o y
<1>1. x \o y \in Histories /\ Len(x \o y) = Len(x) + Len(y)
  BY DEF Histories
<1>2. <<>> \o y = y /\ x \o <<>> = x
  BY DEF Histories
<1>3. IsHistoryOf(x, x \o y)
  BY DEF Histories, IsHistoryOf
<1>4. ASSUME y # <<>>
      PROVE  /\ Head(y) \in Messages /\ Tail(y) \in Histories
             /\ Len(Tail(y)) = Len(y) - 1
             /\ (x \o y)[Len(x) + 1] = Head(y)
             /\ Append(x, Head(y)) \o Tail(y) = x \o y
  BY <1>4 DEF Histories
<1>. QED BY <1>1, <1>2, <1>3, <1>4

-----------------------------------------------------------------------------
(* RoamingInv, taken apart by whom it is about.                            *)

RequestOK(r) ==
    LET q == request[r] IN
    /\ q \in RequestRecords
    /\ q.at \in {"new", "resume", "lookup", "create"} => session[r] = None
    /\ q.at = "lookup" => q.token # None
    /\ q.at \in {"wake", "speak", "llm", "answered", "listed", "done"} =>
           q.sid \in Ids /\ session[q.sid] # None
    /\ Told(q.token) /\ Told(q.sid)

HandlerOK(c) ==
    /\ handler[c] \in HandlerRecords
    /\ handler[c].at # "new" => handler[c].sid \in Ids /\ session[handler[c].sid] # None
    /\ Told(handler[c].sid)

RoamOK(j) ==
    LET q == roam[j] IN
    /\ q \in RoamRecords
    /\ q.at \in {"new", "snapshot", "record", "create", "refused"} => session[j] = None
    /\ j \in MidRoaming => q.source \in Ids /\ session[q.source] # None
    /\ q.at = "new" <=> q.kind = None
    /\ q.at \in {"new", "snapshot", "record"} => exports[j] = None
    /\ q.at = "done" /\ q.kind = "export" => exports[j] # None
    /\ q.at = "snapshot" => q.kind # "import"
    /\ q.at = "record" => q.kind \in {"export", "handoff"}
    /\ q.at = "create" => q.kind # "export"
    /\ q.at = "create" /\ q.kind = "import" => q.export # None
    /\ q.export # None => q.kind = "import" /\ exports[q.export] # None
    /\ q.at \in {"snapshot", "record", "create"} => IsHistoryOf(q.history, messages[q.source])
    /\ UnderWay(j)
    /\ Told(q.source)
    /\ q.kind = "import" /\ session[j] # None => q.checked

ExportOK(e) ==
    /\ exports[e] \in OrNone(Exports)
    /\ exports[e] # None =>
           /\ exports[e].source \in Ids /\ session[exports[e].source] # None
           /\ IsHistoryOf(exports[e].history, messages[exports[e].source])
           /\ Told(exports[e].source)

(* What CopiesAgree asks of s, but for what s being known asks. *)
SessionOK(s) ==
    session[s] # None =>
        /\ s \in Roams => session[s].token = s
        /\ session[s].token # s => Told(session[s].token)
        /\ session[s].origin # None =>
               LET from == session[s].origin IN
               /\ s \in Roams /\ session[from.session] # None
               /\ from.point <= Len(messages[from.session])
               /\ \A i \in DOMAIN messages[s] :
                      /\ i <= from.point => messages[s][i] = messages[from.session][i]
                      /\ i = from.point + 1 => messages[s][i] = Provenance(s)
               /\ session[s].status # "idle" => Whole(s)

IndexOK == TokenFindsOwner /\ SoleImporter /\ HashedUntilImported

StateOK ==
    /\ suspends \in BOOLEAN /\ calls \in Nat
    /\ session \in [Ids -> OrNone(SessionRecords)]
    /\ byToken \in [Tokens -> OrNone(Ids)]
    /\ messages \in [Ids -> Histories]
    /\ latest \in [Ids -> OrNone(Histories)]
    /\ \A s \in surfaces : s \in Ids /\ session[s] # None
    /\ request = [r \in Requests |-> request[r]] /\ handler = [c \in Conns |-> handler[c]]
    /\ roam = [j \in Roams |-> roam[j]] /\ exports = [e \in Roams |-> exports[e]]

Apart ==
    /\ StateOK /\ IndexOK
    /\ \A r \in Requests : RequestOK(r)
    /\ \A c \in Conns : HandlerOK(c)
    /\ \A j \in Roams : RoamOK(j)
    /\ \A e \in Roams : ExportOK(e)
    /\ \A s \in Ids : SessionOK(s)

LEMMA TakeApart == RoamingInv => Apart
<1> SUFFICES ASSUME RoamingInv PROVE Apart
  OBVIOUS
<1>1. TypeOK /\ Fresh /\ Placed /\ HistoriesHold /\ CopiesUnderWay /\ NobodyIsAhead
  BY DEF RoamingInv
<1>2. StateOK /\ IndexOK
  BY <1>1 DEF RoamingInv, TypeOK, Placed, StateOK, IndexOK
<1>3. ASSUME NEW r \in Requests PROVE RequestOK(r)
  BY <1>1 DEF TypeOK, Fresh, Placed, NobodyIsAhead, RequestOK
<1>4. ASSUME NEW c \in Conns PROVE HandlerOK(c)
  BY <1>1 DEF TypeOK, Placed, NobodyIsAhead, HandlerOK
<1>5. ASSUME NEW j \in Roams PROVE RoamOK(j)
  <2>1. roam[j] \in RoamRecords /\ (roam[j].source # None => roam[j].source \in Ids)
    BY <1>1 DEF TypeOK, OrNone, RoamRecords
  <2>. QED BY <1>1, <2>1 DEF Fresh, Placed, HistoriesHold, CopiesUnderWay, NobodyIsAhead,
                             RoamOK, RoamingInv, IntegrityChecked
<1>6. ASSUME NEW e \in Roams PROVE ExportOK(e)
  <2>1. exports[e] # None => exports[e].source \in Ids
    BY <1>1 DEF TypeOK, OrNone, Exports
  <2>. QED BY <1>1, <2>1 DEF TypeOK, Placed, HistoriesHold, NobodyIsAhead, ExportOK
<1>7. ASSUME NEW s \in Ids PROVE SessionOK(s)
  BY <1>1 DEF Placed, NobodyIsAhead, RoamingInv, CopiesAgree, SessionOK
<1>. QED BY <1>2, <1>3, <1>4, <1>5, <1>6, <1>7 DEF Apart

LEMMA PutTogether == Apart => RoamingInv
<1> SUFFICES ASSUME Apart PROVE RoamingInv
  OBVIOUS
<1>1. TypeOK
  BY DEF Apart, StateOK, TypeOK, RequestOK, HandlerOK, RoamOK, ExportOK
<1>2. Fresh
  BY DEF Apart, Fresh, RequestOK, RoamOK
<1>3. Placed
  <2>1. None \notin Ids
    BY IdFacts
  <2>2. ASSUME NEW j \in Roams PROVE RoamOK(j)
    BY DEF Apart
  <2>3. \A r \in Requests :
           request[r].at \in {"wake", "speak", "llm", "answered", "listed", "done"} =>
               session[request[r].sid] # None
    BY DEF Apart, RequestOK
  <2>4. \A c \in Conns : handler[c].at # "new" => session[handler[c].sid] # None
    BY DEF Apart, HandlerOK
  <2>5. \A e \in Roams : exports[e] # None => session[exports[e].source] # None
    BY DEF Apart, ExportOK
  <2>6. \A s \in Ids : session[s] # None /\ session[s].origin # None =>
                           s \in Roams /\ session[session[s].origin.session] # None
    BY DEF Apart, SessionOK
  <2>7. \A s \in surfaces : session[s] # None
    BY DEF Apart, StateOK
  <2>. QED BY <2>1, <2>2, <2>3, <2>4, <2>5, <2>6, <2>7 DEF Placed, RoamOK
<1>4. HistoriesHold /\ CopiesUnderWay /\ IntegrityChecked
  BY DEF Apart, RoamOK, ExportOK, HistoriesHold, CopiesUnderWay, IntegrityChecked
<1>5. NobodyIsAhead
  BY DEF Apart, RequestOK, HandlerOK, RoamOK, ExportOK, SessionOK, NobodyIsAhead
<1>6. CopiesAgree
  <2>1. ASSUME NEW s \in Ids, session[s] # None, session[s].origin # None, s \in Known
        PROVE  Whole(s)
    <3>1. s \in Roams
      BY <2>1 DEF Apart, SessionOK
    <3>2. roam[s].at = "done"
      BY <2>1, <3>1 DEF Known, Apart, RequestOK, Told
    <3>. QED BY <2>1, <3>1, <3>2 DEF Apart, RoamOK, UnderWay
  <2>. QED BY <2>1 DEF Apart, SessionOK, CopiesAgree
<1>7. TokenFindsOwner /\ SoleImporter /\ HashedUntilImported
  BY DEF Apart, IndexOK
<1>. QED BY <1>1, <1>2, <1>3, <1>4, <1>5, <1>6, <1>7 DEF RoamingInv

-----------------------------------------------------------------------------
(* What a step leaves as it was, stays right: of the sessions there are    *)
(* the tokens and origins stay and the histories grow, who is done is done *)
(* and bundles stay as they are.                                           *)
StoresGrow ==
    /\ UNCHANGED suspends /\ calls' \in Nat
    /\ session' \in [Ids -> OrNone(SessionRecords)]
    /\ byToken' \in [Tokens -> OrNone(Ids)]
    /\ messages' \in [Ids -> Histories]
    /\ latest' \in [Ids -> OrNone(Histories)]
    /\ \A s \in Ids : session[s] # None =>
           /\ session'[s] # None
           /\ session'[s].token = session[s].token /\ session'[s].origin = session[s].origin
           /\ IsHistoryOf(messages[s], messages'[s])
    /\ \A j \in Roams : roam[j].at = "done" => roam'[j].at = "done"
    /\ \A e \in Roams : exports[e] # None =>
           /\ exports'[e] # None
           /\ exports'[e].source = exports[e].source /\ exports'[e].history = exports[e].history

(* Only copies that are whole are appended to or change their status. *)
Quiet(s) ==
    session[s] # None /\ session[s].origin # None =>
        Whole(s) \/ (messages'[s] = messages[s] /\ session'[s].status = session[s].status)

StillNone(s) == session[s] = None => session'[s] = None

LEMMA SessionFacts ==
    ASSUME Apart, NEW s \in Ids, session[s] # None
    PROVE  /\ session[s] \in SessionRecords /\ session[s].token \in Tokens
           /\ session[s].status \in {"idle", "active", "suspended"}
           /\ messages[s] \in Histories /\ Len(messages[s]) \in Nat
           /\ session[s].origin # None =>
                  /\ session[s].origin \in Origins /\ s \in Roams
                  /\ session[s].origin.session \in Ids /\ session[s].origin.point \in Nat
                  /\ session[session[s].origin.session] # None
<1>1. session[s] \in SessionRecords /\ messages[s] \in Histories
  BY DEF Apart, StateOK, OrNone
<1>2. Len(messages[s]) \in Nat
  BY <1>1 DEF Histories
<1>. QED BY <1>1, <1>2 DEF Apart, SessionOK, SessionRecords, Origins, OrNone

LEMMA WholeStays ==
    ASSUME Apart, StoresGrow, NEW s \in Ids, session[s] # None, session[s].origin # None, Whole(s)
    PROVE  Whole(s)'
<1>1. messages[s] \in Histories /\ messages'[s] \in Histories /\ IsHistoryOf(messages[s], messages'[s])
  BY SessionFacts DEF StoresGrow
<1>2. Len(messages[s]) \in Nat /\ Len(messages'[s]) \in Nat /\ Len(messages[s]) <= Len(messages'[s])
  BY <1>1 DEF Histories, IsHistoryOf
<1>3. session'[s].origin = session[s].origin /\ session[s].origin.point \in Nat
  BY SessionFacts DEF StoresGrow
<1>. QED BY <1>2, <1>3 DEF Whole

LEMMA ToldStays == ASSUME StoresGrow, NEW x, Told(x) PROVE roam'[x].at = "done" \/ x \notin Roams
BY DEF StoresGrow, Told

LEMMA ToldIsWhole ==
    ASSUME Apart, NEW x \in Ids, session[x] # None, session[x].origin # None, Told(x)
    PROVE  Whole(x)
BY SessionFacts DEF Apart, RoamOK, UnderWay, Told

LEMMA RequestStays ==
    ASSUME Apart, StoresGrow, NEW r \in Requests, request'[r] = request[r], StillNone(r)
    PROVE  RequestOK(r)'
<1>1. RequestOK(r)
  BY DEF Apart
<1>2. Told(request[r].token)' /\ Told(request[r].sid)'
  BY <1>1, ToldStays DEF RequestOK, Told
<1>. QED BY <1>1, <1>2 DEF RequestOK, StoresGrow, StillNone

LEMMA HandlerStays ==
    ASSUME Apart, StoresGrow, NEW c \in Conns, handler'[c] = handler[c]
    PROVE  HandlerOK(c)'
<1>1. HandlerOK(c)
  BY DEF Apart
<1>2. Told(handler[c].sid)'
  BY <1>1, ToldStays DEF HandlerOK, Told
<1>. QED BY <1>1, <1>2 DEF HandlerOK, StoresGrow

LEMMA RoamStays ==
    ASSUME Apart, StoresGrow, NEW j \in Roams, roam'[j] = roam[j], StillNone(j), Quiet(j),
           exports[j] = None => exports'[j] = None
    PROVE  RoamOK(j)'
<1> DEFINE q == roam[j]
<1>1. RoamOK(j) /\ q \in RoamRecords /\ j \in Ids /\ q.history \in Histories
  BY IdFacts DEF Apart, RoamOK, RoamRecords
<1>2. Told(q.source)'
  BY <1>1, ToldStays DEF RoamOK, Told
<1>3. ASSUME j \in MidRoaming
      PROVE  /\ q.source \in Ids /\ session'[q.source] # None
             /\ messages[q.source] \in Histories /\ messages'[q.source] \in Histories
             /\ IsHistoryOf(messages[q.source], messages'[q.source])
  BY <1>1, <1>3, SessionFacts DEF RoamOK, StoresGrow
<1>4. ASSUME q.at \in {"snapshot", "record", "create"}
      PROVE  IsHistoryOf(q.history, messages'[q.source])
  <2>1. j \in MidRoaming
    BY <1>4 DEF MidRoaming
  <2>. QED BY <1>1, <1>3, <1>4, <2>1, HistoryGrows DEF RoamOK
<1>5. session'[j] # None <=> session[j] # None
  BY <1>1 DEF StoresGrow, StillNone
<1>6. q.export # None => exports'[q.export] # None
  <2>1. q.export # None => q.export \in Roams
    BY <1>1 DEF RoamRecords, OrNone
  <2>. QED BY <1>1, <2>1 DEF RoamOK, StoresGrow
<1>7. UnderWay(j)'
  <2>1. UnderWay(j)
    BY <1>1 DEF RoamOK
  <2>2. j \in Copying => session[j] # None /\ session[j].origin # None
    BY <2>1 DEF UnderWay
  <2>3. session[j] # None => session'[j].origin = session[j].origin
    BY <1>1 DEF StoresGrow
  <2>4. ASSUME q.at = "replay"
        PROVE  /\ Len(messages'[j]) + Len(q.history) = session'[j].origin.point
               /\ IsHistoryOf(messages'[j] \o q.history, messages'[q.source])
    <3>1. j \in MidRoaming /\ j \in Copying
      BY <2>4 DEF MidRoaming, Copying
    <3>2. messages[j] \in Histories /\ Len(messages[j]) \in Nat /\ Len(q.history) \in Nat
      BY <1>1, <2>2, <3>1, SessionFacts DEF Histories
    <3>3. Len(messages[j]) + Len(q.history) = session[j].origin.point
      BY <2>1, <2>4 DEF UnderWay
    <3>4. messages'[j] = messages[j]
      <4>1. ~(session[j].origin.point < Len(messages[j]))
        <5> DEFINE p == session[j].origin.point  n == Len(messages[j])  m == Len(q.history)
        <5>1. p \in Nat /\ n \in Nat /\ m \in Nat /\ n + m = p
          BY <1>1, <2>2, <3>1, <3>2, <3>3, SessionFacts
        <5> HIDE DEF p, n, m
        <5>2. ~(p < n)
          BY <5>1
        <5>. QED BY <5>2 DEF p, n
      <4>. QED BY <2>2, <3>1, <4>1 DEF Quiet, Whole
    <3>5. IsHistoryOf(messages[j] \o q.history, messages'[q.source])
      <4> DEFINE x == messages[j] \o q.history
      <4>1. x \in Histories
        BY <1>1, <3>2, HistoryInParts
      <4>2. IsHistoryOf(x, messages[q.source])
        BY <2>1, <2>4 DEF UnderWay
      <4> HIDE DEF x
      <4>3. IsHistoryOf(x, messages'[q.source])
        BY <1>3, <3>1, <4>1, <4>2, HistoryGrows
      <4>. QED BY <4>3 DEF x
    <3>. QED BY <2>2, <2>3, <3>1, <3>3, <3>4, <3>5
  <2>5. session[j] # None /\ session[j].origin # None /\ Whole(j) => Whole(j)'
    BY <1>1, WholeStays
  <2>. QED BY <1>1, <1>5, <2>1, <2>2, <2>3, <2>4, <2>5 DEF UnderWay, Copying
<1>. QED BY <1>1, <1>2, <1>3, <1>4, <1>5, <1>6, <1>7 DEF RoamOK, MidRoaming, StoresGrow

LEMMA ExportStays ==
    ASSUME Apart, StoresGrow, NEW e \in Roams, exports'[e] \in OrNone(Exports),
           exports[e] = None => exports'[e] = None
    PROVE  ExportOK(e)'
<1> SUFFICES ASSUME exports[e] # None
             PROVE  /\ exports'[e].source \in Ids /\ session'[exports'[e].source] # None
                    /\ IsHistoryOf(exports'[e].history, messages'[exports'[e].source])
                    /\ Told(exports[e].source)'
  BY DEF ExportOK, StoresGrow
<1> DEFINE s == exports[e].source
<1>1. ExportOK(e) /\ exports[e] \in Exports /\ s \in Ids /\ session[s] # None
  BY DEF Apart, ExportOK, OrNone
<1>2. exports'[e].source = s /\ exports'[e].history = exports[e].history
  BY DEF StoresGrow
<1>3. exports[e].history \in Histories /\ messages[s] \in Histories /\ messages'[s] \in Histories
  BY <1>1, SessionFacts DEF Exports, StoresGrow
<1>4. IsHistoryOf(exports[e].history, messages'[s])
  BY <1>1, <1>3, HistoryGrows DEF ExportOK, StoresGrow
<1>5. Told(s)'
  BY <1>1, <1>2, ToldStays DEF ExportOK, Told
<1>. QED BY <1>1, <1>2, <1>4, <1>5 DEF StoresGrow

LEMMA SessionStays ==
    ASSUME Apart, StoresGrow, NEW s \in Ids, StillNone(s), Quiet(s)
    PROVE  SessionOK(s)'
<1> SUFFICES ASSUME session[s] # None
             PROVE  SessionOK(s)'
  BY DEF StillNone, SessionOK
<1>1. SessionOK(s) /\ session'[s] # None /\ session'[s].token = session[s].token
      /\ session'[s].origin = session[s].origin
  BY DEF Apart, StoresGrow
<1>2. session[s].token # s => Told(session[s].token)'
  BY <1>1, ToldStays DEF SessionOK, Told
<1>3. ASSUME session[s].origin # None, NEW from, from = session[s].origin
      PROVE  /\ s \in Roams /\ session'[from.session] # None
             /\ from.point <= Len(messages'[from.session])
             /\ \A i \in DOMAIN messages'[s] :
                    /\ i <= from.point => messages'[s][i] = messages'[from.session][i]
                    /\ i = from.point + 1 => messages'[s][i] = Provenance(s)
             /\ session'[s].status # "idle" => Whole(s)'
  <2> DEFINE x == messages[s]  y == messages[from.session]
             z == messages'[s]  w == messages'[from.session]  n == from.point
  <2>1. /\ s \in Roams /\ from.session \in Ids /\ n \in Nat /\ session[from.session] # None
        /\ session'[from.session] # None
        /\ x \in Histories /\ y \in Histories /\ z \in Histories /\ w \in Histories
        /\ IsHistoryOf(x, z) /\ IsHistoryOf(y, w)
    BY <1>3, SessionFacts DEF StoresGrow
  <2>2. /\ n <= Len(y)
        /\ \A i \in DOMAIN x : /\ i <= n => x[i] = y[i]
                               /\ i = n + 1 => x[i] = Provenance(s)
    BY <1>1, <1>3 DEF SessionOK
  <2>3. z = x \/ n < Len(x)
    BY <1>3 DEF Quiet, Whole
  <2>4. session'[s].status # "idle" => Whole(s)'
    <3>1. session[s].status # "idle" => Whole(s)
      BY <1>1, <1>3 DEF SessionOK
    <3>2. session'[s].status # "idle" => Whole(s)
      BY <1>3, <3>1 DEF Quiet
    <3>. QED BY <1>3, <3>2, WholeStays
  <2> HIDE DEF x, y, z, w, n
  <2>5. /\ n <= Len(w)
        /\ \A i \in DOMAIN z : /\ i <= n => z[i] = w[i]
                               /\ i = n + 1 => z[i] = Provenance(s)
    <3>1. Len(x) \in Nat /\ Len(y) \in Nat /\ Len(z) \in Nat /\ Len(w) \in Nat
      BY <2>1 DEF Histories
    <3>2. DOMAIN x = 1 .. Len(x) /\ DOMAIN z = 1 .. Len(z)
      BY <2>1 DEF Histories
    <3>3. n <= Len(w) /\ \A i \in 1 .. n : w[i] = y[i]
      BY <2>1, <2>2, <3>1 DEF IsHistoryOf
    <3>4. ASSUME NEW i \in 1 .. Len(z), i <= n + 1
          PROVE  i \in 1 .. Len(x) /\ z[i] = x[i]
      BY <2>1, <2>3, <3>1, <3>4 DEF IsHistoryOf
    <3>5. ASSUME NEW i \in 1 .. Len(z)
          PROVE  (i <= n => z[i] = w[i]) /\ (i = n + 1 => z[i] = Provenance(s))
      BY <2>1, <2>2, <3>1, <3>2, <3>3, <3>4
    <3>. QED BY <3>2, <3>3, <3>5
  <2>. QED BY <2>1, <2>4, <2>5 DEF x, y, z, w, n
<1>. QED BY <1>1, <1>2, <1>3 DEF SessionOK, Provenance

-----------------------------------------------------------------------------
(* Steps that create no session.                                           *)

Beside ==
    /\ UNCHANGED <<suspends, byToken, exports>> /\ calls' \in Nat
    /\ latest' \in [Ids -> OrNone(Histories)]
    /\ \A j \in Roams : roam[j].at = "done" => roam'[j].at = "done"

Tame == StoresGrow /\ \A s \in Ids : Quiet(s) /\ StillNone(s)

LEMMA NothingWritten == ASSUME Apart, Beside, UNCHANGED <<session, messages>> PROVE Tame
<1>1. \A s \in Ids : IsHistoryOf(messages[s], messages'[s])
  BY HistoryIsOfItself DEF Apart, StateOK
<1>. QED BY <1>1 DEF Apart, StateOK, Beside, Tame, StoresGrow, Quiet, StillNone

LEMMA UpdateGrows ==
    ASSUME Apart, NEW s \in Ids, session[s] # None, NEW status \in {"idle", "active", "suspended"},
           session' = Update(s, status),
           suspends' = suspends, byToken' = byToken, messages' = messages, exports' = exports,
           calls' \in Nat, latest' \in [Ids -> OrNone(Histories)],
           \A j \in Roams : roam[j].at = "done" => roam'[j].at = "done"
    PROVE  /\ StoresGrow
           /\ \A q \in Ids : StillNone(q) /\ (q # s => Quiet(q))
           /\ session'[s].status = status
<1> DEFINE rec == [session[s] EXCEPT !.status = status]
<1>1. /\ rec \in SessionRecords /\ rec.token = session[s].token /\ rec.origin = session[s].origin
      /\ rec.status = status
  BY SessionFacts DEF SessionRecords
<1>2. session' = [session EXCEPT ![s] = rec]
  BY DEF Update
<1> HIDE DEF rec
<1>3. /\ session' \in [Ids -> OrNone(SessionRecords)]
      /\ \A q \in Ids : session'[q] = IF q = s THEN rec ELSE session[q]
  BY <1>1, <1>2 DEF Apart, StateOK, OrNone
<1>4. rec # None
  BY <1>1, NoneAssumption
<1>5. \A q \in Ids : IsHistoryOf(messages[q], messages'[q])
  BY HistoryIsOfItself DEF Apart, StateOK
<1>6. StoresGrow
  BY <1>1, <1>3, <1>4, <1>5 DEF Apart, StateOK, StoresGrow
<1>. QED BY <1>1, <1>3, <1>4, <1>6 DEF Quiet, StillNone

LEMMA UpdateIsTame ==
    ASSUME Apart, Beside, NEW s \in Ids, session[s] # None,
           NEW status \in {"idle", "active", "suspended"},
           session' = Update(s, status), UNCHANGED messages,
           session[s].origin # None => Whole(s)
    PROVE  Tame
<1>1. StoresGrow /\ \A q \in Ids : StillNone(q) /\ (q # s => Quiet(q))
  BY UpdateGrows DEF Beside
<1>2. Quiet(s)
  BY DEF Quiet
<1>. QED BY <1>1, <1>2 DEF Tame

LEMMA SaidGrows ==
    ASSUME Apart, Beside, NEW s \in Ids, session[s] # None, NEW m \in Messages,
           messages' = Said(s, m), UNCHANGED session
    PROVE  /\ StoresGrow
           /\ \A q \in Ids : StillNone(q) /\ (q # s => Quiet(q))
           /\ messages'[s] = Append(messages[s], m)
           /\ \A q \in Ids \ {s} : messages'[q] = messages[q]
<1>1. /\ messages \in [Ids -> Histories]
      /\ \A q \in Ids : messages'[q] = IF q = s THEN Append(messages[q], m) ELSE messages[q]
  BY DEF Apart, StateOK, Said
<1>2. messages[s] \in Histories
  BY <1>1
<1>3. Append(messages[s], m) \in Histories /\ IsHistoryOf(messages[s], Append(messages[s], m))
  BY <1>2, HistoryOfAppend
<1>4. messages' \in [Ids -> Histories]
  BY <1>1, <1>3 DEF Said
<1>5. \A q \in Ids : IsHistoryOf(messages[q], messages'[q])
  BY <1>1, <1>3, HistoryIsOfItself
<1>6. StoresGrow
  BY <1>4, <1>5 DEF Apart, StateOK, Beside, StoresGrow
<1>. QED BY <1>1, <1>6 DEF Quiet, StillNone

LEMMA SaidIsTame ==
    ASSUME Apart, Beside, NEW s \in Ids, session[s] # None, NEW m \in Messages,
           messages' = Said(s, m), UNCHANGED session,
           session[s].origin # None => Whole(s)
    PROVE  Tame
<1>1. StoresGrow /\ \A q \in Ids : StillNone(q) /\ (q # s => Quiet(q))
  BY SaidGrows
<1>2. Quiet(s)
  BY DEF Quiet
<1>. QED BY <1>1, <1>2 DEF Tame

LEMMA StepKeeps ==
    ASSUME Apart, StoresGrow, IndexOK',
           request' = [r \in Requests |-> request'[r]], handler' = [c \in Conns |-> handler'[c]],
           roam' = [j \in Roams |-> roam'[j]], exports' \in [Roams -> OrNone(Exports)],
           \A s \in surfaces' : s \in Ids /\ session'[s] # None,
           \A r \in Requests : RequestOK(r)' \/ (request'[r] = request[r] /\ StillNone(r)),
           \A c \in Conns : HandlerOK(c)' \/ handler'[c] = handler[c],
           \A j \in Roams : \/ RoamOK(j)'
                            \/ /\ roam'[j] = roam[j] /\ StillNone(j) /\ Quiet(j)
                               /\ exports[j] = None => exports'[j] = None,
           \A e \in Roams : ExportOK(e)' \/ (exports[e] = None => exports'[e] = None),
           \A s \in Ids : SessionOK(s)' \/ (StillNone(s) /\ Quiet(s))
    PROVE  RoamingInv'
<1>1. StateOK'
  BY DEF Apart, StateOK, StoresGrow
<1>2. \A r \in Requests : RequestOK(r)'
  BY RequestStays
<1>3. \A c \in Conns : HandlerOK(c)'
  BY HandlerStays
<1>4. \A j \in Roams : RoamOK(j)'
  BY RoamStays
<1>5. \A e \in Roams : ExportOK(e)'
  BY ExportStays
<1>6. \A s \in Ids : SessionOK(s)'
  BY SessionStays
<1>7. Apart'
  BY <1>1, <1>2, <1>3, <1>4, <1>5, <1>6 DEF Apart
<1>. QED BY <1>7, PutTogether, PTL

LEMMA IndexStays ==
    ASSUME Apart, StoresGrow, UNCHANGED <<byToken, exports>>, \A s \in Ids : StillNone(s),
           \A k \in Roams : /\ roam'[k].export = roam[k].export
                            /\ roam[k].export # None /\ roam'[k].at = "create" => roam[k].at = "create"
    PROVE  IndexOK'
<1>1. TokenFindsOwner'
  <2>1. \A s \in Ids : session'[s] # None =>
            session[s] # None /\ session'[s].token = session[s].token /\ session[s].token \in Tokens
    BY SessionFacts DEF StoresGrow, StillNone
  <2>2. \A t \in Tokens : byToken[t] # None =>
            byToken[t] \in Ids /\ session[byToken[t]] # None /\ session[byToken[t]].token = t
    BY DEF Apart, StateOK, IndexOK, TokenFindsOwner, OrNone
  <2>3. \A s \in Ids : session[s] # None => byToken[session[s].token] # None
    BY DEF Apart, IndexOK, TokenFindsOwner
  <2>. QED BY <2>1, <2>2, <2>3 DEF TokenFindsOwner, StoresGrow
<1>2. SoleImporter' /\ HashedUntilImported'
  BY DEF Apart, IndexOK, SoleImporter, HashedUntilImported
<1>. QED BY <1>1, <1>2 DEF IndexOK

(* A completion request r goes on as rec says. *)
LEMMA RequestKeeps ==
    ASSUME Apart, Tame, UNCHANGED <<byToken, registry, roam, exports>>,
           NEW r \in Requests, NEW rec \in RequestRecords, request' = [request EXCEPT ![r] = rec],
           rec.at \in {"new", "resume", "lookup", "create"} => session[r] = None,
           rec.at = "lookup" => rec.token # None,
           rec.at \in {"wake", "speak", "llm", "answered", "listed", "done"} =>
               rec.sid \in Ids /\ session[rec.sid] # None,
           Told(rec.token), Told(rec.sid)
    PROVE  RoamingInv'
<1>1. /\ \A q \in Requests : request'[q] = IF q = r THEN rec ELSE request[q]
      /\ request' = [q \in Requests |-> request'[q]]
  BY DEF Apart, StateOK
<1>2. StoresGrow /\ \A s \in Ids : StillNone(s) /\ Quiet(s)
  BY DEF Tame
<1>3. r \in Ids /\ \A j \in Roams : j \in Ids
  BY IdFacts
<1>4. Told(rec.token)' /\ Told(rec.sid)'
  BY DEF Told
<1>5. RequestOK(r)'
  BY <1>1, <1>2, <1>3, <1>4 DEF RequestOK, StoresGrow, StillNone
<1>6. IndexOK'
  BY <1>2, IndexStays
<1>7. \A s \in surfaces' : s \in Ids /\ session'[s] # None
  BY <1>2 DEF Apart, StateOK, StoresGrow, registry
<1>8. /\ exports' \in [Roams -> OrNone(Exports)] /\ roam' = [j \in Roams |-> roam'[j]]
      /\ handler' = [c \in Conns |-> handler'[c]]
  BY DEF Apart, StateOK, ExportOK, registry
<1>9. \A q \in Requests : RequestOK(q)' \/ (request'[q] = request[q] /\ StillNone(q))
  BY <1>1, <1>2, <1>5, IdFacts
<1>10. /\ \A c \in Conns : handler'[c] = handler[c]
       /\ \A j \in Roams : roam'[j] = roam[j] /\ exports'[j] = exports[j]
  BY DEF registry
<1>. QED BY <1>1, <1>2, <1>3, <1>6, <1>7, <1>8, <1>9, <1>10, StepKeeps

(* A connection c goes on as rec says. *)
LEMMA HandlerKeeps ==
    ASSUME Apart, Tame, UNCHANGED <<byToken, request, roam, exports>>,
           NEW c \in Conns, NEW rec \in HandlerRecords, handler' = [handler EXCEPT ![c] = rec],
           \A s \in surfaces' : s \in surfaces \/ s = rec.sid,
           rec.at # "new", rec.sid \in Ids, session[rec.sid] # None, Told(rec.sid)
    PROVE  RoamingInv'
<1>1. /\ \A d \in Conns : handler'[d] = IF d = c THEN rec ELSE handler[d]
      /\ handler' = [d \in Conns |-> handler'[d]]
  BY DEF Apart, StateOK
<1>2. StoresGrow /\ \A s \in Ids : StillNone(s) /\ Quiet(s)
  BY DEF Tame
<1>3. (\A j \in Roams : j \in Ids) /\ (\A r \in Requests : r \in Ids)
  BY IdFacts
<1>4. Told(rec.sid)'
  BY DEF Told
<1>5. HandlerOK(c)'
  BY <1>1, <1>2, <1>4 DEF HandlerOK, StoresGrow
<1>6. IndexOK'
  BY <1>2, IndexStays
<1>7. \A s \in surfaces' : s \in Ids /\ session'[s] # None
  BY <1>2 DEF Apart, StateOK, StoresGrow
<1>8. /\ exports' \in [Roams -> OrNone(Exports)] /\ roam' = [j \in Roams |-> roam'[j]]
      /\ request' = [r \in Requests |-> request'[r]]
  BY DEF Apart, StateOK, ExportOK
<1>9. \A d \in Conns : HandlerOK(d)' \/ handler'[d] = handler[d]
  BY <1>1, <1>5
<1>. QED BY <1>1, <1>2, <1>3, <1>6, <1>7, <1>8, <1>9, StepKeeps

(* A roaming request j goes on as rec says, its session said to be right.  *)
LEMMA RoamKeeps ==
    ASSUME Apart, StoresGrow, NEW j \in Roams,
           \A s \in Ids : StillNone(s) /\ (s # j => Quiet(s)),
           UNCHANGED <<byToken, registry, request, exports>>,
           NEW rec, roam' = [roam EXCEPT ![j] = rec], RoamOK(j)', SessionOK(j)',
           rec.export = roam[j].export,
           rec.export # None /\ rec.at = "create" => roam[j].at = "create"
    PROVE  RoamingInv'
<1>1. /\ \A k \in Roams : roam'[k] = IF k = j THEN rec ELSE roam[k]
      /\ roam' = [k \in Roams |-> roam'[k]]
  BY DEF Apart, StateOK
<1>2. j \in Ids /\ (\A k \in Roams : k \in Ids) /\ (\A r \in Requests : r \in Ids /\ r # j)
  BY IdFacts
<1>3. IndexOK'
  BY <1>1, IndexStays
<1>4. \A s \in surfaces' : s \in Ids /\ session'[s] # None
  BY DEF Apart, StateOK, StoresGrow, registry
<1>5. /\ exports' \in [Roams -> OrNone(Exports)] /\ handler' = [c \in Conns |-> handler'[c]]
      /\ request' = [r \in Requests |-> request'[r]]
      /\ \A c \in Conns : handler'[c] = handler[c]
  BY DEF Apart, StateOK, ExportOK, registry
<1>6. \A k \in Roams : \/ RoamOK(k)'
                       \/ roam'[k] = roam[k] /\ StillNone(k) /\ Quiet(k) /\ exports'[k] = exports[k]
  BY <1>1, <1>2
<1>7. \A s \in Ids : SessionOK(s)' \/ (StillNone(s) /\ Quiet(s))
  OBVIOUS
<1>. QED BY <1>1, <1>2, <1>3, <1>4, <1>5, <1>6, <1>7, StepKeeps

-----------------------------------------------------------------------------
(* The steps of a completion request, but the one that opens a session.    *)

LEMMA KnownFacts ==
    ASSUME Apart, NEW s \in Known
    PROVE  s \in Ids /\ session[s] # None /\ Told(s) /\ Told(session[s].token)
<1>1. s \in Ids /\ session[s] # None /\ Told(s)
  BY IdFacts DEF Known, Apart, RequestOK, Told
<1>2. Told(session[s].token)
  BY <1>1 DEF Apart, SessionOK, Told
<1>. QED BY <1>1, <1>2

LEMMA OfferedFacts ==
    ASSUME Apart, NEW token \in Offered \cup {None}
    PROVE  token \in OrNone(Tokens) /\ Told(token)
<1>1. CASE token \in Names \cup {None}
  BY <1>1, IdFacts DEF OrNone, Told
<1>2. CASE token \notin Names \cup {None}
  <2>1. PICK s \in Known : token = session[s].token
    BY <1>2 DEF Offered
  <2>. QED BY <2>1, KnownFacts, SessionFacts DEF OrNone
<1>. QED BY <1>1, <1>2

LEMMA ArriveKeeps ==
    ASSUME Apart, NEW r \in Requests, NEW token \in Offered \cup {None},
           NEW force \in BOOLEAN, NEW speaks \in BOOLEAN,
           Arrive(r, token, force, speaks), UNCHANGED exports
    PROVE  RoamingInv'
<1> DEFINE q == request[r]
           probe == [q EXCEPT !.at = "resume"]
           goes == [q EXCEPT !.at = IF token = None \/ force THEN "create" ELSE "lookup",
                             !.token = token, !.force = force, !.speaks = speaks]
<1>1. q \in RequestRecords /\ q.at = "new" /\ session[r] = None /\ Told(q.token) /\ Told(q.sid)
  BY DEF Apart, RequestOK, Arrive
<1>2. /\ UNCHANGED <<suspends, stores, registry, roam>>
      /\ request' = [request EXCEPT ![r] = probe] \/ request' = [request EXCEPT ![r] = goes]
  BY DEF Arrive
<1>3. calls' \in Nat
  BY DEF Arrive, Come, Apart, StateOK
<1>4. Tame
  BY <1>2, <1>3, NothingWritten DEF Beside, stores, Apart, StateOK
<1>5. token \in OrNone(Tokens) /\ Told(token)
  BY OfferedFacts
<1> HIDE DEF q
<1>6. /\ probe \in RequestRecords /\ probe.at = "resume"
      /\ probe.token = q.token /\ probe.sid = q.sid
      /\ goes \in RequestRecords /\ goes.at \in {"create", "lookup"}
      /\ goes.at = "lookup" => goes.token # None
      /\ goes.token = token /\ goes.sid = q.sid
  BY <1>1, <1>5 DEF RequestRecords
<1> HIDE DEF probe, goes
<1>7. CASE request' = [request EXCEPT ![r] = probe]
  BY <1>1, <1>2, <1>4, <1>6, <1>7, RequestKeeps DEF stores
<1>8. CASE request' = [request EXCEPT ![r] = goes]
  BY <1>1, <1>2, <1>4, <1>5, <1>6, <1>8, RequestKeeps DEF stores
<1>. QED BY <1>2, <1>7, <1>8

LEMMA LookupKeeps ==
    ASSUME Apart, NEW r \in Requests, Lookup(r), UNCHANGED exports
    PROVE  RoamingInv'
<1> DEFINE q == request[r]
           s == byToken[q.token]
           opens == [q EXCEPT !.at = "create"]
<1>1. /\ q \in RequestRecords /\ q.at = "lookup" /\ session[r] = None
      /\ Told(q.token) /\ Told(q.sid) /\ q.token \in Tokens
      /\ UNCHANGED <<suspends, stores, registry, calls, roam>>
  BY DEF Apart, RequestOK, Lookup, RequestRecords, OrNone
<1>2. Tame
  BY <1>1, NothingWritten DEF Beside, stores, Apart, StateOK
<1>3. ASSUME s # None
      PROVE  s \in Ids /\ session[s] # None /\ Told(s)
  <2>1. s \in Ids /\ session[s] # None /\ session[s].token = q.token
    BY <1>1, <1>3 DEF Apart, StateOK, IndexOK, TokenFindsOwner, OrNone
  <2>. QED BY <1>1, <2>1 DEF Apart, SessionOK, Told
<1>4. ASSUME s # None, NEW at \in {"wake", "speak", "llm"}, Within(r, s, at)
      PROVE  RoamingInv'
  <2> DEFINE goes == [q EXCEPT !.at = at, !.sid = s, !.token = None, !.force = FALSE]
  <2>1. request' = [request EXCEPT ![r] = goes]
    BY <1>4 DEF Within
  <2>2. Told(None)
    BY IdFacts DEF Told
  <2> HIDE DEF q, s
  <2>3. goes \in RequestRecords /\ goes.at = at /\ goes.sid = s /\ goes.token = None
    BY <1>1, <1>3, <1>4 DEF RequestRecords, OrNone
  <2> HIDE DEF goes
  <2>. QED BY <1>1, <1>2, <1>3, <1>4, <2>1, <2>2, <2>3, RequestKeeps DEF stores
<1>5. ASSUME request' = [request EXCEPT ![r] = opens]
      PROVE  RoamingInv'
  <2> HIDE DEF q
  <2>1. opens \in RequestRecords /\ opens.at = "create" /\ opens.token = q.token /\ opens.sid = q.sid
    BY <1>1 DEF RequestRecords
  <2> HIDE DEF opens
  <2>. QED BY <1>1, <1>2, <1>5, <2>1, RequestKeeps DEF stores
<1>6. Onward(r) \in {"speak", "llm"}
  BY DEF Onward
<1>. QED BY <1>4, <1>5, <1>6 DEF Lookup, Move

(* A request that is in a session, and where it may go from there. *)
LEMMA InSession ==
    ASSUME Apart, NEW r \in Requests,
           request[r].at \in {"wake", "speak", "llm", "answered", "listed"}
    PROVE  LET q == request[r] IN
           /\ q \in RequestRecords /\ q.sid \in Ids /\ session[q.sid] # None
           /\ Told(q.sid) /\ Told(q.token)
           /\ session[q.sid].origin # None => Whole(q.sid)
           /\ messages[q.sid] \in Histories
BY ToldIsWhole, SessionFacts DEF Apart, RequestOK

LEMMA GoesOnKeeps ==
    ASSUME Apart, Tame, UNCHANGED <<byToken, registry, roam, exports>>, NEW r \in Requests,
           request[r].at \in {"wake", "speak", "llm", "answered", "listed"},
           NEW at \in {"speak", "llm", "answered", "listed", "done"},
           NEW speaks \in BOOLEAN, NEW listed \in Histories,
           request' = [request EXCEPT ![r] = [request[r] EXCEPT !.at = at, !.speaks = speaks, !.listed = listed]]
    PROVE  RoamingInv'
<1> DEFINE q == request[r]
           rec == [q EXCEPT !.at = at, !.speaks = speaks, !.listed = listed]
<1>1. q \in RequestRecords /\ q.sid \in Ids /\ session[q.sid] # None /\ Told(q.sid) /\ Told(q.token)
  BY InSession
<1>2. request' = [request EXCEPT ![r] = rec]
  OBVIOUS
<1> HIDE DEF q
<1>3. rec \in RequestRecords /\ rec.at = at /\ rec.sid = q.sid /\ rec.token = q.token
  BY <1>1 DEF RequestRecords
<1> HIDE DEF rec
<1>4. rec.at \notin {"new", "resume", "lookup", "create"}
  BY <1>3
<1>5. rec.sid \in Ids /\ session[rec.sid] # None /\ Told(rec.sid) /\ Told(rec.token)
  BY <1>1, <1>3
<1>. QED BY <1>2, <1>3, <1>4, <1>5, RequestKeeps

LEMMA FailedKeeps ==
    ASSUME Apart, NEW r \in Requests, Failed(r), UNCHANGED <<suspends, stores, registry, calls, roam, exports>>
    PROVE  RoamingInv'
<1> DEFINE q == request[r]
           rec == [q EXCEPT !.at = "failed", !.token = None, !.force = FALSE, !.speaks = FALSE,
                            !.sid = None, !.listed = <<>>]
<1>1. q \in RequestRecords /\ Told(None)
  BY IdFacts DEF Apart, RequestOK, Told
<1>2. request' = [request EXCEPT ![r] = rec]
  BY DEF Failed
<1>3. Tame
  BY NothingWritten DEF Beside, stores, Apart, StateOK
<1> HIDE DEF q
<1>4. rec \in RequestRecords /\ rec.at = "failed" /\ rec.sid = None /\ rec.token = None
  BY <1>1, NoHistory DEF RequestRecords, OrNone
<1> HIDE DEF rec
<1>. QED BY <1>1, <1>2, <1>3, <1>4, RequestKeeps DEF stores

LEMMA WakeKeeps ==
    ASSUME Apart, NEW r \in Requests, Wake(r), UNCHANGED exports
    PROVE  RoamingInv'
<1> DEFINE q == request[r]
<1>1. /\ q.at = "wake" /\ UNCHANGED <<suspends, byToken, messages, latest, registry, calls, roam>>
      /\ session' = Update(q.sid, "active")
  BY DEF Wake
<1>2. Tame
  BY <1>1, InSession, UpdateIsTame DEF Beside, Apart, StateOK
<1>3. PICK at \in {"speak", "llm"} : request' = [request EXCEPT ![r].at = at]
  BY DEF Wake, Move, Onward
<1>4. /\ q \in RequestRecords /\ q.speaks \in BOOLEAN /\ q.listed \in Histories
      /\ [q EXCEPT !.at = at] = [q EXCEPT !.at = at, !.speaks = q.speaks, !.listed = q.listed]
  BY <1>1, InSession DEF RequestRecords
<1>. QED BY <1>1, <1>2, <1>3, <1>4, GoesOnKeeps

LEMMA SpeakKeeps ==
    ASSUME Apart, NEW r \in Requests, Speak(r), UNCHANGED exports
    PROVE  RoamingInv'
<1> DEFINE q == request[r]
<1>1. /\ q.at = "speak" /\ UNCHANGED <<suspends, session, byToken, latest, registry, calls, roam>>
      /\ messages' = Said(q.sid, [role |-> "user", by |-> r])
  BY DEF Speak
<1>2. [role |-> "user", by |-> r] \in Messages
  BY IdFacts DEF Messages
<1>3. Tame
  <2> DEFINE m == [role |-> "user", by |-> r]
  <2>1. m \in Messages /\ messages' = Said(q.sid, m)
    BY <1>1, <1>2
  <2> HIDE DEF m
  <2>. QED BY <1>1, <2>1, InSession, SaidIsTame DEF Beside, Apart, StateOK
<1>4. request' = [request EXCEPT ![r] = [request[r] EXCEPT !.at = "llm", !.speaks = FALSE]]
  BY DEF Speak
<1>5. /\ q \in RequestRecords /\ q.listed \in Histories
      /\ [q EXCEPT !.at = "llm", !.speaks = FALSE] = [q EXCEPT !.at = "llm", !.speaks = FALSE, !.listed = q.listed]
  BY <1>1, InSession DEF RequestRecords
<1>. QED BY <1>1, <1>3, <1>4, <1>5, GoesOnKeeps

LEMMA AnswerKeeps ==
    ASSUME Apart, NEW r \in Requests, NEW at \in {"answered", "done"},
           Answer(r, at) \/ AnswerEmpty(r, at), UNCHANGED exports
    PROVE  RoamingInv'
<1> DEFINE q == request[r]
<1>1. /\ q.at = "llm" /\ UNCHANGED <<suspends, session, byToken, latest, registry, calls, roam>>
      /\ request' = [request EXCEPT ![r].at = at]
  BY DEF Answer, AnswerEmpty, Move, stores
<1>2. CASE AnswerEmpty(r, at)
  <2>1. UNCHANGED messages
    BY <1>2 DEF AnswerEmpty, stores
  <2>2. Tame
    BY <1>1, <2>1, NothingWritten DEF Beside, Apart, StateOK
  <2>3. /\ q \in RequestRecords /\ q.speaks \in BOOLEAN /\ q.listed \in Histories
        /\ [q EXCEPT !.at = at] = [q EXCEPT !.at = at, !.speaks = q.speaks, !.listed = q.listed]
    BY <1>1, InSession DEF RequestRecords
  <2>. QED BY <1>1, <2>2, <2>3, GoesOnKeeps
<1>3. CASE Answer(r, at)
  <2> DEFINE m == [role |-> "assistant", by |-> r]
  <2>1. m \in Messages /\ messages' = Said(q.sid, m)
    BY <1>3, IdFacts DEF Answer, Messages
  <2> HIDE DEF m
  <2>2. Tame
    BY <1>1, <2>1, InSession, SaidIsTame DEF Beside, Apart, StateOK
  <2>3. /\ q \in RequestRecords /\ q.speaks \in BOOLEAN /\ q.listed \in Histories
        /\ [q EXCEPT !.at = at] = [q EXCEPT !.at = at, !.speaks = q.speaks, !.listed = q.listed]
    BY <1>1, InSession DEF RequestRecords
  <2>. QED BY <1>1, <2>2, <2>3, GoesOnKeeps
<1>. QED BY <1>2, <1>3

LEMMA ListKeeps ==
    ASSUME Apart, NEW r \in Requests, List(r), UNCHANGED exports
    PROVE  RoamingInv'
<1> DEFINE q == request[r]
<1>1. /\ q.at = "answered" /\ UNCHANGED <<suspends, stores, registry, calls, roam>>
      /\ request' = [request EXCEPT ![r] = [request[r] EXCEPT !.at = "listed", !.listed = messages[q.sid]]]
  BY DEF List
<1>2. Tame
  BY <1>1, NothingWritten DEF Beside, stores, Apart, StateOK
<1>3. /\ q \in RequestRecords /\ q.speaks \in BOOLEAN /\ messages[q.sid] \in Histories
      /\ [q EXCEPT !.at = "listed", !.listed = messages[q.sid]]
             = [q EXCEPT !.at = "listed", !.speaks = q.speaks, !.listed = messages[q.sid]]
  BY <1>1, InSession DEF RequestRecords
<1>. QED BY <1>1, <1>2, <1>3, GoesOnKeeps DEF stores

LEMMA CheckpointKeeps ==
    ASSUME Apart, NEW r \in Requests, Checkpoint(r), UNCHANGED exports
    PROVE  RoamingInv'
<1> DEFINE q == request[r]
<1>1. /\ q.at = "listed" /\ UNCHANGED <<suspends, session, byToken, messages, registry, calls, roam>>
      /\ request' = [request EXCEPT ![r] = [request[r] EXCEPT !.at = "done", !.listed = <<>>]]
      /\ latest' = latest \/ latest' = [latest EXCEPT ![q.sid] = q.listed]
  BY DEF Checkpoint
<1>2. /\ q \in RequestRecords /\ q.speaks \in BOOLEAN /\ q.listed \in Histories /\ q.sid \in Ids
      /\ [q EXCEPT !.at = "done", !.listed = <<>>] = [q EXCEPT !.at = "done", !.speaks = q.speaks, !.listed = <<>>]
  BY <1>1, InSession DEF RequestRecords
<1>3. latest' \in [Ids -> OrNone(Histories)]
  BY <1>1, <1>2 DEF Apart, StateOK, OrNone
<1>4. Tame
  BY <1>1, <1>3, NothingWritten DEF Beside, Apart, StateOK
<1>. QED BY <1>1, <1>2, <1>4, NoHistory, GoesOnKeeps

LEMMA CompletionKeeps ==
    ASSUME Apart, NEW r \in Requests, Completion(r), UNCHANGED exports, ~Open(r)
    PROVE  RoamingInv'
<1>1. ASSUME NEW token \in Offered, NEW force \in BOOLEAN, NEW speaks \in BOOLEAN,
             Arrive(r, token, force, speaks)
      PROVE  RoamingInv'
  BY <1>1, ArriveKeeps
<1>2. ASSUME NEW speaks \in BOOLEAN, Arrive(r, None, FALSE, speaks)
      PROVE  RoamingInv'
  BY <1>2, ArriveKeeps
<1>3. CASE Fail(r) \/ Abort(r)
  BY <1>3, FailedKeeps DEF Fail, Abort
<1>. QED BY <1>1, <1>2, <1>3, LookupKeeps, WakeKeeps, SpeakKeeps, AnswerKeeps, ListKeeps, CheckpointKeeps
         DEF Completion

-----------------------------------------------------------------------------
(* The steps of a connection's handler.                                    *)

LEMMA SurfaceKeeps ==
    ASSUME Apart, NEW c \in Conns, Surface(c), UNCHANGED exports
    PROVE  RoamingInv'
<1> DEFINE q == handler[c]
<1>1. /\ q \in HandlerRecords /\ Told(q.sid)
      /\ q.at # "new" => /\ q.sid \in Ids /\ session[q.sid] # None
                         /\ session[q.sid].origin # None => Whole(q.sid)
  BY ToldIsWhole DEF Apart, HandlerOK
<1>2. ASSUME NEW s \in Ids, Register(c, s)
      PROVE  RoamingInv'
  <2> DEFINE rec == [at |-> "registered", sid |-> s]
  <2>1. rec \in HandlerRecords /\ rec.at = "registered" /\ rec.sid = s
    BY DEF HandlerRecords, OrNone
  <2>2. /\ handler' = [handler EXCEPT ![c] = rec] /\ surfaces' = surfaces \cup {s}
        /\ UNCHANGED <<suspends, stores, request, roam>>
    BY <1>2 DEF Register
  <2>3. calls' \in Nat /\ session[s] # None /\ Told(s)
    BY <1>2, KnownFacts DEF Register, Come, Apart, StateOK
  <2>4. Tame
    BY <2>2, <2>3, NothingWritten DEF Beside, stores, Apart, StateOK
  <2> HIDE DEF rec
  <2>. QED BY <2>1, <2>2, <2>3, <2>4, HandlerKeeps DEF stores
<1>3. ASSUME NEW at \in {"serving", "leaving", "gone", "failed"}, HandlerTo(c, at), q.at # "new",
             surfaces' \subseteq surfaces, UNCHANGED <<byToken, request, roam>>, Tame
      PROVE  RoamingInv'
  <2> DEFINE rec == [q EXCEPT !.at = at]
  <2>1. handler' = [handler EXCEPT ![c] = rec]
    BY <1>3 DEF HandlerTo
  <2> HIDE DEF q
  <2>2. rec \in HandlerRecords /\ rec.at = at /\ rec.sid = q.sid
    BY <1>1 DEF HandlerRecords
  <2> HIDE DEF rec
  <2>. QED BY <1>1, <1>3, <2>1, <2>2, HandlerKeeps
<1>4. CASE Attach(c) \/ Detach(c)
  <2>1. /\ q.at # "new" /\ UNCHANGED <<suspends, byToken, messages, latest, surfaces, calls, request, roam>>
        /\ session' = Update(q.sid, "active") \/ session' = Update(q.sid, "suspended")
        /\ \E at \in {"serving", "leaving", "gone", "failed"} : HandlerTo(c, at)
    BY <1>4 DEF Attach, Detach
  <2>2. Tame
    BY <1>1, <2>1, UpdateIsTame DEF Beside, Apart, StateOK
  <2>. QED BY <1>3, <2>1, <2>2
<1>5. CASE Disconnect(c) \/ Collapse(c)
  <2>1. /\ q.at # "new" /\ UNCHANGED <<suspends, stores, calls, request, roam>>
        /\ surfaces' \subseteq surfaces
        /\ \E at \in {"serving", "leaving", "gone", "failed"} : HandlerTo(c, at)
    BY <1>5 DEF Disconnect, Collapse, MidSurface
  <2>2. Tame
    BY <2>1, NothingWritten DEF Beside, stores, Apart, StateOK
  <2>. QED BY <1>3, <2>1, <2>2 DEF stores
<1>. QED BY <1>2, <1>4, <1>5 DEF Surface

LEMMA UnregisterKeeps ==
    ASSUME Apart, NEW s \in Ids, Unregister(s), UNCHANGED exports
    PROVE  RoamingInv'
<1>1. UNCHANGED <<suspends, stores, handler, calls, request, roam>> /\ surfaces' \subseteq surfaces
  BY DEF Unregister
<1>2. Tame
  BY <1>1, NothingWritten DEF Beside, stores, Apart, StateOK
<1>3. StoresGrow /\ \A q \in Ids : StillNone(q) /\ Quiet(q)
  BY <1>2 DEF Tame
<1>4. IndexOK'
  BY <1>1, <1>3, IndexStays DEF stores
<1>5. \A q \in surfaces' : q \in Ids /\ session'[q] # None
  BY <1>1, <1>3 DEF Apart, StateOK, StoresGrow
<1>6. /\ exports' \in [Roams -> OrNone(Exports)] /\ roam' = [j \in Roams |-> roam'[j]]
      /\ request' = [r \in Requests |-> request'[r]] /\ handler' = [c \in Conns |-> handler'[c]]
  BY <1>1 DEF Apart, StateOK, ExportOK
<1>7. \A j \in Roams : j \in Ids
  BY IdFacts
<1>8. \A r \in Requests : r \in Ids
  BY IdFacts
<1>. QED BY <1>1, <1>3, <1>4, <1>5, <1>6, <1>7, <1>8, StepKeeps

-----------------------------------------------------------------------------
(* The steps of a roaming request that create no session and leave the     *)
(* exports alone.                                                          *)

(* It is not at a replay, before or after. *)
LEMMA RoamGoesOn ==
    ASSUME Apart, Tame, UNCHANGED <<byToken, registry, request, exports>>,
           NEW j \in Roams, NEW rec \in RoamRecords, roam' = [roam EXCEPT ![j] = rec],
           rec.at \notin {"new", "replay", "restore"}, rec.kind # None,
           rec.at \in {"snapshot", "record", "create", "refused"} => session[j] = None,
           rec.at \in {"snapshot", "record", "create", "activate", "suspend"} =>
               rec.source \in Ids /\ session[rec.source] # None,
           rec.at \in {"snapshot", "record"} => exports[j] = None,
           rec.at = "done" => rec.kind # "export",
           rec.at = "snapshot" => rec.kind # "import",
           rec.at = "record" => rec.kind \in {"export", "handoff"},
           rec.at = "create" => rec.kind \notin {"export", "import"} /\ rec.export = None,
           rec.export = roam[j].export, rec.export # None => rec.kind = "import",
           rec.at \in {"snapshot", "record", "create"} => IsHistoryOf(rec.history, messages[rec.source]),
           rec.at \in {"activate", "suspend"} =>
               /\ roam[j].at \in {"restore", "activate"}
               /\ rec.kind = roam[j].kind /\ rec.source = roam[j].source,
           rec.at = "suspend" => rec.kind = "handoff",
           rec.at = "done" /\ session[j] # None => session[j].origin # None /\ Whole(j),
           Told(rec.source),
           rec.kind = "import" /\ session[j] # None => rec.checked
    PROVE  RoamingInv'
<1>1. /\ StoresGrow /\ \A s \in Ids : StillNone(s) /\ Quiet(s)
      /\ j \in Ids
  BY IdFacts DEF Tame
<1>2. RoamOK(j) /\ SessionOK(j)'
  BY <1>1, SessionStays DEF Apart
<1>3. roam'[j] = rec /\ \A k \in Roams : roam[k].at = "done" => roam'[k].at = "done"
  BY <1>1 DEF Apart, StateOK, StoresGrow
<1>4. session'[j] # None <=> session[j] # None
  BY <1>1 DEF StoresGrow, StillNone
<1>5. session[j] # None => session'[j].origin = session[j].origin
  BY <1>1 DEF StoresGrow
<1>6. rec.source \in Ids /\ session[rec.source] # None => session'[rec.source] # None
  BY <1>1 DEF StoresGrow
<1>7. ASSUME rec.at \in {"snapshot", "record", "create"}
      PROVE  IsHistoryOf(rec.history, messages'[rec.source])
  <2>1. /\ rec.history \in Histories /\ rec.source \in Ids /\ session[rec.source] # None
        /\ messages[rec.source] \in Histories /\ messages'[rec.source] \in Histories
    BY <1>1, <1>7, SessionFacts DEF RoamRecords, StoresGrow
  <2>. QED BY <1>1, <1>7, <2>1, HistoryGrows DEF StoresGrow
<1>8. UnderWay(j)'
  <2>1. UnderWay(j)
    BY <1>2 DEF RoamOK
  <2>2. session[j] # None /\ session[j].origin # None /\ Whole(j) => Whole(j)'
    BY <1>1, WholeStays
  <2>3. j \in Copying' => rec.at \in {"activate", "suspend"} /\ j \in Copying
    BY <1>3 DEF Copying
  <2>4. ASSUME j \in Copying'
        PROVE  /\ session'[j] # None /\ session'[j].origin # None /\ Whole(j)'
               /\ session'[j].origin.kind = rec.kind /\ rec.kind # "export"
               /\ session'[j].origin.session = rec.source
               /\ rec.kind = "import" => session'[j].origin.export = rec.export
    BY <1>4, <1>5, <2>1, <2>2, <2>3, <2>4 DEF UnderWay
  <2>5. rec.at = "done" /\ session[j] # None => session[j].origin # None /\ Whole(j)'
    BY <2>2
  <2>. QED BY <1>3, <1>4, <1>5, <2>4, <2>5 DEF UnderWay
<1>9. Told(rec.source)'
  BY <1>3 DEF Told
<1>10. rec.export # None => exports[rec.export] # None
  BY <1>2 DEF RoamOK
<1>11. RoamOK(j)'
  <2>1. rec.at # "new" /\ rec.kind # None /\ (rec.at = "create" => rec.kind # "export")
        /\ (rec.at = "create" /\ rec.kind = "import" => rec.export # None)
    OBVIOUS
  <2>2. j \in MidRoaming' => rec.source \in Ids /\ session'[rec.source] # None
    BY <1>3, <1>6 DEF MidRoaming
  <2>. QED BY <1>3, <1>4, <1>7, <1>8, <1>9, <1>10, <2>1, <2>2 DEF RoamOK
<1>. QED BY <1>1, <1>2, <1>3, <1>11, RoamKeeps

LEMMA BeginKeeps ==
    ASSUME Apart, NEW j \in Roams, NEW s \in Ids,
           Export(j, s) \/ Handoff(j, s) \/ Fork(j, s)
    PROVE  RoamingInv'
<1>1. PICK kind \in {"export", "handoff", "fork"} : Begin(j, kind, s)
  BY DEF Export, Handoff, Fork
<1> DEFINE q == roam[j]
           rec == [q EXCEPT !.at = "snapshot", !.kind = kind, !.source = s, !.history = messages[s]]
<1>2. /\ q.at = "new" /\ UNCHANGED <<suspends, stores, registry, request, exports>>
      /\ roam' = [roam EXCEPT ![j] = rec] /\ calls' \in Nat
  BY <1>1 DEF Begin, Come, Apart, StateOK
<1>3. session[s] # None /\ messages[s] \in Histories /\ Told(s)
  BY <1>1, KnownFacts, SessionFacts DEF Begin
<1>4. q \in RoamRecords /\ q.export = None /\ session[j] = None /\ exports[j] = None
  BY <1>2, NoneAssumption DEF Apart, RoamOK, Kinds
<1>5. Tame
  <2>1. \A k \in Roams : roam[k].at = "done" => roam'[k].at = "done"
    BY <1>2 DEF Apart, StateOK
  <2>. QED BY <1>2, <2>1, NothingWritten DEF Beside, stores, Apart, StateOK
<1> HIDE DEF q
<1>6. /\ rec \in RoamRecords /\ rec.at = "snapshot" /\ rec.kind = kind /\ rec.source = s
      /\ rec.history = messages[s] /\ rec.export = q.export
  BY <1>3, <1>4 DEF RoamRecords, OrNone, Kinds
<1>7. kind # None /\ kind # "import"
  BY NoneAssumption DEF Kinds
<1>8. IsHistoryOf(rec.history, messages[rec.source])
  BY <1>3, <1>6, HistoryIsOfItself
<1> HIDE DEF rec
<1>. QED BY <1>2, <1>3, <1>4, <1>5, <1>6, <1>7, <1>8, RoamGoesOn DEF stores, q

LEMMA ReadSnapshotKeeps ==
    ASSUME Apart, NEW j \in Roams, ReadSnapshot(j)
    PROVE  RoamingInv'
<1> DEFINE q == roam[j]
           at == IF q.kind = "fork" THEN "create" ELSE "record"
           rec == [q EXCEPT !.snapshot = latest[q.source], !.at = at]
<1>1. /\ q.at = "snapshot" /\ UNCHANGED <<suspends, stores, registry, calls, request, exports>>
      /\ roam' = [roam EXCEPT ![j] = rec]
  BY DEF ReadSnapshot
<1>2. RoamOK(j) /\ j \in MidRoaming
  BY <1>1 DEF Apart, MidRoaming
<1>3. /\ q \in RoamRecords /\ q.kind \in {"export", "handoff", "fork"} /\ q.export = None
      /\ session[j] = None /\ exports[j] = None /\ Told(q.source)
      /\ q.source \in Ids /\ session[q.source] # None
      /\ IsHistoryOf(q.history, messages[q.source])
  BY <1>1, <1>2 DEF RoamOK, RoamRecords, OrNone, Kinds
<1>4. latest[q.source] \in OrNone(Histories)
  BY <1>3 DEF Apart, StateOK
<1>5. Tame
  <2>1. \A k \in Roams : roam[k].at = "done" => roam'[k].at = "done"
    BY <1>1 DEF Apart, StateOK
  <2>. QED BY <1>1, <2>1, NothingWritten DEF Beside, stores, Apart, StateOK
<1>6. /\ at \in {"create", "record"} /\ (at = "create" => q.kind = "fork")
      /\ (at = "record" => q.kind \in {"export", "handoff"})
  BY <1>3
<1> HIDE DEF q, at
<1>7. /\ rec \in RoamRecords /\ rec.at = at /\ rec.kind = q.kind /\ rec.source = q.source
      /\ rec.history = q.history /\ rec.export = q.export
  BY <1>3, <1>4, <1>6 DEF RoamRecords
<1> HIDE DEF rec
<1>. QED BY <1>1, <1>3, <1>5, <1>6, <1>7, NoneAssumption, RoamGoesOn DEF stores, q, Kinds

LEMMA RefuseKeeps ==
    ASSUME Apart, NEW j \in Roams, roam[j].at = "new", calls' \in Nat,
           roam' = [roam EXCEPT ![j] = [@ EXCEPT !.kind = "import", !.at = "refused"]],
           UNCHANGED <<suspends, stores, registry, request, exports>>
    PROVE  RoamingInv'
<1> DEFINE q == roam[j]
           rec == [q EXCEPT !.kind = "import", !.at = "refused"]
<1>1. /\ q \in RoamRecords /\ q.export = None /\ session[j] = None /\ Told(q.source)
      /\ roam' = [roam EXCEPT ![j] = rec]
  BY NoneAssumption DEF Apart, RoamOK, Kinds
<1>2. Tame
  <2>1. \A k \in Roams : roam[k].at = "done" => roam'[k].at = "done"
    BY DEF Apart, StateOK
  <2>. QED BY <2>1, NothingWritten DEF Beside, stores, Apart, StateOK
<1> HIDE DEF q
<1>3. /\ rec \in RoamRecords /\ rec.at = "refused" /\ rec.kind = "import" /\ rec.export = q.export
      /\ rec.source = q.source
  BY <1>1 DEF RoamRecords, OrNone, Kinds
<1> HIDE DEF rec
<1>. QED BY <1>1, <1>2, <1>3, RoamGoesOn, NoneAssumption DEF q, Kinds, stores

(* A request that ends, well or not, and one whose copy is whole. *)
LEMMA EndedKeeps ==
    ASSUME Apart, Tame, NEW j \in Roams, NEW at \in {"done", "failed"}, Ended(j, at),
           UNCHANGED <<byToken, registry, request, exports>>,
           at = "done" => roam[j].at \in {"activate", "suspend"}, roam[j].kind # None
    PROVE  RoamingInv'
<1> DEFINE q == roam[j]
           rec == [q EXCEPT !.at = at, !.source = None, !.history = <<>>, !.snapshot = None]
<1>1. RoamOK(j) /\ q \in RoamRecords /\ Told(None)
  BY IdFacts DEF Apart, RoamOK, Told
<1>2. roam' = [roam EXCEPT ![j] = rec]
  BY DEF Ended
<1>3. at = "done" => q.kind # "export" /\ (session[j] # None => session[j].origin # None /\ Whole(j))
  <2>1. ASSUME at = "done"
        PROVE  j \in Copying /\ q.at # "replay" /\ UnderWay(j)
    BY <1>1, <2>1 DEF RoamOK, Copying
  <2>. QED BY <2>1 DEF UnderWay
<1> HIDE DEF q
<1>4. /\ rec \in RoamRecords /\ rec.at = at /\ rec.kind = q.kind /\ rec.source = None
      /\ rec.export = q.export /\ rec.checked = q.checked
  BY <1>1, NoHistory DEF RoamRecords, OrNone
<1> HIDE DEF rec
<1>. QED BY <1>1, <1>2, <1>3, <1>4, RoamGoesOn DEF q, RoamOK

LEMMA BreakKeeps ==
    ASSUME Apart, NEW j \in Roams, Break(j)
    PROVE  RoamingInv'
<1>1. /\ roam[j].at # "new" /\ roam[j].at # "done" /\ Ended(j, "failed")
      /\ UNCHANGED <<suspends, stores, registry, calls, request, exports>>
  BY DEF Break, MidRoaming
<1>2. roam[j].kind # None
  BY <1>1 DEF Apart, RoamOK
<1>3. \A k \in Roams : roam[k].at = "done" => roam'[k].at = "done"
  BY <1>1 DEF Ended, Apart, StateOK
<1>4. Tame
  BY <1>1, <1>3, NothingWritten DEF Beside, stores, Apart, StateOK
<1>. QED BY <1>1, <1>2, <1>4, EndedKeeps DEF stores

(* What is so of a request whose copy is there. *)
LEMMA CopyFacts ==
    ASSUME Apart, NEW j \in Copying
    PROVE  /\ j \in Roams /\ j \in Ids /\ RoamOK(j) /\ UnderWay(j) /\ roam[j] \in RoamRecords
           /\ session[j] # None /\ session[j].origin # None /\ session[j].origin.point \in Nat
           /\ session[j].origin.session = roam[j].source
           /\ roam[j].kind # None /\ roam[j].kind # "export"
           /\ roam[j].source \in Ids \ {j} /\ session[roam[j].source] # None
           /\ Told(roam[j].source) /\ roam[j].history \in Histories
           /\ session[roam[j].source].origin # None => Whole(roam[j].source)
           /\ messages[j] \in Histories /\ messages[roam[j].source] \in Histories
           /\ roam[j].kind = "import" => roam[j].checked
<1>1. j \in Roams /\ j \in Ids /\ j \in MidRoaming /\ roam[j].at # "new" /\ roam[j].at # "done"
  BY IdFacts DEF Copying, MidRoaming
<1>2. RoamOK(j) /\ UnderWay(j)
  BY <1>1 DEF Apart, RoamOK
<1>3. /\ session[j] # None /\ session[j].origin # None /\ roam[j].kind # "export"
      /\ session[j].origin.session = roam[j].source
  BY <1>2 DEF UnderWay
<1>4. /\ roam[j].kind # None /\ roam[j].source \in Ids /\ session[roam[j].source] # None
      /\ Told(roam[j].source) /\ roam[j] \in RoamRecords
      /\ roam[j].kind = "import" => roam[j].checked
  BY <1>1, <1>2, <1>3 DEF RoamOK
<1>5. roam[j].source # j
  BY <1>1, <1>4 DEF Told
<1>. QED BY <1>1, <1>2, <1>3, <1>4, <1>5, SessionFacts, ToldIsWhole DEF RoamRecords

LEMMA WriteSnapshotKeeps ==
    ASSUME Apart, NEW j \in Roams, WriteSnapshot(j)
    PROVE  RoamingInv'
<1> DEFINE q == roam[j]
           rec == [q EXCEPT !.at = "activate"]
<1>1. /\ q.at = "restore" /\ roam' = [roam EXCEPT ![j] = rec]
      /\ UNCHANGED <<suspends, session, byToken, messages, registry, calls, request, exports>>
      /\ latest' = [latest EXCEPT ![j] = q.snapshot]
  BY DEF WriteSnapshot, RoamTo
<1>2. j \in Copying
  BY <1>1 DEF Copying
<1>3. q.snapshot \in OrNone(Histories) /\ (q.export # None => q.kind = "import")
  BY <1>2, CopyFacts DEF RoamRecords, RoamOK
<1>4. latest' \in [Ids -> OrNone(Histories)]
  BY <1>1, <1>3 DEF Apart, StateOK
<1>5. Tame
  <2>1. \A k \in Roams : roam[k].at = "done" => roam'[k].at = "done"
    BY <1>1 DEF Apart, StateOK
  <2>. QED BY <1>1, <1>4, <2>1, NothingWritten DEF Beside, Apart, StateOK
<1>6. /\ q \in RoamRecords /\ q.kind # None /\ q.source \in Ids /\ session[q.source] # None
      /\ Told(q.source) /\ (q.kind = "import" => q.checked)
  BY <1>2, CopyFacts
<1> HIDE DEF q
<1>7. /\ rec \in RoamRecords /\ rec.at = "activate" /\ rec.kind = q.kind /\ rec.source = q.source
      /\ rec.export = q.export /\ rec.checked = q.checked
  BY <1>6 DEF RoamRecords
<1> HIDE DEF rec
<1>. QED BY <1>1, <1>3, <1>5, <1>6, <1>7, RoamGoesOn DEF q

LEMMA ActivateKeeps ==
    ASSUME Apart, NEW j \in Roams, Activate(j)
    PROVE  RoamingInv'
<1> DEFINE q == roam[j]
           rec == [q EXCEPT !.at = "suspend"]
<1>1. /\ q.at = "activate" /\ session' = Update(j, "active")
      /\ UNCHANGED <<suspends, byToken, messages, latest, registry, calls, request, exports>>
      /\ IF q.kind = "handoff" THEN roam' = [roam EXCEPT ![j] = rec] ELSE Ended(j, "done")
  BY DEF Activate, RoamTo
<1>2. j \in Copying
  BY <1>1 DEF Copying
<1>3. /\ j \in Ids /\ session[j] # None /\ session[j].origin # None /\ Whole(j) /\ q.kind # None
  BY <1>1, <1>2, CopyFacts DEF UnderWay
<1>4. Tame
  <2>1. \A k \in Roams : roam[k].at = "done" => roam'[k].at = "done"
    BY <1>1 DEF Apart, StateOK, Ended
  <2>. QED BY <1>1, <1>3, <2>1, UpdateIsTame DEF Beside, Apart, StateOK
<1>5. CASE q.kind # "handoff"
  BY <1>1, <1>3, <1>4, <1>5, EndedKeeps
<1>6. CASE q.kind = "handoff"
  <2>1. /\ q \in RoamRecords /\ q.source \in Ids /\ session[q.source] # None
        /\ Told(q.source) /\ (q.kind = "import" => q.checked)
        /\ (q.export # None => q.kind = "import")
    BY <1>2, CopyFacts DEF RoamOK
  <2>2. roam' = [roam EXCEPT ![j] = rec]
    BY <1>1, <1>6
  <2> HIDE DEF q
  <2>3. /\ rec \in RoamRecords /\ rec.at = "suspend" /\ rec.kind = q.kind /\ rec.source = q.source
        /\ rec.export = q.export /\ rec.checked = q.checked
    BY <2>1 DEF RoamRecords
  <2> HIDE DEF rec
  <2>. QED BY <1>1, <1>3, <1>4, <1>6, <2>1, <2>2, <2>3, RoamGoesOn DEF q
<1>. QED BY <1>5, <1>6

LEMMA SuspendKeeps ==
    ASSUME Apart, NEW j \in Roams, SuspendSource(j)
    PROVE  RoamingInv'
<1>1. /\ roam[j].at = "suspend" /\ session' = Update(roam[j].source, "suspended") /\ Ended(j, "done")
      /\ UNCHANGED <<suspends, byToken, messages, latest, registry, calls, request, exports>>
  BY DEF SuspendSource
<1>2. j \in Copying
  BY <1>1 DEF Copying
<1>3. /\ roam[j].source \in Ids /\ session[roam[j].source] # None /\ roam[j].kind # None
      /\ session[roam[j].source].origin # None => Whole(roam[j].source)
  BY <1>2, CopyFacts
<1>4. Tame
  <2>1. \A k \in Roams : roam[k].at = "done" => roam'[k].at = "done"
    BY <1>1 DEF Apart, StateOK, Ended
  <2>. QED BY <1>1, <1>3, <2>1, UpdateIsTame DEF Beside, Apart, StateOK
<1>. QED BY <1>1, <1>3, <1>4, EndedKeeps

(* The first of the messages that are still to come is appended. *)
LEMMA ReplayGoesOn ==
    ASSUME NEW x \in Histories, NEW h \in Histories, NEW y \in Histories, NEW n,
           Len(x) + Len(h) = n, IsHistoryOf(x \o h, y), h # <<>>
    PROVE  /\ Len(Append(x, Head(h))) + Len(Tail(h)) = n
           /\ IsHistoryOf(Append(x, Head(h)) \o Tail(h), y)
           /\ Len(x) + 1 <= n /\ Head(h) = y[Len(x) + 1]
<1>1. /\ Head(h) \in Messages /\ Len(Tail(h)) = Len(h) - 1
      /\ Append(x, Head(h)) \o Tail(h) = x \o h
      /\ (x \o h)[Len(x) + 1] = Head(h) /\ Len(x \o h) = Len(x) + Len(h)
  BY HistoryInParts
<1>2. Len(x) \in Nat /\ Len(h) \in Nat /\ Len(Append(x, Head(h))) = Len(x) + 1
  BY <1>1, HistoryOfAppend DEF Histories
<1>3. Len(h) > 0
  BY DEF Histories
<1>4. Len(x) + 1 \in 1 .. Len(x \o h)
  BY <1>1, <1>2, <1>3
<1>. QED BY <1>1, <1>2, <1>3, <1>4 DEF IsHistoryOf

LEMMA CopyGoesOn ==
    ASSUME NEW x \in Histories, NEW y \in Histories, NEW m \in Messages, NEW n \in Nat, NEW p,
           \A i \in DOMAIN x : (i <= n => x[i] = y[i]) /\ (i = n + 1 => x[i] = p),
           Len(x) + 1 <= n => m = y[Len(x) + 1], Len(x) = n => m = p
    PROVE  \A i \in DOMAIN Append(x, m) : /\ i <= n => Append(x, m)[i] = y[i]
                                          /\ i = n + 1 => Append(x, m)[i] = p
<1> DEFINE k == Len(x)  a == Append(x, m)
<1>1. /\ k \in Nat /\ DOMAIN x = 1 .. k /\ DOMAIN a = 1 .. (k + 1)
      /\ a[k + 1] = m /\ \A i \in 1 .. k : a[i] = x[i]
  BY HistoryOfAppend DEF Histories
<1>2. (k + 1 <= n => m = y[k + 1]) /\ (k = n => m = p)
  OBVIOUS
<1> HIDE DEF k, a
<1>3. ASSUME NEW i \in 1 .. (k + 1)
      PROVE  (i <= n => a[i] = y[i]) /\ (i = n + 1 => a[i] = p)
  <2>1. i \in 1 .. k \/ i = k + 1
    BY <1>1
  <2>2. CASE i \in 1 .. k
    BY <1>1, <2>2
  <2>3. CASE i = k + 1
    <3>1. k + 1 = n + 1 => k = n
      BY <1>1
    <3>. QED BY <1>1, <1>2, <2>3, <3>1
  <2>. QED BY <2>1, <2>2, <2>3
<1>. QED BY <1>1, <1>3 DEF a

(* The copy is appended to as its history goes on, and then its            *)
(* provenance.                                                             *)
LEMMA CopySaid ==
    ASSUME Apart, NEW j \in Roams, roam[j].at = "replay", NEW m \in Messages,
           messages' = Said(j, m),
           UNCHANGED <<suspends, session, byToken, latest, registry, calls, request, exports>>,
           NEW rec \in RoamRecords, roam' = [roam EXCEPT ![j] = rec],
           rec.kind = roam[j].kind, rec.source = roam[j].source, rec.export = roam[j].export,
           rec.checked = roam[j].checked,
           \/ /\ rec.at = "replay" /\ roam[j].history # <<>>
              /\ m = Head(roam[j].history) /\ rec.history = Tail(roam[j].history)
           \/ /\ rec.at \in {"restore", "activate"} /\ roam[j].history = <<>> /\ m = Provenance(j)
              /\ rec.at = "restore" => rec.snapshot # None
    PROVE  RoamingInv'
<1> DEFINE s == roam[j].source  from == session[j].origin
           x == messages[j]  h == roam[j].history  y == messages[s]  n == from.point
<1>1. /\ j \in Copying /\ j \in Ids /\ RoamOK(j) /\ UnderWay(j)
      /\ session[j] # None /\ from # None /\ n \in Nat /\ from.session = s
      /\ roam[j].kind # None /\ roam[j].kind # "export"
      /\ s \in Ids \ {j} /\ session[s] # None /\ Told(s)
      /\ x \in Histories /\ y \in Histories /\ h \in Histories
      /\ roam[j].kind = "import" => roam[j].checked
  <2>1. j \in Copying
    BY DEF Copying
  <2>. QED BY <2>1, CopyFacts
<1>2. \A k \in Roams : roam'[k] = IF k = j THEN rec ELSE roam[k]
  BY DEF Apart, StateOK
<1>3. Beside
  BY <1>2 DEF Beside, Apart, StateOK
<1>4. /\ StoresGrow /\ \A q \in Ids : StillNone(q) /\ (q # j => Quiet(q))
      /\ messages'[j] = Append(x, m) /\ messages'[s] = y
  BY <1>1, <1>3, SaidGrows
<1>5. /\ Len(x) + Len(h) = n /\ IsHistoryOf(x \o h, y)
      /\ session[j].origin.kind = roam[j].kind
      /\ roam[j].kind = "import" => session[j].origin.export = roam[j].export
  BY <1>1 DEF UnderWay
<1>6. /\ session[j].token = j
      /\ n <= Len(y)
      /\ \A i \in DOMAIN x : /\ i <= n => x[i] = y[i]
                             /\ i = n + 1 => x[i] = Provenance(j)
      /\ session[j].status = "idle"
  <2>1. SessionOK(j) /\ session[j].origin # None /\ session[j].origin.session = s
    BY <1>1 DEF Apart
  <2>2. ~(n < Len(x))
    <3>1. Len(x) \in Nat /\ Len(h) \in Nat
      BY <1>1 DEF Histories
    <3> HIDE DEF x, h, n
    <3>. QED BY <1>1, <1>5, <3>1
  <2>. QED BY <1>1, <2>1, <2>2 DEF SessionOK, Whole
<1>7. /\ Len(x) \in Nat /\ Len(h) \in Nat /\ Len(Append(x, m)) = Len(x) + 1
      /\ Append(x, m) \in Histories
  BY <1>1, HistoryOfAppend DEF Histories
<1>8. /\ Len(x) + 1 <= n => m = y[Len(x) + 1]
      /\ Len(x) = n => m = Provenance(j)
      /\ rec.at = "replay" => /\ Len(Append(x, m)) + Len(rec.history) = n
                              /\ IsHistoryOf(Append(x, m) \o rec.history, y)
      /\ rec.at # "replay" => n < Len(Append(x, m))
  <2> HIDE DEF x, h, y, n, s
  <2>1. CASE h # <<>> /\ m = Head(h) /\ rec.history = Tail(h) /\ rec.at = "replay"
    <3>1. /\ Len(Append(x, m)) + Len(rec.history) = n
          /\ IsHistoryOf(Append(x, m) \o rec.history, y)
          /\ Len(x) + 1 <= n /\ m = y[Len(x) + 1]
      <4>1. /\ x \in Histories /\ h \in Histories /\ y \in Histories
            /\ Len(x) + Len(h) = n /\ IsHistoryOf(x \o h, y) /\ h # <<>>
        BY <1>1, <1>5, <2>1
      <4>2. /\ Len(Append(x, Head(h))) + Len(Tail(h)) = n
            /\ IsHistoryOf(Append(x, Head(h)) \o Tail(h), y)
            /\ Len(x) + 1 <= n /\ Head(h) = y[Len(x) + 1]
        BY <4>1, ReplayGoesOn
      <4>. QED BY <2>1, <4>2
    <3>2. Len(x) # n
      <4> DEFINE k == Len(x)
      <4>1. k \in Nat /\ k + 1 <= n /\ n \in Nat
        BY <1>1, <1>7, <3>1
      <4> HIDE DEF k
      <4>2. k # n
        BY <4>1
      <4>. QED BY <4>2 DEF k
    <3>. QED BY <2>1, <3>1, <3>2
  <2>2. CASE h = <<>> /\ m = Provenance(j) /\ rec.at # "replay"
    <3>1. Len(h) = 0
      BY <2>2
    <3>2. Len(x) = n /\ ~(Len(x) + 1 <= n) /\ n < Len(x) + 1
      <4> DEFINE k == Len(x)
      <4>1. k \in Nat /\ k + 0 = n
        BY <1>5, <1>7, <3>1
      <4> HIDE DEF k
      <4>2. k = n /\ ~(k + 1 <= n) /\ n < k + 1
        BY <4>1
      <4>. QED BY <4>2 DEF k
    <3>. QED BY <1>7, <2>2, <3>2
  <2>. QED BY <2>1, <2>2 DEF h
<1>9. /\ session' = session /\ exports' = exports /\ roam'[j] = rec
      /\ messages'[j] = Append(x, m) /\ messages'[s] = y
  BY <1>2, <1>4
<1>10. Whole(j)' <=> n < Len(Append(x, m))
  BY <1>9 DEF Whole
<1>11. SessionOK(j)'
  <2>1. \A i \in DOMAIN Append(x, m) : /\ i <= n => Append(x, m)[i] = y[i]
                                       /\ i = n + 1 => Append(x, m)[i] = Provenance(j)
    <3> HIDE DEF x, y, n
    <3>. QED BY <1>1, <1>6, <1>8, CopyGoesOn
  <2>. QED BY <1>1, <1>6, <1>9, <2>1 DEF SessionOK, Provenance
<1>12. UnderWay(j)'
  <2>1. /\ rec.at \in {"replay", "restore", "activate"} /\ rec.kind = roam[j].kind
        /\ rec.source = s /\ rec.export = roam[j].export
    OBVIOUS
  <2>2. /\ session'[j] # None /\ session'[j].origin # None
        /\ session'[j].origin.kind = rec.kind /\ rec.kind # "export"
        /\ session'[j].origin.session = rec.source
        /\ rec.kind = "import" => session'[j].origin.export = rec.export
    BY <1>1, <1>5, <1>9, <2>1
  <2>3. rec.at = "replay" => /\ Len(messages'[j]) + Len(rec.history) = session'[j].origin.point
                             /\ IsHistoryOf(messages'[j] \o rec.history, messages'[rec.source])
    BY <1>8, <1>9, <2>1
  <2>4. rec.at # "replay" => Whole(j)'
    BY <1>8, <1>10
  <2> HIDE DEF x, h, y, n, s, from
  <2>. QED BY <1>9, <2>1, <2>2, <2>3, <2>4 DEF UnderWay, Copying
<1>13. RoamOK(j)'
  <2>1. rec.at \in {"replay", "restore", "activate"}
    OBVIOUS
  <2>2. Told(s)'
    BY <1>1, <1>2 DEF Told, Copying
  <2>3. roam[j].export # None => roam[j].kind = "import" /\ exports[roam[j].export] # None
    BY <1>1 DEF RoamOK
  <2>. QED BY <1>1, <1>9, <1>12, <2>1, <2>2, <2>3 DEF RoamOK, MidRoaming
<1>. QED BY <1>1, <1>4, <1>11, <1>13, RoamKeeps

LEMMA ReplayKeeps ==
    ASSUME Apart, NEW j \in Roams, Replay(j)
    PROVE  RoamingInv'
<1> DEFINE q == roam[j]
           rec == [q EXCEPT !.history = Tail(@)]
<1>1. /\ q.at = "replay" /\ q.history # <<>> /\ messages' = Said(j, Head(q.history))
      /\ UNCHANGED <<suspends, session, byToken, latest, registry, calls, request, exports>>
      /\ roam' = [roam EXCEPT ![j] = rec]
  BY DEF Replay
<1>2. q \in RoamRecords /\ Head(q.history) \in Messages /\ Tail(q.history) \in Histories
  BY <1>1, CopyFacts, HistoryInParts, NoHistory DEF Copying
<1> HIDE DEF q
<1>3. /\ rec \in RoamRecords /\ rec.at = q.at /\ rec.kind = q.kind /\ rec.source = q.source
      /\ rec.export = q.export /\ rec.checked = q.checked /\ rec.history = Tail(q.history)
  BY <1>2 DEF RoamRecords
<1> HIDE DEF rec
<1>. QED BY <1>1, <1>2, <1>3, CopySaid DEF q

LEMMA IntroduceKeeps ==
    ASSUME Apart, NEW j \in Roams, Introduce(j)
    PROVE  RoamingInv'
<1> DEFINE q == roam[j]
           at == IF q.snapshot # None THEN "restore" ELSE "activate"
           rec == [q EXCEPT !.at = at]
<1>1. /\ q.at = "replay" /\ q.history = <<>> /\ messages' = Said(j, Provenance(j))
      /\ UNCHANGED <<suspends, session, byToken, latest, registry, calls, request, exports>>
      /\ roam' = [roam EXCEPT ![j] = rec]
  BY DEF Introduce, RoamTo
<1>2. q \in RoamRecords /\ Provenance(j) \in Messages
  BY <1>1, CopyFacts, IdFacts DEF Copying, Provenance, Messages
<1>3. at \in {"restore", "activate"} /\ (at = "restore" => q.snapshot # None)
  OBVIOUS
<1> HIDE DEF q, at
<1>4. /\ rec \in RoamRecords /\ rec.at = at /\ rec.kind = q.kind /\ rec.source = q.source
      /\ rec.export = q.export /\ rec.checked = q.checked /\ rec.snapshot = q.snapshot
  BY <1>2, <1>3 DEF RoamRecords
<1> HIDE DEF rec
<1>. QED BY <1>1, <1>2, <1>3, <1>4, CopySaid DEF q

-----------------------------------------------------------------------------
(* The steps that record an export or take one.                            *)

ExportsGrow ==
    \A e \in Roams : exports[e] # None =>
        /\ exports'[e] # None
        /\ exports'[e].source = exports[e].source /\ exports'[e].history = exports[e].history

LEMMA StoresStill ==
    ASSUME Apart, UNCHANGED <<suspends, stores>>, calls' \in Nat, ExportsGrow,
           \A j \in Roams : roam[j].at = "done" => roam'[j].at = "done"
    PROVE  StoresGrow /\ \A s \in Ids : StillNone(s) /\ Quiet(s)
<1>1. \A s \in Ids : IsHistoryOf(messages[s], messages'[s])
  BY HistoryIsOfItself DEF Apart, StateOK, stores
<1>. QED BY <1>1 DEF Apart, StateOK, stores, StoresGrow, ExportsGrow, StillNone, Quiet

LEMMA RecordKeeps ==
    ASSUME Apart, NEW j \in Roams, RecordExport(j)
    PROVE  RoamingInv'
<1> DEFINE q == roam[j]
           ends == [q EXCEPT !.at = "done", !.source = None, !.history = <<>>, !.snapshot = None]
           goes == [q EXCEPT !.at = "create"]
           bundle == Bundle(j)
<1>1. /\ q.at = "record" /\ UNCHANGED <<suspends, stores, registry, calls, request>>
      /\ exports' = [exports EXCEPT ![j] = bundle]
      /\ IF q.kind = "export" THEN roam' = [roam EXCEPT ![j] = ends] ELSE roam' = [roam EXCEPT ![j] = goes]
  BY DEF RecordExport, Ended, RoamTo
<1>2. /\ RoamOK(j) /\ q \in RoamRecords /\ q.kind \in {"export", "handoff"} /\ q.export = None
      /\ session[j] = None /\ exports[j] = None /\ Told(q.source) /\ j \in Ids
      /\ q.source \in Ids /\ session[q.source] # None /\ q.kind # None
      /\ IsHistoryOf(q.history, messages[q.source])
      /\ q.history \in Histories /\ q.snapshot \in OrNone(Histories)
  BY <1>1, IdFacts DEF Apart, RoamOK, MidRoaming, RoamRecords
<1>3. /\ bundle \in Exports /\ bundle.source = q.source /\ bundle.history = q.history
      /\ bundle.hashed /\ ~bundle.consumed /\ bundle # None
  <2>1. bundle \in Exports
    BY <1>2 DEF Bundle, Exports
  <2>2. bundle.source = q.source /\ bundle.history = q.history
    BY DEF Bundle
  <2>3. bundle.hashed = TRUE /\ bundle.consumed = FALSE
    BY DEF Bundle
  <2>. QED BY <2>1, <2>2, <2>3, NoneAssumption
<1> HIDE DEF bundle
<1>4. PICK rec \in RoamRecords :
          /\ roam' = [roam EXCEPT ![j] = rec]
          /\ rec.kind = q.kind /\ rec.export = None
          /\ \/ rec.at = "done" /\ rec.source = None
             \/ /\ rec.at = "create" /\ rec.kind = "handoff"
                /\ rec.source = q.source /\ rec.history = q.history
  <2> HIDE DEF q
  <2>1. ends \in RoamRecords /\ ends.at = "done" /\ ends.kind = q.kind /\ ends.export = q.export
          /\ ends.source = None
    BY <1>2, NoHistory DEF RoamRecords, OrNone
  <2>2. goes \in RoamRecords /\ goes.at = "create" /\ goes.kind = q.kind /\ goes.export = q.export
          /\ goes.source = q.source /\ goes.history = q.history
    BY <1>2 DEF RoamRecords
  <2> HIDE DEF ends, goes
  <2>. QED BY <1>1, <1>2, <2>1, <2>2
<1> HIDE DEF q, ends, goes
<1>5. \A k \in Roams : /\ roam'[k] = IF k = j THEN rec ELSE roam[k]
                       /\ exports'[k] = IF k = j THEN bundle ELSE exports[k]
  BY <1>1, <1>4 DEF Apart, StateOK
<1>6. StoresGrow /\ \A s \in Ids : StillNone(s) /\ Quiet(s)
  <2>1. ExportsGrow /\ (\A k \in Roams : roam[k].at = "done" => roam'[k].at = "done")
    BY <1>1, <1>2, <1>5 DEF ExportsGrow, q
  <2>. QED BY <1>1, <2>1, StoresStill DEF Apart, StateOK
<1>7. /\ q.source \in Roams => roam'[q.source].at = "done"
      /\ Told(rec.source)'
  <2>1. q.source \in Roams => roam'[q.source].at = "done"
    BY <1>2, <1>6 DEF Told, StoresGrow
  <2>. QED BY <1>4, <2>1, IdFacts DEF Told
<1>8. session' = session /\ messages' = messages
  BY <1>1 DEF stores
<1>9. RoamOK(j)'
  <2>1. UnderWay(j)'
    BY <1>2, <1>4, <1>5, <1>8 DEF UnderWay, Copying
  <2>. QED BY <1>2, <1>3, <1>4, <1>5, <1>7, <1>8, <2>1, NoneAssumption DEF RoamOK, MidRoaming, Kinds
<1>10. ExportOK(j)'
  BY <1>2, <1>3, <1>5, <1>7, <1>8 DEF ExportOK, Told, OrNone
<1>11. IndexOK'
  <2>1. TokenFindsOwner'
    BY <1>1 DEF Apart, IndexOK, TokenFindsOwner, stores
  <2>2. \A k \in Roams : roam[k].export # None => /\ roam[k].export \in Roams
                                                  /\ exports[roam[k].export] # None
    BY DEF Apart, RoamOK, RoamRecords, OrNone
  <2>3. SoleImporter' /\ HashedUntilImported'
    BY <1>2, <1>3, <1>4, <1>5, <2>2 DEF Apart, IndexOK, SoleImporter, HashedUntilImported
  <2>. QED BY <2>1, <2>3 DEF IndexOK
<1>12. /\ exports' \in [Roams -> OrNone(Exports)] /\ roam' = [k \in Roams |-> roam'[k]]
       /\ handler' = handler /\ request' = request /\ surfaces' = surfaces
  BY <1>1, <1>3, <1>4 DEF Apart, StateOK, ExportOK, OrNone, registry
<1>13. /\ \A s \in surfaces' : s \in Ids /\ session'[s] # None
       /\ \A k \in Roams : k \in Ids
       /\ \A r \in Requests : r \in Ids
       /\ request' = [r \in Requests |-> request'[r]] /\ handler' = [c \in Conns |-> handler'[c]]
  BY <1>8, <1>12, IdFacts DEF Apart, StateOK
<1>14. \A k \in Roams : k # j => roam'[k] = roam[k] /\ exports'[k] = exports[k]
  BY <1>5
<1>. QED BY <1>6, <1>9, <1>10, <1>11, <1>12, <1>13, <1>14, StepKeeps

LEMMA ConsumeKeeps ==
    ASSUME Apart, NEW j \in Roams, NEW e \in Roams, Consume(j, e), roam[j].at = "new",
           roam[e].kind = "export", roam[e].at = "done", calls' \in Nat,
           UNCHANGED <<suspends, stores, registry, request>>
    PROVE  RoamingInv'
<1> DEFINE q == roam[j]
           b == exports[e]
           rec == [q EXCEPT !.kind = "import", !.at = "create", !.source = b.source,
                            !.export = e, !.history = b.history, !.snapshot = b.snapshot]
           used == [b EXCEPT !.consumed = TRUE]
<1>1. /\ q \in RoamRecords /\ q.export = None /\ j # e /\ session[j] = None /\ exports[j] = None
      /\ j \in Ids
  BY IdFacts, NoneAssumption DEF Apart, RoamOK, Kinds
<1>2. /\ b # None /\ b \in Exports /\ b.source \in Ids /\ session[b.source] # None /\ Told(b.source)
      /\ IsHistoryOf(b.history, messages[b.source]) /\ b.hashed /\ ~b.consumed
  <2>1. b # None /\ ~b.consumed
    BY DEF Apart, RoamOK, Consume
  <2>. QED BY <2>1 DEF Apart, ExportOK, IndexOK, HashedUntilImported, OrNone
<1>3. exports' = [exports EXCEPT ![e] = used] /\ roam' = [roam EXCEPT ![j] = rec]
  BY DEF Consume, Unbundle
<1> HIDE DEF q, b
<1>4. /\ rec \in RoamRecords /\ rec.at = "create" /\ rec.kind = "import" /\ rec.source = b.source
      /\ rec.export = e /\ rec.history = b.history /\ rec.checked = q.checked
  BY <1>1, <1>2 DEF RoamRecords, Exports, OrNone, Kinds
<1>5. /\ used \in Exports /\ used # None /\ used.source = b.source /\ used.history = b.history
      /\ used.hashed /\ used.consumed
  <2>1. used \in Exports
    BY <1>2 DEF Exports
  <2>2. used.source = b.source /\ used.history = b.history /\ used.hashed = b.hashed
    BY <1>2 DEF Exports
  <2>3. used.consumed = TRUE
    BY <1>2 DEF Exports
  <2>. QED BY <1>2, <2>1, <2>2, <2>3, NoneAssumption
<1> HIDE DEF rec, used
<1>6. \A k \in Roams : /\ roam'[k] = IF k = j THEN rec ELSE roam[k]
                       /\ exports'[k] = IF k = e THEN used ELSE exports[k]
  BY <1>3 DEF Apart, StateOK
<1>7. StoresGrow /\ \A s \in Ids : StillNone(s) /\ Quiet(s)
  <2>1. ExportsGrow
    BY <1>5, <1>6 DEF ExportsGrow, b
  <2>2. \A k \in Roams : roam[k].at = "done" => roam'[k].at = "done"
    BY <1>6
  <2>. QED BY <2>1, <2>2, StoresStill
<1>8. session' = session /\ messages' = messages /\ UNCHANGED <<byToken, surfaces, handler, request>>
  BY DEF stores, registry
<1>9. b.source \in Roams => roam'[b.source].at = "done"
  BY <1>2, <1>7 DEF Told, StoresGrow
<1>10. RoamOK(j)'
  <2>1. UnderWay(j)'
    BY <1>1, <1>4, <1>6, <1>8 DEF UnderWay, Copying
  <2>2. e # None
    BY IdFacts
  <2>. QED BY <1>1, <1>2, <1>4, <1>5, <1>6, <1>8, <1>9, <2>1, <2>2, NoneAssumption
           DEF RoamOK, MidRoaming, Kinds, Told
<1>11. IndexOK'
  <2>1. TokenFindsOwner'
    BY <1>8 DEF Apart, IndexOK, TokenFindsOwner
  <2>2. \A k \in Roams : roam[k].export # None => /\ roam[k].export \in Roams \ {e}
                                                  /\ exports[roam[k].export] # None
    BY <1>2 DEF Apart, IndexOK, SoleImporter, RoamOK, RoamRecords, OrNone, b
  <2>3. HashedUntilImported'
    BY <1>2, <1>5, <1>6 DEF Apart, IndexOK, HashedUntilImported, b
  <2>4. SoleImporter'
    BY <1>4, <1>5, <1>6, <2>2 DEF Apart, IndexOK, SoleImporter
  <2>. QED BY <2>1, <2>3, <2>4 DEF IndexOK
<1>12. /\ exports' \in [Roams -> OrNone(Exports)] /\ roam' = [k \in Roams |-> roam'[k]]
       /\ \A s \in surfaces' : s \in Ids /\ session'[s] # None
       /\ request' = [r \in Requests |-> request'[r]] /\ handler' = [c \in Conns |-> handler'[c]]
  BY <1>3, <1>5, <1>8 DEF Apart, StateOK, ExportOK, OrNone
<1>13. (\A k \in Roams : k \in Ids) /\ (\A r \in Requests : r \in Ids)
  BY IdFacts
<1>14. \A k \in Roams : /\ k # j => roam'[k] = roam[k]
                        /\ exports[k] = None => exports'[k] = None
  BY <1>2, <1>6 DEF b
<1>. QED BY <1>7, <1>8, <1>10, <1>11, <1>12, <1>13, <1>14, StepKeeps

LEMMA ImportKeeps ==
    ASSUME Apart, NEW j \in Roams, NEW e \in Roams, Import(j, e)
    PROVE  RoamingInv'
<1>1. /\ roam[j].at = "new" /\ roam[e].kind = "export" /\ roam[e].at = "done"
      /\ UNCHANGED <<suspends, stores, registry, request>> /\ calls' \in Nat
  BY DEF Import, Come, Apart, StateOK
<1>2. CASE Consume(j, e)
  BY <1>1, <1>2, ConsumeKeeps
<1>3. CASE /\ roam' = [roam EXCEPT ![j] = [@ EXCEPT !.kind = "import", !.at = "refused"]]
           /\ UNCHANGED exports
  BY <1>1, <1>3, RefuseKeeps
<1>. QED BY <1>2, <1>3 DEF Import

-----------------------------------------------------------------------------
(* The steps that create a session.                                        *)

LEMMA CreateAdds ==
    ASSUME Apart, NEW s \in Ids, session[s] = None, NEW token \in Tokens, NEW origin \in OrNone(Origins),
           Create(s, token, origin), UNCHANGED <<suspends, latest, calls>>, ExportsGrow,
           \A j \in Roams : roam[j].at = "done" => roam'[j].at = "done"
    PROVE  /\ StoresGrow /\ TokenFindsOwner'
           /\ session'[s] # None /\ session'[s].token = token /\ session'[s].status = "idle"
           /\ session'[s].origin = origin /\ messages'[s] = <<>>
           /\ \A q \in Ids \ {s} : /\ session'[q] = session[q] /\ messages'[q] = messages[q]
                                   /\ StillNone(q) /\ Quiet(q)
<1> DEFINE rec == [token |-> token, status |-> "idle", origin |-> origin]
<1>1. /\ rec \in SessionRecords /\ rec.token = token /\ rec.status = "idle" /\ rec.origin = origin
  BY DEF SessionRecords
<1>2. /\ session' = [session EXCEPT ![s] = rec] /\ byToken' = [byToken EXCEPT ![token] = s]
      /\ messages' = [messages EXCEPT ![s] = <<>>]
  BY DEF Create
<1> HIDE DEF rec
<1>3. /\ session \in [Ids -> OrNone(SessionRecords)] /\ byToken \in [Tokens -> OrNone(Ids)]
      /\ messages \in [Ids -> Histories]
  BY DEF Apart, StateOK
<1>4. rec # None
  BY <1>1, NoneAssumption
<1>5. /\ \A q \in Ids : /\ session'[q] = IF q = s THEN rec ELSE session[q]
                        /\ messages'[q] = IF q = s THEN <<>> ELSE messages[q]
      /\ \A t \in Tokens : byToken'[t] = IF t = token THEN s ELSE byToken[t]
  BY <1>2, <1>3
<1>6. /\ session' \in [Ids -> OrNone(SessionRecords)] /\ byToken' \in [Tokens -> OrNone(Ids)]
      /\ messages' \in [Ids -> Histories]
  BY <1>1, <1>2, <1>3, NoHistory DEF OrNone
<1>7. \A q \in Ids \ {s} : IsHistoryOf(messages[q], messages'[q])
  BY <1>3, <1>5, HistoryIsOfItself
<1>8. StoresGrow
  BY <1>5, <1>6, <1>7 DEF Apart, StateOK, StoresGrow, ExportsGrow
<1>9. TokenFindsOwner'
  <2>1. /\ \A t \in Tokens : byToken[t] # None =>
               byToken[t] \in Ids \ {s} /\ session[byToken[t]] # None /\ session[byToken[t]].token = t
        /\ \A q \in Ids : session[q] # None => session[q].token \in Tokens /\ byToken[session[q].token] # None
    BY <1>3, SessionFacts DEF Apart, IndexOK, TokenFindsOwner, OrNone
  <2>2. s # None
    BY IdFacts
  <2>. QED BY <1>1, <1>4, <1>5, <2>1, <2>2 DEF TokenFindsOwner
<1>. QED BY <1>1, <1>4, <1>5, <1>8, <1>9 DEF StillNone, Quiet

LEMMA OpenKeeps ==
    ASSUME Apart, NEW r \in Requests, Open(r), UNCHANGED exports
    PROVE  RoamingInv'
<1> DEFINE q == request[r]
           token == IF q.token = None THEN r ELSE q.token
           rec == [q EXCEPT !.at = "wake", !.sid = r, !.token = None, !.force = FALSE]
<1>1. /\ q.at = "create" /\ Create(r, token, None) /\ request' = [request EXCEPT ![r] = rec]
      /\ UNCHANGED <<suspends, latest, registry, calls, roam>>
  BY DEF Open, Within
<1>2. /\ q \in RequestRecords /\ session[r] = None /\ Told(q.token) /\ r \in Ids /\ r \notin Roams
  BY <1>1, IdFacts DEF Apart, RequestOK
<1>3. token \in Tokens /\ Told(token)
  BY <1>2, IdFacts DEF RequestRecords, OrNone, Told
<1> HIDE DEF q, token
<1>4. /\ rec \in RequestRecords /\ rec.at = "wake" /\ rec.sid = r /\ rec.token = None
  BY <1>2 DEF RequestRecords, OrNone
<1> HIDE DEF rec
<1>5. None \in OrNone(Origins) /\ ExportsGrow /\ \A j \in Roams : roam[j].at = "done" => roam'[j].at = "done"
  BY <1>1 DEF OrNone, ExportsGrow
<1>6. /\ StoresGrow /\ TokenFindsOwner'
      /\ session'[r] # None /\ session'[r].token = token /\ session'[r].origin = None
      /\ \A s \in Ids \ {r} : StillNone(s) /\ Quiet(s)
  BY <1>1, <1>2, <1>3, <1>5, CreateAdds
<1>7. \A p \in Requests : request'[p] = IF p = r THEN rec ELSE request[p]
  BY <1>1 DEF Apart, StateOK
<1>8. RequestOK(r)'
  <2>1. Told(None)' /\ Told(r)'
    BY <1>2, IdFacts DEF Told
  <2>. QED BY <1>2, <1>4, <1>6, <1>7, <2>1 DEF RequestOK
<1>9. SessionOK(r)'
  <2>1. token \in Roams => roam'[token].at = "done"
    BY <1>1, <1>3 DEF Told
  <2>. QED BY <1>2, <1>6, <2>1 DEF SessionOK, Told
<1>10. IndexOK'
  BY <1>1, <1>6 DEF Apart, IndexOK, SoleImporter, HashedUntilImported
<1>11. /\ request' = [p \in Requests |-> request'[p]] /\ handler' = [c \in Conns |-> handler'[c]]
       /\ roam' = [j \in Roams |-> roam'[j]] /\ exports' \in [Roams -> OrNone(Exports)]
       /\ \A s \in surfaces' : s \in Ids /\ session'[s] # None
       /\ \A c \in Conns : handler'[c] = handler[c]
  BY <1>1, <1>6 DEF Apart, StateOK, ExportOK, StoresGrow, registry
<1>12. \A p \in Requests : RequestOK(p)' \/ (request'[p] = request[p] /\ StillNone(p))
  BY <1>6, <1>7, <1>8, IdFacts
<1>13. \A j \in Roams : roam'[j] = roam[j] /\ exports'[j] = exports[j] /\ StillNone(j) /\ Quiet(j)
  BY <1>1, <1>2, <1>6, IdFacts
<1>14. \A s \in Ids : SessionOK(s)' \/ (StillNone(s) /\ Quiet(s))
  BY <1>6, <1>9
<1>. QED BY <1>6, <1>10, <1>11, <1>12, <1>13, <1>14, StepKeeps

LEMMA CopyKeeps ==
    ASSUME Apart, NEW j \in Roams, roam[j].at = "create", Copy(j),
           NEW rec \in RoamRecords, roam' = [roam EXCEPT ![j] = rec],
           rec.at = "replay", rec.kind = roam[j].kind, rec.source = roam[j].source,
           rec.export = roam[j].export, rec.history = roam[j].history,
           rec.kind = "import" => rec.checked,
           UNCHANGED <<suspends, latest, registry, calls, request>>,
           ExportsGrow, exports' \in [Roams -> OrNone(Exports)],
           \A e \in Roams : /\ exports[e] = None => exports'[e] = None
                            /\ exports[e] # None => exports'[e].consumed = exports[e].consumed
                            /\ e = roam[j].export \/ exports'[e] = exports[e]
    PROVE  RoamingInv'
<1> DEFINE s == roam[j].source  h == roam[j].history  y == messages[s]  from == Origin(j)
<1>1. /\ RoamOK(j) /\ j \in Ids /\ j \in Tokens /\ j # None /\ session[j] = None
      /\ roam[j].kind \in Kinds /\ roam[j].kind # "export"
      /\ s \in Ids \ {j} /\ session[s] # None /\ Told(s)
      /\ h \in Histories /\ y \in Histories /\ IsHistoryOf(h, y)
  <2>1. /\ RoamOK(j) /\ roam[j] \in RoamRecords /\ j \in MidRoaming /\ j \in Ids
        /\ j \in Tokens /\ j # None
    BY IdFacts DEF Apart, RoamOK, MidRoaming
  <2>2. session[j] = None /\ s \in Ids /\ session[s] # None /\ roam[j].kind # None
    BY <2>1 DEF RoamOK
  <2>. QED BY <2>1, <2>2, SessionFacts DEF RoamOK, RoamRecords, OrNone
<1>2. /\ from \in Origins /\ from.kind = roam[j].kind /\ from.session = s
      /\ roam[j].kind = "import" => from.export = roam[j].export
      /\ from.point = Len(h) /\ Len(h) \in Nat /\ from # None
  <2>1. roam[j].export \in OrNone(Roams) /\ j \in OrNone(Roams) /\ Len(h) \in Nat
    BY <1>1 DEF RoamOK, RoamRecords, Histories, OrNone
  <2>2. from \in Origins
    BY <1>1, <2>1 DEF Origin, Origins
  <2>3. from.kind = roam[j].kind /\ from.session = s /\ from.point = Len(h)
        /\ (roam[j].kind = "import" => from.export = roam[j].export)
    BY DEF Origin
  <2>. QED BY <2>1, <2>2, <2>3, NoneAssumption
<1>3. \A k \in Roams : roam'[k] = IF k = j THEN rec ELSE roam[k]
  BY DEF Apart, StateOK
<1>4. /\ StoresGrow /\ TokenFindsOwner'
      /\ session'[j] # None /\ session'[j].token = j /\ session'[j].status = "idle"
      /\ session'[j].origin = from /\ messages'[j] = <<>>
      /\ \A q \in Ids \ {j} : /\ session'[q] = session[q] /\ messages'[q] = messages[q]
                              /\ StillNone(q) /\ Quiet(q)
  <2>1. Create(j, j, from) /\ from \in OrNone(Origins)
        /\ \A k \in Roams : roam[k].at = "done" => roam'[k].at = "done"
    BY <1>2, <1>3 DEF Copy, OrNone
  <2> HIDE DEF from
  <2>. QED BY <1>1, <2>1, CreateAdds
<1>5. messages'[s] = y /\ session'[s] # None /\ Told(s)'
  <2>1. Told(s)'
    BY <1>1, <1>3 DEF Told
  <2>. QED BY <1>1, <1>4, <2>1
<1>6. Len(<<>>) = 0 /\ <<>> \o h = h /\ Len(h) <= Len(y)
  BY <1>1, HistoryInParts, NoHistory DEF IsHistoryOf
<1>7. UnderWay(j)'
  <2>1. Len(messages'[j]) + Len(rec.history) = session'[j].origin.point
    BY <1>2, <1>4, <1>6
  <2>2. IsHistoryOf(messages'[j] \o rec.history, messages'[rec.source])
    BY <1>1, <1>4, <1>5, <1>6
  <2> HIDE DEF from, s, h, y
  <2>. QED BY <1>1, <1>2, <1>3, <1>4, <2>1, <2>2 DEF UnderWay, Copying, s, h
<1>8. RoamOK(j)'
  <2>1. roam[j].export # None => roam[j].kind = "import" /\ exports'[roam[j].export] # None
    <3>1. roam[j].export # None => roam[j].export \in Roams
      BY <1>1 DEF RoamOK, RoamRecords, OrNone
    <3>. QED BY <1>1, <3>1 DEF RoamOK, ExportsGrow
  <2>2. roam[j].kind # None
    BY <1>1, NoneAssumption
  <2>. QED BY <1>1, <1>3, <1>4, <1>5, <1>7, <2>1, <2>2 DEF RoamOK, MidRoaming
<1>9. SessionOK(j)'
  <2>1. DOMAIN messages'[j] = {}
    BY <1>4
  <2> HIDE DEF from
  <2>. QED BY <1>1, <1>2, <1>4, <1>5, <1>6, <2>1 DEF SessionOK
<1>10. IndexOK'
  <2>1. \A k \in Roams : roam'[k].export = roam[k].export
    BY <1>3
  <2>2. \A k \in Roams : roam[k].export # None => roam[k].export \in Roams /\ exports[roam[k].export] # None
    BY DEF Apart, RoamOK, RoamRecords, OrNone
  <2>3. SoleImporter'
    <3> SUFFICES ASSUME NEW k \in Roams, roam[k].export # None
                 PROVE  /\ exports'[roam[k].export].consumed
                        /\ roam'[k].at = "create" => exports'[roam[k].export].hashed
                        /\ \A i \in Roams : roam[i].export = roam[k].export => i = k
      BY <2>1 DEF SoleImporter
    <3>1. /\ exports[roam[k].export].consumed
          /\ roam[k].at = "create" => exports[roam[k].export].hashed
          /\ \A i \in Roams : roam[i].export = roam[k].export => i = k
      BY DEF Apart, IndexOK, SoleImporter
    <3>2. roam'[k].at = "create" => k # j /\ roam[k].at = "create"
      BY <1>3
    <3>3. roam'[k].at = "create" => exports'[roam[k].export] = exports[roam[k].export]
      BY <2>2, <3>1, <3>2
    <3>. QED BY <2>2, <3>1, <3>2, <3>3
  <2>4. HashedUntilImported'
    <3> SUFFICES ASSUME NEW e \in Roams, exports'[e] # None, ~exports'[e].consumed
                 PROVE  exports'[e].hashed
      BY DEF HashedUntilImported
    <3>1. exports[e] # None /\ ~exports[e].consumed
      OBVIOUS
    <3>2. e # roam[j].export
      BY <3>1, IdFacts DEF Apart, IndexOK, SoleImporter
    <3>. QED BY <3>1, <3>2 DEF Apart, IndexOK, HashedUntilImported
  <2>. QED BY <1>4, <2>3, <2>4 DEF IndexOK
<1>11. /\ request' = [r \in Requests |-> request'[r]] /\ handler' = [c \in Conns |-> handler'[c]]
       /\ roam' = [k \in Roams |-> roam'[k]]
       /\ \A q \in surfaces' : q \in Ids /\ session'[q] # None
       /\ \A c \in Conns : handler'[c] = handler[c]
  BY <1>4 DEF Apart, StateOK, StoresGrow, registry
<1>12. \A r \in Requests : request'[r] = request[r] /\ StillNone(r)
  BY <1>4, IdFacts
<1>13. \A k \in Roams : \/ RoamOK(k)'
                        \/ /\ roam'[k] = roam[k] /\ StillNone(k) /\ Quiet(k)
                           /\ exports[k] = None => exports'[k] = None
  BY <1>3, <1>4, <1>8, IdFacts
<1>14. \A q \in Ids : SessionOK(q)' \/ (StillNone(q) /\ Quiet(q))
  BY <1>4, <1>9
<1>. QED BY <1>4, <1>10, <1>11, <1>12, <1>13, <1>14, StepKeeps

LEMMA BranchKeeps ==
    ASSUME Apart, NEW j \in Roams, Branch(j)
    PROVE  RoamingInv'
<1> DEFINE q == roam[j]
           rec == [q EXCEPT !.at = "replay"]
<1>1. /\ q.at = "create" /\ q.kind \in {"handoff", "fork"} /\ Copy(j)
      /\ roam' = [roam EXCEPT ![j] = rec]
      /\ UNCHANGED <<suspends, latest, registry, calls, request, exports>>
  BY DEF Branch, RoamTo
<1>2. q \in RoamRecords /\ exports' \in [Roams -> OrNone(Exports)] /\ ExportsGrow
  BY <1>1 DEF Apart, StateOK, RoamOK, ExportOK, ExportsGrow
<1> HIDE DEF q
<1>3. /\ rec \in RoamRecords /\ rec.at = "replay" /\ rec.kind = q.kind /\ rec.source = q.source
      /\ rec.export = q.export /\ rec.history = q.history
  BY <1>2 DEF RoamRecords
<1> HIDE DEF rec
<1>. QED BY <1>1, <1>2, <1>3, CopyKeeps DEF q

LEMMA RestoreKeeps ==
    ASSUME Apart, NEW j \in Roams, Restore(j)
    PROVE  RoamingInv'
<1> DEFINE q == roam[j]  e == q.export  b == exports[e]
           rec == [q EXCEPT !.at = "replay", !.checked = b.hashed]
           opened == [b EXCEPT !.hashed = suspends]
<1>1. /\ q.at = "create" /\ q.kind = "import" /\ Copy(j)
      /\ roam' = [roam EXCEPT ![j] = rec] /\ exports' = [exports EXCEPT ![e] = opened]
      /\ UNCHANGED <<suspends, latest, registry, calls, request>>
  BY DEF Restore
<1>2. /\ q \in RoamRecords /\ e \in Roams /\ b # None /\ b \in Exports /\ b.hashed = TRUE
  <2>1. RoamOK(j) /\ q \in RoamRecords /\ e \in Roams /\ b # None
    BY <1>1 DEF Apart, RoamOK, RoamRecords, OrNone
  <2>2. b \in Exports
    BY <2>1 DEF Apart, ExportOK, OrNone
  <2>3. e # None /\ b.hashed
    BY <1>1, <2>1, IdFacts DEF Apart, IndexOK, SoleImporter
  <2>. QED BY <2>1, <2>2, <2>3 DEF Exports
<1> HIDE DEF q, b, e
<1>3. /\ rec \in RoamRecords /\ rec.at = "replay" /\ rec.kind = q.kind /\ rec.source = q.source
      /\ rec.export = q.export /\ rec.history = q.history /\ rec.checked = TRUE
  BY <1>2 DEF RoamRecords
<1>4. suspends \in BOOLEAN
  BY DEF Apart, StateOK
<1>5. /\ opened \in Exports /\ opened # None /\ opened.source = b.source
      /\ opened.history = b.history /\ opened.consumed = b.consumed
  <2>1. opened \in Exports
    BY <1>2, <1>4 DEF Exports
  <2>. QED BY <1>2, <2>1, NoneAssumption DEF Exports
<1> HIDE DEF rec, opened
<1>6. \A k \in Roams : exports'[k] = IF k = e THEN opened ELSE exports[k]
  BY <1>1 DEF Apart, StateOK
<1>7. exports' \in [Roams -> OrNone(Exports)]
  BY <1>1, <1>5 DEF Apart, StateOK, ExportOK, OrNone
<1>8. /\ ExportsGrow
      /\ \A k \in Roams : /\ exports[k] = None => exports'[k] = None
                          /\ exports[k] # None => exports'[k].consumed = exports[k].consumed
                          /\ k = roam[j].export \/ exports'[k] = exports[k]
  BY <1>2, <1>5, <1>6 DEF ExportsGrow, b, e, q
<1>. QED BY <1>1, <1>3, <1>7, <1>8, CopyKeeps DEF q

-----------------------------------------------------------------------------
(* RoamingInv is inductive.                                                *)

LEMMA RoamingStep == RoamingInv /\ [Next]_vars => RoamingInv'
<1> SUFFICES ASSUME RoamingInv, [Next]_vars PROVE RoamingInv'
  OBVIOUS
<1>1. Apart
  BY TakeApart
<1>2. ASSUME NEW r \in Requests, Completion(r), UNCHANGED exports
      PROVE  RoamingInv'
  BY <1>1, <1>2, CompletionKeeps, OpenKeeps
<1>3. ASSUME NEW c \in Conns, Surface(c), UNCHANGED exports
      PROVE  RoamingInv'
  BY <1>1, <1>3, SurfaceKeeps
<1>4. ASSUME NEW s \in Ids, Unregister(s), UNCHANGED exports
      PROVE  RoamingInv'
  BY <1>1, <1>4, UnregisterKeeps
<1>5. ASSUME NEW j \in Roams, \/ \E s \in Ids : Export(j, s) \/ Handoff(j, s) \/ Fork(j, s)
                              \/ \E e \in Roams : Import(j, e)
                              \/ RoamStep(j) \/ Break(j)
      PROVE  RoamingInv'
  <2>1. CASE \E s \in Ids : Export(j, s) \/ Handoff(j, s) \/ Fork(j, s)
    BY <1>1, <2>1, BeginKeeps
  <2>2. CASE \E e \in Roams : Import(j, e)
    BY <1>1, <2>2, ImportKeeps
  <2>3. CASE RoamStep(j)
    BY <1>1, <2>3, ReadSnapshotKeeps, RecordKeeps, RestoreKeeps, BranchKeeps, ReplayKeeps,
       IntroduceKeeps, WriteSnapshotKeeps, ActivateKeeps, SuspendKeeps DEF RoamStep
  <2>4. CASE Break(j)
    BY <1>1, <2>4, BreakKeeps
  <2>. QED BY <1>5, <2>1, <2>2, <2>3, <2>4
<1>6. CASE UNCHANGED vars
  <2>1. UNCHANGED <<suspends, session, byToken, messages, latest, surfaces, handler, calls, request, roam, exports>>
    BY <1>6 DEF vars, stores, registry
  <2>2. /\ \A s \in Ids : IsHistoryOf(messages[s], messages'[s])
        /\ exports \in [Roams -> OrNone(Exports)]
    BY <1>1, <2>1, HistoryIsOfItself DEF Apart, StateOK, ExportOK
  <2>3. StoresGrow /\ \A s \in Ids : StillNone(s) /\ Quiet(s)
    BY <1>1, <2>1, <2>2 DEF Apart, StateOK, StoresGrow, StillNone, Quiet
  <2>4. IndexOK'
    BY <1>1, <2>1, <2>3, IndexStays
  <2>5. (\A k \in Roams : k \in Ids) /\ (\A r \in Requests : r \in Ids)
    BY IdFacts
  <2>6. /\ \A s \in surfaces' : s \in Ids /\ session'[s] # None
        /\ roam' = [j \in Roams |-> roam'[j]] /\ exports' \in [Roams -> OrNone(Exports)]
        /\ request' = [r \in Requests |-> request'[r]] /\ handler' = [c \in Conns |-> handler'[c]]
    BY <1>1, <2>1, <2>2 DEF Apart, StateOK
  <2>. QED BY <1>1, <2>1, <2>3, <2>4, <2>5, <2>6, StepKeeps
<1>. QED BY <1>2, <1>3, <1>4, <1>5, <1>6 DEF Next

LEMMA RoamingInvariant == Spec => []RoamingInv
<1>1. Init => RoamingInv
  <2> SUFFICES ASSUME Init PROVE RoamingInv
    OBVIOUS
  <2> USE DEF Init, SessionsInit
  <2>1. TypeOK
    BY NoHistory, SessionsAssumption DEF TypeOK, OrNone, RequestRecords, HandlerRecords, RoamRecords
  <2>2. Fresh /\ Placed /\ TokenFindsOwner
    BY IdFacts DEF Fresh, Placed, TokenFindsOwner, MidRoaming
  <2>3. HistoriesHold
    BY NoHistory, IdFacts DEF HistoriesHold
  <2>4. CopiesUnderWay
    BY DEF CopiesUnderWay, UnderWay, Copying
  <2>5. NobodyIsAhead
    BY IdFacts DEF NobodyIsAhead, Told
  <2>6. CopiesAgree /\ SoleImporter /\ HashedUntilImported /\ IntegrityChecked
    BY IdFacts DEF CopiesAgree, SoleImporter, HashedUntilImported, IntegrityChecked
  <2>. QED BY <2>1, <2>2, <2>3, <2>4, <2>5, <2>6 DEF RoamingInv
<1>. QED BY <1>1, RoamingStep, PTL DEF Spec

-----------------------------------------------------------------------------
(* Every variable of the stores and the requests keeps its type.           *)
THEOREM RoamingTypeCorrect == Spec => []TypeOK
<1>1. RoamingInv => TypeOK BY DEF RoamingInv
<1>. QED BY <1>1, RoamingInvariant, PTL

(* A token finds a session that has it, and every session's token finds    *)
(* one.                                                                    *)
THEOREM TokensFindOwners == Spec => []TokenFindsOwner
<1>1. RoamingInv => TokenFindsOwner BY DEF RoamingInv
<1>. QED BY <1>1, RoamingInvariant, PTL

(* A copy and its source share the history up to the copy's point as far   *)
(* as the copy goes, wherever its replay breaks; and a copy that was ever  *)
(* active, or that a client knows, is whole.                               *)
THEOREM CopiesStayTrue == Spec => []CopiesAgree
<1>1. RoamingInv => CopiesAgree BY DEF RoamingInv
<1>. QED BY <1>1, RoamingInvariant, PTL

(* No session is imported from a bundle that was not checked.              *)
THEOREM ImportsAreChecked == Spec => []IntegrityChecked
<1>1. RoamingInv => IntegrityChecked BY DEF RoamingInv
<1>. QED BY <1>1, RoamingInvariant, PTL

-----------------------------------------------------------------------------
(* The tokens implement SingleUse.                                         *)

Still == UNCHANGED Tickets!vars
Issued == {e \in Roams : exports[e] # None}

LEMMA StillWhen ==
    ASSUME \A e \in Roams : /\ exports'[e] # None <=> exports[e] # None
                            /\ roam'[e].export = roam[e].export
                            /\ roam[e].export \in Roams => (session'[e] # None <=> session[e] # None)
    PROVE  Still
<1>1. Issued' = Issued
  BY DEF Issued
<1>2. Redeemed' = Redeemed
  BY DEF Redeemed
<1>3. Imported' = Imported
  <2>1. \A p \in Redeemed : session'[p[2]] # None <=> session[p[2]] # None
    BY DEF Redeemed
  <2>. QED BY <1>2, <2>1 DEF Imported
<1>. QED BY <1>1, <1>2, <1>3 DEF Still, Issued, Tickets!vars

LEMMA UpdateStays ==
    ASSUME Apart, NEW s \in Ids, session[s] # None, NEW status \in {"idle", "active", "suspended"},
           session' = Update(s, status)
    PROVE  \A q \in Ids : session'[q] # None <=> session[q] # None
<1> DEFINE rec == [session[s] EXCEPT !.status = status]
<1>1. rec \in SessionRecords
  BY SessionFacts DEF SessionRecords
<1>2. session' = [session EXCEPT ![s] = rec]
  BY DEF Update
<1> HIDE DEF rec
<1>. QED BY <1>1, <1>2, NoneAssumption DEF Apart, StateOK

LEMMA RecordIssues ==
    ASSUME RoamingInv, NEW j \in Roams, RecordExport(j)
    PROVE  Tickets!Issue(j)
<1>1. exports' = [exports EXCEPT ![j] = Bundle(j)] /\ UNCHANGED session
  BY DEF RecordExport, stores
<1>2. \A k \in Roams : roam'[k].export = roam[k].export
  <2>1. roam \in [Roams -> RoamRecords]
    BY DEF RoamingInv, TypeOK
  <2>2. CASE roam[j].kind = "export"
    <3>1. roam' = [roam EXCEPT ![j] = [@ EXCEPT !.at = "done", !.source = None,
                                                !.history = <<>>, !.snapshot = None]]
      BY <2>2 DEF RecordExport, Ended
    <3>. QED BY <2>1, <3>1 DEF RoamRecords
  <2>3. CASE roam[j].kind # "export"
    BY <2>1, <2>3 DEF RoamRecords, RecordExport, RoamTo
  <2>. QED BY <2>2, <2>3
<1>3. Bundle(j) # None
  <2>1. /\ roam[j] \in RoamRecords /\ roam[j].source \in Ids
    BY DEF RoamingInv, TypeOK, Placed, OrNone, RoamRecords, RecordExport, MidRoaming
  <2>2. Bundle(j) \in Exports
    BY <2>1 DEF Bundle, Exports, RoamRecords
  <2>. QED BY <2>2, NoneAssumption
<1>4. Issued' = Issued \cup {j}
  BY <1>1, <1>3 DEF RoamingInv, TypeOK, Issued
<1>5. Redeemed' = Redeemed /\ Imported' = Imported
  BY <1>1, <1>2 DEF Redeemed, Imported
<1>. QED BY <1>4, <1>5 DEF Tickets!Issue, Issued

LEMMA ConsumeRedeems ==
    ASSUME RoamingInv, NEW j \in Roams, NEW e \in Roams, Consume(j, e), roam[j].at = "new",
           roam[e].kind = "export", roam[e].at = "done", UNCHANGED session
    PROVE  Tickets!Redeem(e, j)
<1>1. exports[e] # None /\ session[j] = None /\ roam[j].export = None
  BY NoneAssumption DEF RoamingInv, Placed, Fresh, Kinds
<1>2. exports[e] \in Exports
  BY <1>1 DEF RoamingInv, TypeOK, OrNone
<1>3. \A k \in Roams : roam[k].export # e
  BY IdFacts DEF RoamingInv, SoleImporter, Consume
<1>4. /\ roam'[j].export = e
      /\ \A k \in Roams \ {j} : roam'[k].export = roam[k].export
  BY DEF RoamingInv, TypeOK, RoamRecords, Consume, Unbundle
<1>5. Issued' = Issued /\ e \in Issued
  <2> DEFINE used == [exports[e] EXCEPT !.consumed = TRUE]
  <2>1. exports' = [exports EXCEPT ![e] = used]
    BY DEF Consume
  <2>2. used \in Exports
    BY <1>2 DEF Exports
  <2> HIDE DEF used
  <2>. QED BY <1>1, <2>1, <2>2, NoneAssumption DEF RoamingInv, TypeOK, Issued
<1>6. \A k \in Roams : <<e, k>> \notin Redeemed
  BY <1>3 DEF Redeemed
<1>7. Redeemed' = Redeemed \cup {<<e, j>>}
  <2>1. \A k \in Roams : k # None
    BY IdFacts
  <2>2. \A p \in Roams \X Roams : p \in Redeemed' <=> p \in Redeemed \/ p = <<e, j>>
    BY <1>1, <1>4, <2>1 DEF Redeemed
  <2>. QED BY <2>2 DEF Redeemed
<1>8. Imported' = Imported
  <2>1. \A p \in Roams \X Roams : p \in Imported' <=> p \in Imported
    BY <1>1, <1>7 DEF Imported
  <2>. QED BY <2>1 DEF Imported, Redeemed
<1>. QED BY <1>5, <1>6, <1>7, <1>8 DEF Tickets!Redeem, Issued

LEMMA RestoreRestores ==
    ASSUME RoamingInv, NEW j \in Roams, Restore(j)
    PROVE  Tickets!Restore(roam[j].export, j)
<1> DEFINE e == roam[j].export
<1>1. /\ e \in Roams /\ exports[e] # None /\ session[j] = None /\ j \in Ids
      /\ exports' = [exports EXCEPT ![e] = [exports[e] EXCEPT !.hashed = suspends]]
  BY IdFacts DEF RoamingInv, TypeOK, Placed, Fresh, RoamRecords, OrNone, Restore
<1>2. \A k \in Roams : roam'[k].export = roam[k].export
  BY DEF RoamingInv, TypeOK, RoamRecords, Restore
<1>3. session'[j] # None /\ \A k \in Roams \ {j} : session'[k] = session[k]
  <2> DEFINE rec == [token |-> j, status |-> "idle", origin |-> Origin(j)]
  <2>1. session' = [session EXCEPT ![j] = rec]
    BY DEF Restore, Copy, Create
  <2>2. Origin(j) \in Origins
    <3>1. Len(roam[j].history) \in Nat
      BY DEF RoamingInv, TypeOK, RoamRecords, Histories
    <3>2. roam[j].source \in Ids /\ roam[j].kind = "import"
      BY DEF RoamingInv, TypeOK, Placed, RoamRecords, OrNone, Restore, MidRoaming
    <3>. QED BY <1>1, <3>1, <3>2 DEF Origin, Origins, OrNone, Kinds
  <2>3. rec # None
    BY <1>1, <2>2, IdFacts, NoneAssumption DEF SessionRecords, OrNone
  <2> HIDE DEF rec
  <2>. QED BY <1>1, <2>1, <2>3, IdFacts DEF RoamingInv, TypeOK
<1>4. Issued' = Issued
  <2> DEFINE used == [exports[e] EXCEPT !.hashed = suspends]
  <2>1. exports[e] \in Exports /\ suspends \in BOOLEAN
    BY <1>1 DEF RoamingInv, TypeOK, OrNone
  <2>2. used \in Exports
    BY <2>1 DEF Exports
  <2>3. exports' = [exports EXCEPT ![e] = used]
    BY <1>1
  <2> HIDE DEF used
  <2>. QED BY <1>1, <2>2, <2>3, NoneAssumption DEF RoamingInv, TypeOK, Issued
<1>5. Redeemed' = Redeemed
  BY <1>2 DEF Redeemed
<1>6. <<e, j>> \in Redeemed \ Imported
  BY <1>1 DEF Redeemed, Imported
<1>7. Imported' = Imported \cup {<<e, j>>}
  <2>1. \A p \in Redeemed : p[2] \in Roams /\ (p[2] = j => p = <<e, j>>)
    BY DEF Redeemed
  <2>2. \A p \in Redeemed : session'[p[2]] # None <=> session[p[2]] # None \/ p = <<e, j>>
    BY <1>1, <1>3, <2>1
  <2>. QED BY <1>5, <1>6, <2>2 DEF Imported
<1>. QED BY <1>4, <1>5, <1>6, <1>7 DEF Tickets!Restore, Issued

LEMMA CompletionStays ==
    ASSUME RoamingInv, NEW r \in Requests, Completion(r), UNCHANGED exports
    PROVE  Still
<1>1. Apart /\ UNCHANGED <<roam, exports>>
  BY TakeApart DEF Completion, Arrive, Lookup, Open, Wake, Speak, Fail, AnswerEmpty, List, Checkpoint,
                   Answer, Abort
<1>2. \A j \in Roams : session'[j] # None <=> session[j] # None
  <2>1. CASE Wake(r)
    <3>1. request[r].sid \in Ids /\ session[request[r].sid] # None /\ session' = Update(request[r].sid, "active")
      BY <1>1, <2>1, InSession DEF Wake
    <3>. QED BY <1>1, <3>1, UpdateStays, IdFacts
  <2>2. CASE Open(r)
    <3>1. \A j \in Ids \ {r} : session'[j] = session[j]
      BY <2>2 DEF Open, Create, RoamingInv, TypeOK
    <3>. QED BY <3>1, IdFacts
  <2>3. CASE ~Wake(r) /\ ~Open(r)
    BY <2>3 DEF Completion, Arrive, Lookup, Speak, Fail, AnswerEmpty, List, Checkpoint, Answer, Abort, stores
  <2>. QED BY <2>1, <2>2, <2>3
<1>. QED BY <1>1, <1>2, StillWhen

LEMMA SurfaceStays ==
    ASSUME RoamingInv, NEW c \in Conns, Surface(c), UNCHANGED exports
    PROVE  Still
<1>1. Apart /\ UNCHANGED roam
  BY TakeApart DEF Surface, Register, Attach, Disconnect, Detach, Collapse
<1>2. CASE Attach(c) \/ Detach(c)
  <2>1. /\ handler[c].sid \in Ids /\ session[handler[c].sid] # None
        /\ session' = Update(handler[c].sid, "active") \/ session' = Update(handler[c].sid, "suspended")
    BY <1>1, <1>2 DEF Attach, Detach, Apart, HandlerOK
  <2>. QED BY <1>1, <2>1, UpdateStays, StillWhen, IdFacts
<1>3. CASE ~Attach(c) /\ ~Detach(c)
  <2>1. UNCHANGED session
    BY <1>3 DEF Surface, Register, Disconnect, Collapse, stores
  <2>. QED BY <1>1, <2>1, StillWhen
<1>. QED BY <1>2, <1>3

LEMMA OtherRoamStays ==
    ASSUME RoamingInv, NEW j \in Roams,
           \/ \E s \in Ids : Export(j, s) \/ Handoff(j, s) \/ Fork(j, s)
           \/ ReadSnapshot(j) \/ Branch(j) \/ Replay(j) \/ Introduce(j) \/ WriteSnapshot(j)
           \/ Activate(j) \/ SuspendSource(j) \/ Break(j)
           \/ /\ roam' = [roam EXCEPT ![j] = [@ EXCEPT !.kind = "import", !.at = "refused"]]
              /\ UNCHANGED <<session, exports>>
    PROVE  Still
<1>1. UNCHANGED exports
  BY DEF Export, Handoff, Fork, Begin, ReadSnapshot, Branch, Replay, Introduce, WriteSnapshot,
         Activate, SuspendSource, Break
<1>2. roam \in [Roams -> RoamRecords] /\ Apart
  BY TakeApart DEF RoamingInv, TypeOK
<1>3. \A k \in Roams : roam'[k].export = roam[k].export
  <2>1. CASE \E s \in Ids : Export(j, s) \/ Handoff(j, s) \/ Fork(j, s)
    <3>1. PICK s \in Ids, kind \in Kinds :
              roam' = [roam EXCEPT ![j] = [@ EXCEPT !.at = "snapshot", !.kind = kind,
                                                    !.source = s, !.history = messages[s]]]
      BY <2>1 DEF Export, Handoff, Fork, Begin, Kinds
    <3>. QED BY <1>2, <3>1 DEF RoamRecords
  <2>2. CASE ReadSnapshot(j)
    BY <1>2, <2>2 DEF ReadSnapshot, RoamRecords
  <2>3. CASE Replay(j)
    BY <1>2, <2>3 DEF Replay, RoamRecords
  <2>4. ASSUME NEW at, RoamTo(j, at)
        PROVE  \A k \in Roams : roam'[k].export = roam[k].export
    BY <1>2, <2>4 DEF RoamTo, RoamRecords
  <2>5. ASSUME NEW at, Ended(j, at)
        PROVE  \A k \in Roams : roam'[k].export = roam[k].export
    BY <1>2, <2>5 DEF Ended, RoamRecords
  <2>6. CASE roam' = [roam EXCEPT ![j] = [@ EXCEPT !.kind = "import", !.at = "refused"]]
    BY <1>2, <2>6 DEF RoamRecords
  <2>. QED BY <2>1, <2>2, <2>3, <2>4, <2>5, <2>6
           DEF Branch, Introduce, WriteSnapshot, Activate, SuspendSource, Break
<1>4. \A k \in Roams : roam[k].export \in Roams => (session'[k] # None <=> session[k] # None)
  <2>1. CASE Branch(j)
    <3>1. \A k \in Ids \ {j} : session'[k] = session[k]
      BY <2>1 DEF Branch, Copy, Create, RoamingInv, TypeOK
    <3>2. roam[j].export \notin Roams
      BY <1>2, <2>1, IdFacts DEF Branch, Apart, RoamOK
    <3>. QED BY <3>1, <3>2, IdFacts
  <2>2. CASE Activate(j)
    <3>1. session' = Update(j, "active") /\ session[j] # None /\ j \in Ids
      BY <1>2, <2>2, CopyFacts DEF Activate, Copying
    <3>. QED BY <1>2, <3>1, UpdateStays, IdFacts
  <2>3. CASE SuspendSource(j)
    <3>1. /\ session' = Update(roam[j].source, "suspended")
          /\ roam[j].source \in Ids /\ session[roam[j].source] # None
      BY <1>2, <2>3, CopyFacts DEF SuspendSource, Copying
    <3>. QED BY <1>2, <3>1, UpdateStays, IdFacts
  <2>4. CASE ~Branch(j) /\ ~Activate(j) /\ ~SuspendSource(j)
    BY <2>4 DEF Export, Handoff, Fork, Begin, ReadSnapshot, Replay, Introduce, WriteSnapshot, Break, stores
  <2>. QED BY <2>1, <2>2, <2>3, <2>4
<1>. QED BY <1>1, <1>3, <1>4, StillWhen

(* Whatever the requests and surfaces do, and wherever a store breaks,     *)
(* every step redeems, restores or issues as SingleUse allows, or does     *)
(* nothing to the tokens.                                                  *)
THEOREM TokensAreSingleUse == Spec => ImplementsSingleUse
<1>1. Init => Tickets!Init
  <2>1. Init => Issued = {} /\ Redeemed = {} /\ Imported = {}
    BY IdFacts DEF Init, SessionsInit, Issued, Redeemed, Imported
  <2>. QED BY <2>1 DEF Tickets!Init, Issued
<1>2. RoamingInv /\ [Next]_vars => [Tickets!Next]_(Tickets!vars)
  <2> SUFFICES ASSUME RoamingInv, [Next]_vars
               PROVE  Tickets!Next \/ Still
    BY DEF Still
  <2>1. ASSUME NEW r \in Requests, Completion(r), UNCHANGED exports
        PROVE  Still
    BY <2>1, CompletionStays
  <2>2. ASSUME NEW c \in Conns, Surface(c), UNCHANGED exports
        PROVE  Still
    BY <2>2, SurfaceStays
  <2>3. ASSUME NEW s \in Ids, Unregister(s), UNCHANGED exports
        PROVE  Still
    BY <2>3, StillWhen DEF Unregister, stores
  <2>4. ASSUME NEW j \in Roams, NEW s \in Ids, Export(j, s) \/ Handoff(j, s) \/ Fork(j, s)
        PROVE  Still
    BY <2>4, OtherRoamStays
  <2>5. ASSUME NEW j \in Roams, NEW e \in Roams, Import(j, e)
        PROVE  Tickets!Next \/ Still
    <3>1. roam[j].at = "new" /\ roam[e].kind = "export" /\ roam[e].at = "done" /\ UNCHANGED session
      BY <2>5 DEF Import, stores
    <3>2. CASE Consume(j, e)
      BY <3>1, <3>2, ConsumeRedeems DEF Tickets!Next
    <3>3. CASE /\ roam' = [roam EXCEPT ![j] = [@ EXCEPT !.kind = "import", !.at = "refused"]]
               /\ UNCHANGED exports
      BY <3>1, <3>3, OtherRoamStays
    <3>. QED BY <2>5, <3>2, <3>3 DEF Import
  <2>6. ASSUME NEW j \in Roams, RoamStep(j)
        PROVE  Tickets!Next \/ Still
    <3>1. CASE Restore(j)
      <4>1. roam[j].export \in Roams
        BY <3>1 DEF RoamingInv, TypeOK, Placed, RoamRecords, OrNone, Restore
      <4>. QED BY <3>1, <4>1, RestoreRestores DEF Tickets!Next
    <3>2. CASE RecordExport(j)
      BY <3>2, RecordIssues DEF Tickets!Next
    <3>. QED BY <2>6, <3>1, <3>2, OtherRoamStays DEF RoamStep
  <2>7. ASSUME NEW j \in Roams, Break(j)
        PROVE  Still
    BY <2>7, OtherRoamStays
  <2>8. CASE UNCHANGED vars
    BY <2>8, StillWhen DEF vars, stores
  <2>. QED BY <2>1, <2>2, <2>3, <2>4, <2>5, <2>6, <2>7, <2>8 DEF Next
<1>. QED BY <1>1, <1>2, RoamingInvariant, PTL DEF Spec, ImplementsSingleUse, Tickets!Spec
=============================================================================
