---------------------------- MODULE TableProofs ----------------------------
(***************************************************************************)
(* Proofs about the SQL queues, for any callers, turns and sessions: what  *)
(* they told their callers survives, and they implement DurableQueue.      *)
(***************************************************************************)
EXTENDS TableProps, TLAPS

USE TableAssumption DEF Idle, Of, Less, Set, Pending, table, told

-----------------------------------------------------------------------------
LEMMA NoAnswer == Range(<<>>) = {}
  BY DEF Range

(* Every variable keeps its type. *)
LEMMA TypeStep == TypeOK /\ [Next]_vars => TypeOK'
<1> SUFFICES ASSUME TypeOK, [Next]_vars PROVE TypeOK'
  OBVIOUS
<1> USE DEF TypeOK, Rows, Ops
<1>1. ASSUME NEW p \in Callers, NEW op \in Ops, NEW rows \in [Turns -> Rows], Execute(p, op, rows)
      PROVE  /\ backend' \in {"sqlite", "postgres"} /\ full' \in BOOLEAN /\ open' \in BOOLEAN
             /\ turn' \in [Turns -> [session : Sessions, step : 1 .. Steps]]
             /\ disk' \in [Turns -> Rows] /\ view' \in [Turns -> Rows]
             /\ call' \in [Callers -> [op : Ops, session : Sessions \cup {None}, seen : SUBSET Turns]]
             /\ Range(given') \subseteq Turns
  <2>1. Range(given') \subseteq Turns
    BY <1>1, NoAnswer DEF Execute
  <2>. QED BY <1>1, <2>1 DEF Execute
<1>2. ASSUME NEW p \in Callers, NEW t \in Turns, Enqueue(p, t) PROVE TypeOK'
  <2>1. (IF view[t] = None THEN Set({t}, "pending") ELSE view) \in [Turns -> Rows]
    OBVIOUS
  <2>. QED BY <1>1, <1>2, <2>1 DEF Enqueue
<1>3. ASSUME NEW p \in Callers, NEW s \in Sessions, NEW ids \in SUBSET Turns, Ack(p, s, ids) PROVE TypeOK'
  <2>1. Set(ids \cap Pending(s), "acked") \in [Turns -> Rows]
    OBVIOUS
  <2>. QED BY <1>1, <1>3, <2>1 DEF Ack
<1>4. ASSUME NEW p \in Callers, NEW T \in SUBSET Turns, Delete(p, T) PROVE TypeOK'
  <2>1. Set(T, None) \in [Turns -> Rows]
    OBVIOUS
  <2>. QED BY <1>1, <1>4, <2>1 DEF Delete
<1>5. ASSUME NEW p \in Callers, Forgive(p)
      PROVE  /\ call' \in [Callers -> [op : Ops, session : Sessions \cup {None}, seen : SUBSET Turns]]
             /\ due' \in [Callers -> SUBSET Turns] /\ barred' \in [Callers -> SUBSET Turns]
  BY <1>5 DEF Forgive
<1>6. ASSUME NEW p \in Callers, Commit(p) \/ Break(p) \/ RollBack(p) PROVE TypeOK'
  BY <1>5, <1>6 DEF Commit, Break, RollBack
<1>7. ASSUME NEW p \in Callers, NEW s \in Sessions, Drain(p, s) PROVE TypeOK'
  BY <1>7 DEF Drain, Range
<1>8. ASSUME NEW p \in Callers, Drained(p) PROVE TypeOK'
  <2>1. PICK T \in SUBSET Turns : given' \in Orders(T)
    BY <1>8 DEF Drained
  <2>. QED BY <1>5, <1>8, <2>1 DEF Drained, Orders
<1>9. CASE Startup \/ Shutdown \/ Crash
  <2>1. Range(given') \subseteq Turns
    BY <1>9 DEF Startup, Shutdown, Crash, Close, Range
  <2>2. CASE Startup
    BY <2>1, <2>2 DEF Startup
  <2>3. CASE Close
    BY <2>1, <2>3 DEF Close
  <2>. QED BY <1>9, <2>2, <2>3 DEF Shutdown, Crash
<1>10. CASE UNCHANGED vars
  BY <1>10 DEF vars, Range
<1>. QED BY <1>2, <1>3, <1>4, <1>6, <1>7, <1>8, <1>9, <1>10 DEF Next, Clear, PurgeExpired

LEMMA InitType == Init => TypeOK
<1> SUFFICES ASSUME Init PROVE TypeOK
  OBVIOUS
<1>1. Range(given) = {}
  BY DEF Init, Range
<1>2. disk \in [Turns -> Rows] /\ view \in [Turns -> Rows]
  BY DEF Init, Rows
<1>. QED BY <1>1, <1>2 DEF Init, TypeOK, Ops

(* No queue holds a value of another type, whatever is called, fails or    *)
(* dies.                                                                   *)
THEOREM TableTypeCorrect == Spec => []TypeOK
<1>1. Init => TypeOK
  BY InitType
<1>. QED BY <1>1, TypeStep, PTL DEF Spec

-----------------------------------------------------------------------------
(* The inductive invariant.                                                *)

LEMMA WriteKeeps ==
    ASSUME TableInv, TypeOK', NEW p \in Callers, NEW op \in {"enqueue", "ack", "delete"}, NEW rows,
           Execute(p, op, rows),
           \A q \in Callers \ {p} : due'[q] \subseteq due[q] /\ barred'[q] \subseteq barred[q]
    PROVE  ViewsMeet' /\ IdleOwesNothing'
<1> USE DEF TableInv, TypeOK, Execute
<1>1. ViewsMeet'
  BY DEF ViewsMeet
<1>2. IdleOwesNothing'
  BY DEF IdleOwesNothing
<1>. QED BY <1>1, <1>2

LEMMA ForgiveKeeps ==
    ASSUME TableInv, TypeOK', NEW p \in Callers, Forgive(p)
    PROVE  /\ IdleOwesNothing'
           /\ (\A q \in Callers : call[q] = Idle) => \A q \in Callers : call'[q] = Idle
           /\ \A q \in Callers : call'[q].op # None =>
                  q # p /\ call'[q] = call[q] /\ due'[q] = due[q] /\ barred'[q] = barred[q]
  BY DEF TableInv, TypeOK, Forgive, IdleOwesNothing

LEMMA TableStep == TableInv /\ [Next]_vars => TableInv'
<1> SUFFICES ASSUME TableInv, [Next]_vars PROVE TableInv'
  OBVIOUS
<1>1. TypeOK /\ TypeOK'
  BY TypeStep DEF TableInv
<1>2. ASSUME NEW p \in Callers, NEW t \in Turns, Enqueue(p, t) PROVE TableInv'
  <2>1. ViewsMeet' /\ IdleOwesNothing'
    BY <1>1, <1>2, WriteKeeps DEF Enqueue, TableInv, TypeOK
  <2>2. ASSUME ~full' PROVE ViewKeeps' /\ CallsStand'
    <3>1. ViewKeeps /\ CallsStand /\ full' = full
      BY <1>2, <2>2 DEF TableInv, Enqueue, Execute
    <3>2. ViewKeeps'
      BY <1>1, <1>2, <3>1 DEF ViewKeeps, Enqueue, Execute, TypeOK
    <3>3. CallsStand'
      BY <1>1, <1>2, <3>1 DEF ViewKeeps, CallsStand, Enqueue, Execute, TypeOK
    <3>. QED BY <3>2, <3>3
  <2>. QED BY <1>1, <2>1, <2>2 DEF TableInv
<1>3. ASSUME NEW p \in Callers, NEW s \in Sessions, NEW ids \in SUBSET Turns, Ack(p, s, ids)
      PROVE  TableInv'
  <2>1. ViewsMeet' /\ IdleOwesNothing'
    BY <1>1, <1>3, WriteKeeps DEF Ack, TableInv, TypeOK
  <2>2. ASSUME ~full' PROVE ViewKeeps' /\ CallsStand'
    <3>1. ViewKeeps /\ CallsStand /\ full' = full
      BY <1>3, <2>2 DEF TableInv, Ack, Execute
    <3>2. ViewKeeps'
      BY <1>1, <1>3, <3>1 DEF ViewKeeps, Ack, Execute, TypeOK
    <3>3. CallsStand'
      <4>1. \A q \in Callers : call'[q].op = "enqueue" => \A t \in due'[q] : view'[t] # None
        BY <1>1, <1>3, <3>1 DEF CallsStand, Ack, Execute, TypeOK
      <4>2. \A q \in Callers : call'[q].op = "ack" => \A t \in due'[q] : view'[t] = "acked"
        <5>1. ASSUME NEW t \in ids \cap Of(s), view[t] # None PROVE view'[t] = "acked"
          BY <1>1, <1>3, <5>1 DEF Ack, Execute, TypeOK, Rows
        <5>. QED BY <1>1, <1>3, <3>1, <5>1 DEF CallsStand, Ack, Execute, TypeOK
      <4>3. ASSUME NEW q \in Callers, call'[q].op = "drain"
            PROVE  /\ due'[q] \subseteq call'[q].seen /\ due'[q] \subseteq Pending(call[q].session)'
                   /\ barred'[q] \subseteq spent' /\ barred'[q] \cap call'[q].seen = {}
        <5>1. q # p /\ call'[q] = call[q] /\ due'[q] = due[q] \ (ids \cap Pending(s))
          BY <1>1, <1>3, <4>3 DEF Ack, Execute, TypeOK
        <5>2. \A t \in Turns : t \notin ids \cap Pending(s) => view'[t] = view[t]
          BY <1>3 DEF Ack, Execute
        <5>. QED BY <1>1, <1>3, <3>1, <4>3, <5>1, <5>2 DEF CallsStand, Ack, Execute, TypeOK
      <4>. QED BY <4>1, <4>2, <4>3 DEF CallsStand
    <3>. QED BY <3>2, <3>3
  <2>. QED BY <1>1, <2>1, <2>2 DEF TableInv
<1>4. ASSUME NEW p \in Callers, NEW T \in SUBSET Turns, Delete(p, T) PROVE TableInv'
  <2>1. ViewsMeet' /\ IdleOwesNothing'
    BY <1>1, <1>4, WriteKeeps DEF Delete, TableInv, TypeOK
  <2>2. ASSUME ~full' PROVE ViewKeeps' /\ CallsStand'
    <3>1. ViewKeeps /\ CallsStand /\ full' = full
      BY <1>4, <2>2 DEF TableInv, Delete, Execute
    <3>2. ViewKeeps'
      BY <1>1, <1>4, <3>1 DEF ViewKeeps, Delete, Execute, TypeOK
    <3>3. CallsStand'
      BY <1>1, <1>4, <3>1 DEF ViewKeeps, CallsStand, Delete, Execute, TypeOK
    <3>. QED BY <3>2, <3>3
  <2>. QED BY <1>1, <2>1, <2>2 DEF TableInv
<1>5. ASSUME NEW p \in Callers, Commit(p) PROVE TableInv'
  <2>1. ViewsMeet' /\ IdleOwesNothing'
    BY <1>1, <1>5, ForgiveKeeps DEF Commit, TableInv, ViewsMeet
  <2>2. ASSUME ~full' PROVE ViewKeeps' /\ CallsStand'
    <3>1. ViewKeeps /\ CallsStand /\ full' = full
      BY <1>5, <2>2 DEF TableInv, Commit
    <3>2. ViewKeeps'
      BY <1>1, <1>5, <3>1 DEF ViewKeeps, CallsStand, Commit, TypeOK
    <3>3. CallsStand'
      BY <1>1, <1>5, <3>1, ForgiveKeeps DEF CallsStand, Commit, TypeOK
    <3>. QED BY <3>2, <3>3
  <2>. QED BY <1>1, <2>1, <2>2 DEF TableInv
<1>6. ASSUME NEW p \in Callers, NEW s \in Sessions, Drain(p, s) PROVE TableInv'
  <2>1. ViewsMeet' /\ IdleOwesNothing'
    BY <1>1, <1>6 DEF Drain, TableInv, ViewsMeet, IdleOwesNothing, TypeOK
  <2>2. ASSUME ~full' PROVE ViewKeeps' /\ CallsStand'
    <3>1. ViewKeeps /\ CallsStand /\ full' = full
      BY <1>6, <2>2 DEF TableInv, Drain
    <3>2. ViewKeeps'
      BY <1>6, <3>1 DEF ViewKeeps, Drain
    <3>3. CallsStand'
      BY <1>1, <1>6, <3>1 DEF ViewKeeps, CallsStand, Drain, TypeOK
    <3>. QED BY <3>2, <3>3
  <2>. QED BY <1>1, <2>1, <2>2 DEF TableInv
<1>7. ASSUME NEW p \in Callers, Drained(p) \/ Break(p) PROVE TableInv'
  <2>1. /\ Forgive(p) /\ call[p].op # None
        /\ UNCHANGED <<backend, full, turn, open, table, stored, spent>>
    BY <1>7 DEF Drained, Break
  <2>2. ViewsMeet' /\ IdleOwesNothing'
    BY <1>1, <2>1, ForgiveKeeps DEF TableInv, ViewsMeet
  <2>3. ASSUME ~full' PROVE ViewKeeps' /\ CallsStand'
    BY <1>1, <2>1, <2>3, ForgiveKeeps DEF TableInv, ViewKeeps, CallsStand
  <2>. QED BY <1>1, <2>2, <2>3 DEF TableInv
<1>8. ASSUME NEW p \in Callers, RollBack(p) PROVE TableInv'
  BY <1>1, <1>8, ForgiveKeeps DEF RollBack, TableInv, ViewsMeet
<1>9. CASE Shutdown \/ Crash
  <2>1. Close
    BY <1>9 DEF Shutdown, Crash
  <2>2. ViewsMeet' /\ IdleOwesNothing'
    BY <2>1 DEF Close, ViewsMeet, IdleOwesNothing
  <2>3. ASSUME ~full' PROVE ViewKeeps' /\ CallsStand'
    BY <2>1, <2>3 DEF Close, TableInv, ViewKeeps, CallsStand
  <2>. QED BY <1>1, <2>2, <2>3 DEF TableInv
<1>10. CASE Startup
  BY <1>1, <1>10 DEF Startup, TableInv, ViewsMeet, IdleOwesNothing, ViewKeeps, CallsStand
<1>11. CASE UNCHANGED vars
  BY <1>1, <1>11 DEF vars, TableInv, ViewsMeet, IdleOwesNothing, ViewKeeps, CallsStand
<1>. QED BY <1>2, <1>3, <1>4, <1>5, <1>6, <1>7, <1>8, <1>9, <1>10, <1>11 DEF Next, Clear, PurgeExpired

LEMMA TableInvariant == Spec => []TableInv
<1>1. Init => TableInv
  <2> SUFFICES ASSUME Init PROVE TableInv
    OBVIOUS
  <2>1. TypeOK
    BY InitType
  <2>. QED BY <2>1 DEF Init, TableInv, ViewsMeet, IdleOwesNothing, ViewKeeps, CallsStand
<1>. QED BY <1>1, TableStep, PTL DEF Spec

(* What a caller was told is stored stays stored until it is removed, and  *)
(* what it was told is acked stays acked, if no disk is full: over any     *)
(* number of callers that share a transaction, fail, retry and restart.    *)
THEOREM WhatWasToldSurvives == Spec => []ToldTurnsSurvive
<1>1. TableInv => ToldTurnsSurvive
  BY DEF TableInv, ViewKeeps, ToldTurnsSurvive
<1>. QED BY <1>1, TableInvariant, PTL

-----------------------------------------------------------------------------
(* The refinement.  On a full disk nothing is owed, and every step is a    *)
(* step of DurableQueue that owes nothing.                                 *)

Q == Queue!Next \/ UNCHANGED Queue!vars

LEMMA Quiet ==
    ASSUME full' = full, turn' = turn, given' \in {given, <<>>},
           full \/ Owed' = Owed, full \/ spent' = spent,
           Asked(due)' = Asked(due), Asked(barred)' = Asked(barred)
    PROVE  Q
<1>1. Queue!Owe({})
  BY DEF Queue!Owe
<1>. QED BY <1>1 DEF Q, Queue!Next

LEMMA StillAsked ==
    ASSUME full' = full, \A q \in Callers : call[q].op = "drain" \/ call'[q].op = "drain" =>
               call'[q].op = call[q].op /\ due'[q] = due[q] /\ barred'[q] = barred[q]
    PROVE  Asked(due)' = Asked(due) /\ Asked(barred)' = Asked(barred)
  BY DEF Asked

LEMMA AnswersInOrder ==
    ASSUME NEW p \in Callers, Drained(p)
    PROVE  \A i, k \in DOMAIN given' : i < k => turn[given'[i]].step <= turn[given'[k]].step
  BY DEF Drained, Orders, Ordered

LEMMA FullStep ==
    ASSUME TableInv, [Next]_vars, full
    PROVE  Q
<1> USE DEF TableInv, TypeOK
<1>1. full'
  BY DEF Next, vars, Enqueue, Ack, Clear, PurgeExpired, Delete, Execute, Commit, Drain, Drained,
         Break, RollBack, Startup, Shutdown, Crash, Close
<1>2. turn' = turn
  BY DEF Next, vars, Enqueue, Ack, Clear, PurgeExpired, Delete, Execute, Commit, Drain, Drained,
         Break, RollBack, Startup, Shutdown, Crash, Close
<1>3. /\ Asked(due) = Queue!Nothing /\ Asked(due)' = Queue!Nothing
      /\ Asked(barred) = Queue!Nothing /\ Asked(barred)' = Queue!Nothing
  BY <1>1 DEF Asked, Queue!Nothing
<1>4. CASE given' \in {given, <<>>}
  BY <1>1, <1>2, <1>3, <1>4, Quiet
<1>5. ASSUME NEW p \in Callers, Drained(p) PROVE Q
  <2>1. Queue!Give(p)
    BY <1>1, <1>2, <1>3, <1>5, AnswersInOrder DEF Queue!Give, Queue!Nothing
  <2>. QED BY <2>1 DEF Q, Queue!Next
<1>6. given' \in {given, <<>>} \/ \E p \in Callers : Drained(p)
  BY DEF Next, vars, Enqueue, Ack, Clear, PurgeExpired, Delete, Execute, Commit, Drain,
         Break, RollBack, Startup, Shutdown, Crash, Close
<1>. QED BY <1>4, <1>5, <1>6

LEMMA EnqueueIsQuiet ==
    ASSUME TableInv, ~full, NEW p \in Callers, NEW t \in Turns, Enqueue(p, t)
    PROVE  Q
<1> USE DEF TableInv, TypeOK
<1>1. Owed' = Owed
  BY DEF Enqueue, Execute, Owed, ViewKeeps
<1>2. Asked(due)' = Asked(due) /\ Asked(barred)' = Asked(barred)
  BY StillAsked DEF Enqueue, Execute
<1>. QED BY <1>1, <1>2, Quiet DEF Enqueue, Execute

LEMMA AckIsAck ==
    ASSUME TableInv, ~full, NEW p \in Callers, NEW s \in Sessions, NEW ids \in SUBSET Turns, Ack(p, s, ids)
    PROVE  Q
<1> USE DEF TableInv, TypeOK
<1> DEFINE T == ids \cap Pending(s)
<1>1. Owed' = Owed \ T
  BY DEF Ack, Execute, Owed
<1>2. Asked(due)' = Queue!Less(Asked(due), T)
  BY DEF Ack, Execute, Asked, Queue!Less
<1>3. Asked(barred)' = Asked(barred)
  BY DEF Ack, Execute, Asked
<1>4. Queue!Ack(T)
  BY <1>1, <1>2, <1>3 DEF Queue!Ack, Ack, Execute
<1>. QED BY <1>4 DEF Q, Queue!Next, Ack, Execute

LEMMA DeleteIsForget ==
    ASSUME TableInv, ~full, NEW p \in Callers, NEW T \in SUBSET Turns, Delete(p, T)
    PROVE  Q
<1> USE DEF TableInv, TypeOK
<1>1. Owed' = Owed \ T
  BY DEF Delete, Execute, Owed
<1>2. Asked(due)' = Queue!Less(Asked(due), T)
  BY DEF Delete, Execute, Asked, Queue!Less
<1>3. Asked(barred)' = Queue!Less(Asked(barred), T)
  BY DEF Delete, Execute, Asked, Queue!Less
<1>4. Queue!Forget(T)
  BY <1>1, <1>2, <1>3 DEF Queue!Forget, Delete, Execute
<1>. QED BY <1>4 DEF Q, Queue!Next, Delete, Execute

LEMMA CommitTells ==
    ASSUME TableInv, ~full, NEW p \in Callers, Commit(p)
    PROVE  Q
<1> USE DEF TableInv, TypeOK
<1>1. Asked(due)' = Asked(due) /\ Asked(barred)' = Asked(barred)
  BY StillAsked DEF Commit, Forgive
<1>2. CASE call[p].op = "enqueue"
  <2> DEFINE T == {t \in due[p] : view[t] = "pending"}
  <2>1. Owed' = Owed \cup T
    BY <1>2 DEF Commit, Owed
  <2>2. T \in SUBSET Turns /\ T \cap spent = {} /\ spent' = spent
    BY <1>2 DEF Commit, ViewKeeps
  <2>3. Queue!Owe(T)
    BY <1>1, <2>1, <2>2 DEF Queue!Owe, Commit
  <2>. QED BY <2>2, <2>3 DEF Q, Queue!Next, Commit
<1>3. CASE call[p].op = "ack"
  <2>1. Owed' = Owed /\ due[p] \cap Owed = {} /\ spent' = spent \cup due[p]
    BY <1>3 DEF Commit, Owed, CallsStand
  <2>2. Queue!Confirm(due[p])
    BY <1>1, <2>1 DEF Queue!Confirm, Commit
  <2>. QED BY <2>2 DEF Q, Queue!Next, Commit
<1>4. CASE call[p].op = "delete"
  <2>1. Owed' = Owed /\ spent' = spent
    BY <1>4 DEF Commit, Owed
  <2>. QED BY <1>1, <2>1, Quiet DEF Commit
<1>. QED BY <1>2, <1>3, <1>4 DEF Commit

LEMMA DrainAsks ==
    ASSUME TableInv, ~full, NEW p \in Callers, NEW s \in Sessions, Drain(p, s)
    PROVE  Q
<1> USE DEF TableInv, TypeOK
<1>1. Asked(due)' = [Asked(due) EXCEPT ![p] = Owed \cap Queue!Of(s)]
  BY DEF Drain, Asked, Owed, Queue!Of
<1>2. Asked(barred)' = [Asked(barred) EXCEPT ![p] = spent]
  BY DEF Drain, Asked
<1>3. Queue!Ask(p, s)
  BY <1>1, <1>2 DEF Queue!Ask, Drain, Owed
<1>. QED BY <1>3 DEF Q, Queue!Next, Drain

LEMMA DrainedGives ==
    ASSUME TableInv, ~full, NEW p \in Callers, Drained(p)
    PROVE  Q
<1> USE DEF TableInv, TypeOK
<1>1. Asked(due)' = [Asked(due) EXCEPT ![p] = {}] /\ Asked(barred)' = [Asked(barred) EXCEPT ![p] = {}]
  BY DEF Drained, Forgive, Asked
<1> DEFINE now == IF backend = "postgres" THEN call[p].seen ELSE Pending(call[p].session)
<1>2. PICK T \in SUBSET (call[p].seen \cup now) : call[p].seen \cap now \subseteq T /\ given' \in Orders(T)
  BY DEF Drained
<1>3. due[p] \subseteq call[p].seen \cap now /\ barred[p] \cap (call[p].seen \cup now) = {}
  BY DEF Drained, CallsStand, ViewKeeps
<1>4. Asked(due)[p] \subseteq Range(given') /\ Range(given') \cap Asked(barred)[p] = {}
  BY <1>2, <1>3 DEF Orders, Asked
<1>5. /\ \A i, k \in DOMAIN given' : i < k => turn[given'[i]].step <= turn[given'[k]].step
      /\ turn' = turn /\ full' = full /\ spent' = spent /\ Owed' = Owed
  BY AnswersInOrder DEF Drained, Owed
<1>6. Queue!Give(p)
  BY <1>1, <1>4, <1>5 DEF Queue!Give, Range, Queue!Range
<1>. QED BY <1>6 DEF Q, Queue!Next

LEMMA BreakDismisses ==
    ASSUME TableInv, ~full, NEW p \in Callers, Break(p)
    PROVE  Q
<1> USE DEF TableInv, TypeOK
<1>1. Asked(due)' = [Asked(due) EXCEPT ![p] = {}] /\ Asked(barred)' = [Asked(barred) EXCEPT ![p] = {}]
  BY DEF Break, Forgive, Asked
<1>2. Queue!Dismiss(p)
  BY <1>1 DEF Queue!Dismiss, Break, Owed
<1>. QED BY <1>2 DEF Q, Queue!Next, Break

LEMMA CloseRestarts ==
    ASSUME TableInv, ~full, Close
    PROVE  Q
<1> USE DEF TableInv, TypeOK
<1>1. Asked(due)' = Queue!Nothing /\ Asked(barred)' = Queue!Nothing
  BY DEF Close, Asked, Queue!Nothing
<1>2. Owed' = Owed \cup Owed' /\ Owed' \cap spent = {} /\ Owed' \in SUBSET Turns
  BY DEF Close, Owed, ViewKeeps
<1>3. Queue!Restart(Owed')
  BY <1>1, <1>2 DEF Queue!Restart, Close
<1>. QED BY <1>2, <1>3 DEF Q, Queue!Next, Close

(* The queues keep the durability contract on a disk that is not full:     *)
(* every drain gives all that is owed, in the order of the steps, and      *)
(* nothing that is spent, through failures, retries and restarts.          *)
THEOREM TableKeepsTheContract == Spec => ImplementsDurableQueue
<1>1. Init => Queue!Init
  BY DEF Init, Queue!Init, Queue!Nothing, Asked, Owed
<1>2. TableInv /\ [Next]_vars => [Queue!Next]_(Queue!vars)
  <2> SUFFICES ASSUME TableInv, [Next]_vars PROVE Q
    BY DEF Q
  <2>1. CASE full
    BY <2>1, FullStep
  <2>2. ASSUME ~full, NEW p \in Callers,
               \/ \E t \in Turns : Enqueue(p, t)
               \/ \E s \in Sessions : \/ \E ids \in SUBSET Turns : Ack(p, s, ids)
                                      \/ Clear(p, s) \/ Drain(p, s)
               \/ \E old \in SUBSET Turns : PurgeExpired(p, old)
               \/ Commit(p) \/ Drained(p) \/ Break(p) \/ RollBack(p)
        PROVE  Q
    <3>1. \A s \in Sessions : Of(s) \in SUBSET Turns
      OBVIOUS
    <3>. QED BY <2>2, <3>1, EnqueueIsQuiet, AckIsAck, DeleteIsForget, DrainAsks, CommitTells,
                DrainedGives, BreakDismisses DEF Clear, PurgeExpired, RollBack
  <2>3. CASE ~full /\ (Shutdown \/ Crash)
    BY <2>3, CloseRestarts DEF Shutdown, Crash
  <2>4. CASE Startup \/ UNCHANGED vars
    BY <2>4, Quiet DEF Startup, vars, Owed, Asked
  <2>. QED BY <2>1, <2>2, <2>3, <2>4 DEF Next
<1>. QED BY <1>1, <1>2, TableInvariant, PTL DEF Spec, ImplementsDurableQueue, Queue!Spec
=============================================================================
