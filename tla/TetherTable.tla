---------------------------- MODULE TetherTable ----------------------------
(***************************************************************************)
(* The table of turns behind the SQL queues: backends/sqlite.py and        *)
(* backends/postgres.py.  The SQLite queue has one connection for all its  *)
(* calls: a statement opens a transaction unless another call's is open,   *)
(* and any call's commit commits them all.  Of PostgreSQL every statement  *)
(* is a transaction of its own.                                            *)
(*                                                                         *)
(* Nobody in the repository calls these classes: any caller may call       *)
(* anything, and again after an error.  The content of a turn is left out. *)
(***************************************************************************)
EXTENDS Integers, Sequences, FiniteSets, Functions

CONSTANTS Callers,  (* coroutines that call the queue, of any replica        *)
          Turns,    (* turn ids                                              *)
          Sessions,
          Steps,    (* bound: the highest step                               *)
          None      (* SQL's no row, and no session                          *)

ASSUME TableAssumption ==
    /\ Steps \in Nat /\ None \notin Sessions
    /\ None \notin {"pending", "acked", "enqueue", "ack", "delete", "drain"}

VARIABLES backend, (* "sqlite" or "postgres"                                 *)
          full,    (* whether the disk may be full at a commit               *)
          turn,    (* turn[t]: the session and the step of turn t            *)
          open,    (* whether startup() was called                           *)
          disk,    (* the table as committed: None, "pending" or "acked"     *)
          view,    (* the table as the statements of the connection see it   *)
          call,    (* call[p]: the call p waits for, and what a drain saw    *)
          given    (* the answer of a drain, until the next call             *)

(* What callers have been told, and what their calls stand for.            *)
VARIABLES stored, (* the turns whose enqueue returned                        *)
          spent,  (* the turns whose ack returned                            *)
          due,    (* due[p]: the turns p's call is good for if it returns    *)
          barred  (* barred[p]: the turns spent when p's drain began         *)

table == <<disk, view>>
told == <<stored, spent, due, barred>>
vars == <<backend, full, turn, open, table, call, given, told>>

Idle == [op |-> None, session |-> None, seen |-> {}]
Of(s) == {t \in Turns : turn[t].session = s}
Less(f, T) == [p \in Callers |-> f[p] \ T]
Set(T, row) == [t \in Turns |-> IF t \in T THEN row ELSE view[t]]

Pending(s) == {t \in Of(s) : view[t] = "pending"}
PendingCount(s) == Cardinality(Pending(s))

-----------------------------------------------------------------------------
(* Writing.  p's statement has run, and p waits for the commit.            *)

Execute(p, op, rows) ==
    /\ open /\ call[p] = Idle
    /\ view' = rows
    /\ disk' = IF backend = "postgres" THEN rows ELSE disk
    /\ call' = [call EXCEPT ![p].op = op]
    /\ given' = <<>>
    /\ UNCHANGED <<backend, full, turn, open>>

(* Mutant: INSERT OR REPLACE. *)
EnqueueAgain(p, t) ==
    /\ Execute(p, "enqueue", Set({t}, "pending"))
    /\ due' = [due EXCEPT ![p] = {t}]
    /\ UNCHANGED <<stored, spent, barred>>

(* A turn that has a row keeps it as it is. *)
Enqueue(p, t) ==
    /\ Execute(p, "enqueue", IF view[t] = None THEN Set({t}, "pending") ELSE view)
    /\ due' = [due EXCEPT ![p] = {t}]
    /\ UNCHANGED <<stored, spent, barred>>

(* Nothing is asked of the database for no ids. *)
Ack(p, s, ids) ==
    /\ ids # {}
    /\ Execute(p, "ack", Set(ids \cap Pending(s), "acked"))
    /\ due' = [q \in Callers |->
           IF q = p THEN {t \in ids \cap Of(s) : view[t] # None}
           ELSE IF call[q].op = "drain" THEN due[q] \ (ids \cap Pending(s)) ELSE due[q]]
    /\ UNCHANGED <<stored, spent, barred>>

(* What is removed is nobody's promise any more.  Which turns are past the *)
(* age of a purge is left open; whether they are acked is not asked.       *)
Delete(p, T) ==
    /\ Execute(p, "delete", Set(T, None))
    /\ stored' = stored \ T /\ spent' = spent \ T
    /\ due' = Less(due, T) /\ barred' = Less(barred, T)

(* Mutant: rows are marked and stay. *)
ClearSoftly(p, s) ==
    /\ Execute(p, "delete", Set(Of(s), "cleared"))
    /\ UNCHANGED told

Clear(p, s) == Delete(p, Of(s))
PurgeExpired(p, old) == Delete(p, old)

Forgive(p) ==
    /\ call' = [call EXCEPT ![p] = Idle]
    /\ due' = [due EXCEPT ![p] = {}] /\ barred' = [barred EXCEPT ![p] = {}]

(* Mutant: the commit is left to the next one. *)
ReturnOnly(p) ==
    /\ call[p].op \in {"enqueue", "ack", "delete"}
    /\ UNCHANGED disk
    /\ stored' = IF call[p].op = "enqueue" THEN stored \cup due[p] ELSE stored
    /\ spent' = IF call[p].op = "ack" THEN spent \cup due[p] ELSE spent
    /\ Forgive(p)
    /\ UNCHANGED <<backend, full, turn, open, view, given>>

Commit(p) ==
    /\ call[p].op \in {"enqueue", "ack", "delete"}
    /\ disk' = view
    /\ stored' = IF call[p].op = "enqueue" THEN stored \cup due[p] ELSE stored
    /\ spent' = IF call[p].op = "ack" THEN spent \cup due[p] ELSE spent
    /\ Forgive(p)
    /\ UNCHANGED <<backend, full, turn, open, view, given>>

-----------------------------------------------------------------------------
(* Draining.                                                               *)

Drain(p, s) ==
    /\ open /\ call[p] = Idle
    /\ call' = [call EXCEPT ![p] = [op |-> "drain", session |-> s, seen |-> Pending(s)]]
    /\ due' = [due EXCEPT ![p] = {t \in stored : t \in Pending(s)}]
    /\ barred' = [barred EXCEPT ![p] = spent]
    /\ given' = <<>>
    /\ UNCHANGED <<backend, full, turn, open, table, stored, spent>>

Ordered(order) ==
    \A i, k \in DOMAIN order : i < k => turn[order[i]].step <= turn[order[k]].step
Orders(T) == {order \in [1 .. Cardinality(T) -> T] : Range(order) = T /\ Ordered(order)}

(* ORDER BY step and nothing else: turns of one step come in any order,    *)
(* not in that of their enqueues (backends/base.py:82).  SQLite reads a    *)
(* row when the statement runs or when the rows are fetched; PostgreSQL    *)
(* answers at once.                                                        *)
Drained(p) ==
    /\ call[p].op = "drain"
    /\ LET now == IF backend = "postgres" THEN call[p].seen ELSE Pending(call[p].session)
       IN  \E T \in SUBSET (call[p].seen \cup now) :
               /\ call[p].seen \cap now \subseteq T
               /\ given' \in Orders(T)
    /\ Forgive(p)
    /\ UNCHANGED <<backend, full, turn, open, table, stored, spent>>

-----------------------------------------------------------------------------
(* What goes wrong.                                                        *)

(* The caller is cancelled, or the commit finds the database busy: the     *)
(* transaction stays open for the next commit.                             *)
Break(p) ==
    /\ call[p].op # None
    /\ Forgive(p)
    /\ UNCHANGED <<backend, full, turn, open, table, given, stored, spent>>

(* A commit fails for a full disk: SQLite rolls the transaction back, with *)
(* the statements of the other calls in it.                                *)
RollBack(p) ==
    /\ full /\ backend = "sqlite"
    /\ call[p].op \in {"enqueue", "ack", "delete"}
    /\ view' = disk
    /\ Forgive(p)
    /\ UNCHANGED <<backend, full, turn, open, disk, given, stored, spent>>

(* Startup creates the table if there is none.                             *)
Startup ==
    /\ ~open /\ open' = TRUE
    /\ UNCHANGED <<backend, full, turn, table, call, given, told>>

(* Every call under way fails, and what is not committed is gone.          *)
Close ==
    /\ open /\ open' = FALSE
    /\ view' = disk
    /\ call' = [p \in Callers |-> Idle]
    /\ due' = [p \in Callers |-> {}] /\ barred' = [p \in Callers |-> {}]
    /\ UNCHANGED <<backend, full, turn, disk, given, stored, spent>>

(* A pool closes when its connections have come back.                      *)
Shutdown == (backend = "postgres" => \A p \in Callers : call[p] = Idle) /\ Close
Crash == Close

-----------------------------------------------------------------------------
Init ==
    /\ backend \in {"sqlite", "postgres"} /\ full \in BOOLEAN
    /\ turn \in [Turns -> [session : Sessions, step : 1 .. Steps]]
    /\ open = FALSE /\ given = <<>>
    /\ disk = [t \in Turns |-> None] /\ view = disk
    /\ call = [p \in Callers |-> Idle]
    /\ stored = {} /\ spent = {}
    /\ due = [p \in Callers |-> {}] /\ barred = due

Next ==
    \/ \E p \in Callers : \/ \E t \in Turns : Enqueue(p, t)
                          \/ \E s \in Sessions : \/ \E ids \in SUBSET Turns : Ack(p, s, ids)
                                                 \/ Clear(p, s) \/ Drain(p, s)
                          \/ \E old \in SUBSET Turns : PurgeExpired(p, old)
                          \/ Commit(p) \/ Drained(p) \/ Break(p) \/ RollBack(p)
    \/ Startup \/ Shutdown \/ Crash

Spec == Init /\ [][Next]_vars
=============================================================================
