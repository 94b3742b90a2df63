----------------------------- MODULE TableProps -----------------------------
(***************************************************************************)
(* What is asked of the SQL queues.                                        *)
(***************************************************************************)
EXTENDS TetherTable

Rows == {None, "pending", "acked"}
Ops == {None, "enqueue", "ack", "delete", "drain"}

TypeOK ==
    /\ backend \in {"sqlite", "postgres"} /\ full \in BOOLEAN /\ open \in BOOLEAN
    /\ turn \in [Turns -> [session : Sessions, step : 1 .. Steps]]
    /\ stored \subseteq Turns /\ spent \subseteq Turns
    /\ disk \in [Turns -> Rows] /\ view \in [Turns -> Rows]
    /\ call \in [Callers -> [op : Ops, session : Sessions \cup {None}, seen : SUBSET Turns]]
    /\ due \in [Callers -> SUBSET Turns] /\ barred \in [Callers -> SUBSET Turns]
    /\ Range(given) \subseteq Turns

(* A turn whose enqueue returned has a committed row until somebody clears *)
(* its session or purges it, and one whose ack returned has it acked:      *)
(* whichever calls shared its transaction, failed, were retried or closed  *)
(* the database meanwhile.  The disk must not be full (sqlite.py:126-185). *)
ToldTurnsSurvive ==
    ~full => /\ \A t \in stored : disk[t] # None
             /\ \A t \in spent : disk[t] = "acked"

(* The contract of the backends, taken to the letter: on a full disk too,  *)
(* a turn that was enqueued survives (backends/README.md:42-44).           *)
EnqueuedTurnsSurvive == \A t \in stored : disk[t] # None

(* While no disk is full the table implements DurableQueue, for any number *)
(* of callers of one connection or of many (sqlite.py:150-185;             *)
(* postgres.py:164-210).                                                   *)
Owed == {t \in stored : view[t] = "pending"}
Asked(f) == [p \in Callers |-> IF ~full /\ call[p].op = "drain" THEN f[p] ELSE {}]

Queue == INSTANCE DurableQueue WITH
    owed <- IF full THEN {} ELSE Owed, spent <- IF full THEN {} ELSE spent,
    due <- Asked(due), barred <- Asked(barred)

ImplementsDurableQueue == Queue!Spec

-----------------------------------------------------------------------------
(* What the proofs need besides.                                           *)

(* Without a transaction the connection sees the table, and closed it has  *)
(* no calls.                                                               *)
ViewsMeet ==
    /\ backend = "postgres" => disk = view
    /\ ~open => disk = view /\ \A p \in Callers : call[p] = Idle

(* A call that is neither waiting for rows nor for a commit stands for     *)
(* nothing.                                                                *)
IdleOwesNothing == \A p \in Callers : call[p].op = None => call[p] = Idle /\ due[p] = {} /\ barred[p] = {}

(* What is stored and what is spent shows in the view too, and an open     *)
(* transaction never makes a stored turn pending again.                    *)
ViewKeeps ==
    /\ \A t \in stored : disk[t] # None /\ view[t] # None /\ (view[t] = "pending" => disk[t] = "pending")
    /\ \A t \in spent : disk[t] = "acked" /\ view[t] = "acked"

(* A call under way has done what it is good for, and a drain has seen     *)
(* what it must give and nothing that it must not.                         *)
CallsStand ==
    \A p \in Callers :
        /\ call[p].op = "enqueue" => \A t \in due[p] : view[t] # None
        /\ call[p].op = "ack" => \A t \in due[p] : view[t] = "acked"
        /\ call[p].op = "drain" =>
               /\ due[p] \subseteq call[p].seen /\ due[p] \subseteq Pending(call[p].session)
               /\ barred[p] \subseteq spent /\ barred[p] \cap call[p].seen = {}

TableInv == TypeOK /\ ViewsMeet /\ IdleOwesNothing /\ (~full => ViewKeeps /\ CallsStand)
=============================================================================
