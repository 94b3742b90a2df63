---------------------------- MODULE DurableQueue ----------------------------
(***************************************************************************)
(* What the durability contract of the Tether queue promises               *)
(* (backends/README.md:42-45, backends/base.py:66-73) to callers that      *)
(* acknowledge turns one by one: a drain gives every turn that was owed    *)
(* when it was asked for and has not been acknowledged or removed since,   *)
(* and none that was spent by then, and no restart changes what is owed    *)
(* but to have more of it.                                                 *)
(*                                                                         *)
(* Of the order it promises less than base.py:82, "in enqueue order": the  *)
(* SQL queues sort by step alone, and keep nothing of the order in which   *)
(* turns of one step were enqueued.                                        *)
(***************************************************************************)
EXTENDS Integers, Sequences, Functions

CONSTANTS Callers, Turns, Sessions

VARIABLES turn,   (* turn[t]: the session and the step of turn t             *)
          owed,   (* the turns a drain must give                             *)
          spent,  (* the turns whose acknowledgement was confirmed           *)
          due,    (* due[p]: what p's drain must give                        *)
          barred, (* barred[p]: what it must not                             *)
          given   (* the answer of the latest drain                          *)

vars == <<turn, owed, spent, due, barred, given>>

Nothing == [p \in Callers |-> {}]
Less(f, T) == [p \in Callers |-> f[p] \ T]
Of(s) == {t \in Turns : turn[t].session = s}

Init ==
    /\ owed = {} /\ spent = {} /\ given = <<>>
    /\ due = Nothing /\ barred = Nothing

Owe(T) ==
    /\ T \cap spent = {}
    /\ owed' = owed \cup T
    /\ UNCHANGED <<turn, spent, due, barred>>

Ack(T) ==
    /\ owed' = owed \ T /\ due' = Less(due, T)
    /\ UNCHANGED <<turn, spent, barred>>

Confirm(T) ==
    /\ T \cap owed = {}
    /\ spent' = spent \cup T
    /\ UNCHANGED <<turn, owed, due, barred>>

Forget(T) ==
    /\ owed' = owed \ T /\ spent' = spent \ T
    /\ due' = Less(due, T) /\ barred' = Less(barred, T)
    /\ UNCHANGED turn

Ask(p, s) ==
    /\ due' = [due EXCEPT ![p] = owed \cap Of(s)]
    /\ barred' = [barred EXCEPT ![p] = spent]
    /\ UNCHANGED <<turn, owed, spent>>

Give(p) ==
    /\ due[p] \subseteq Range(given') /\ Range(given') \cap barred[p] = {}
    /\ \A i, k \in DOMAIN given' : i < k => turn[given'[i]].step <= turn[given'[k]].step
    /\ due' = [due EXCEPT ![p] = {}] /\ barred' = [barred EXCEPT ![p] = {}]
    /\ UNCHANGED <<turn, owed, spent>>

Dismiss(p) ==
    /\ due' = [due EXCEPT ![p] = {}] /\ barred' = [barred EXCEPT ![p] = {}]
    /\ UNCHANGED <<turn, owed, spent>>

Restart(T) ==
    /\ T \cap spent = {}
    /\ owed' = owed \cup T /\ due' = Nothing /\ barred' = Nothing
    /\ UNCHANGED <<turn, spent>>

Next ==
    \/ \E p \in Callers : Give(p)
    \/ /\ given' \in {given, <<>>}
       /\ \/ \E T \in SUBSET Turns : Owe(T) \/ Ack(T) \/ Confirm(T) \/ Forget(T) \/ Restart(T)
          \/ \E p \in Callers : Dismiss(p) \/ \E s \in Sessions : Ask(p, s)

Spec == Init /\ [][Next]_vars
=============================================================================
