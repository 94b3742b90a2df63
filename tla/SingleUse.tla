------------------------------ MODULE SingleUse ------------------------------
(***************************************************************************)
(* What a roaming token promises (SPEC.md 14.4, backends/base.py:146-154): *)
(* an export is redeemed at most once, and only who redeemed it restores a *)
(* session from it, once.                                                  *)
(***************************************************************************)
CONSTANTS Exports, Importers

VARIABLES issued,   (* the exports there are                                  *)
          redeemed, (* pairs of an export and who redeemed it                 *)
          restored  (* pairs of an export and who restored it                 *)

vars == <<issued, redeemed, restored>>

Init == issued = {} /\ redeemed = {} /\ restored = {}

Issue(e) ==
    /\ issued' = issued \cup {e}
    /\ UNCHANGED <<redeemed, restored>>

Redeem(e, j) ==
    /\ e \in issued
    /\ \A k \in Importers : <<e, k>> \notin redeemed
    /\ redeemed' = redeemed \cup {<<e, j>>}
    /\ UNCHANGED <<issued, restored>>

Restore(e, j) ==
    /\ <<e, j>> \in redeemed \ restored
    /\ restored' = restored \cup {<<e, j>>}
    /\ UNCHANGED <<issued, redeemed>>

Next == \/ \E e \in Exports : Issue(e)
        \/ \E e \in Exports, j \in Importers : Redeem(e, j) \/ Restore(e, j)

Spec == Init /\ [][Next]_vars
=============================================================================
