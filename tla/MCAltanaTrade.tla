--------------------------- MODULE MCAltanaTrade ---------------------------
(***************************************************************************)
(* Small instances of AltanaTrade for TLC.                                 *)
(***************************************************************************)
EXTENDS AltanaTrade, TLC
Symmetry == Permutations(Sells)
FairSpec == Init /\ [][Next \/ Calm]_vars /\ Fairness
=============================================================================
