--------------------------- MODULE MCAgenticHire ---------------------------
(***************************************************************************)
(* Small instances of AgenticHire for TLC.  A run unites scenarios: each   *)
(* starts somewhere in the life of a pairing, runs some of the tasks, and  *)
(* has what it is given of the bounds.                                     *)
(***************************************************************************)
EXTENDS AgenticHire, TLC

Symmetry == Permutations(Pairings) \cup Permutations(Routes)

\* The tasks of S run; fl, to and cr are left of the three bounds.
Scenario(S, fl, to, cr) ==
  /\ task = [t \in Tasks |-> IF t \in S THEN Idle ELSE Off]
  /\ flakes = Flakes - fl /\ touches = Touches - to /\ crashes = Crashes - cr
  /\ age = [p \in Pairings |-> 0] /\ aged = [p \in Pairings |-> {}] /\ drained = [p \in Pairings |-> {}]
  /\ order = [p \in Pairings |-> "none"] /\ fence = [w \in Wallets |-> None] /\ cancel = {}

Only(p, x, none) == [q \in Pairings |-> IF q = p THEN x ELSE none]

\* A pairing from its creation on.
Fresh(p, to, cr) ==
  /\ \E r \in Routes : Scenario({p, r} \cup Sweepers, 0, to, cr)
  /\ row = [q \in Pairings |-> None]
  /\ binance = [q \in Pairings |-> "none"] /\ agent = [q \in Pairings |-> None]

PairedRow(w) ==
  [NewRow EXCEPT !.st = "paired", !.matched = TRUE, !.att = 1, !.w = w, !.session = TRUE]

\* Every pairing is paired, two of them to one wallet, and may be hired.
Rivals ==
  /\ Scenario(Routes, 0, 0, 0) /\ \E w \in Wallets : row = [p \in Pairings |-> PairedRow(w)]
  /\ binance = [p \in Pairings |-> "live"] /\ agent = [p \in Pairings |-> None]

\* A pairing from its hire on.
BoundRow(w, sell) == [PairedRow(w) EXCEPT !.st = "bound", !.sell = sell, !.hired = TRUE, !.facts = TRUE]
Bound(p, S, fl, to, cr) ==
  /\ Scenario(S, fl, to, cr)
  /\ \E w \in Wallets, sell \in BOOLEAN : row = Only(p, BoundRow(w, sell), None)
  /\ binance = Only(p, "live", "none") /\ agent = Only(p, "armed", None)

LifeInit ==
  \/ Rivals
  \/ \E p \in Pairings :
       \/ Fresh(p, 0, 0)
       \/ Bound(p, Workers, 1, 1, 1)
       \/ Bound(p, Workers \cup Traders, 1, 0, 0)
       \/ Bound(p, Workers \cup Sweepers, 0, 0, 0)
LifeSpec == LifeInit /\ [][Next]_vars

SettlesInit ==
  \E p \in Pairings :
    \/ Fresh(p, 0, 1)
    \/ Bound(p, Workers, 0, 0, 1)
    \/ Bound(p, Workers \cup Sweepers, 0, 0, 0)
SettlesSpec == SettlesInit /\ [][Next]_vars /\ Fairness
=============================================================================
