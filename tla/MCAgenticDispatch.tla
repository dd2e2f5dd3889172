------------------------- MODULE MCAgenticDispatch -------------------------
(***************************************************************************)
(* Small instances of AgenticDispatch for TLC.  A run may begin in several *)
(* scenarios: Init without some of the processes, and states that Init     *)
(* reaches.  Workers are interchangeable and so are the orders of one      *)
(* side; the runs that use Symmetry have only immortal workers, orders of  *)
(* one side and scenarios for every worker and order, and check no         *)
(* liveness.                                                               *)
(***************************************************************************)
EXTENDS AgenticDispatch, TLC

Symmetry == Permutations(Workers) \cup Permutations(Orders)

\* Init without the processes outside there.
Without(there) ==
  /\ fence = [holder |-> None, valid |-> FALSE]
  /\ entriesStopped = FALSE
  /\ inst = [p \in Procs |-> [alive |-> p \in there, retired |-> None, stopped |-> p \notin there]]
  /\ task = [p \in Procs |-> Idle]
Nothing == [st |-> "none", listed |-> FALSE, fill |-> "ok"]
\* Nothing of the orders has happened yet.
NoOrder ==
  /\ row = [o \in Orders |-> Absent]
  /\ jr = [o \in Orders |-> [state |-> "none", tx |-> None]]
  /\ child = [o \in Orders |-> "none"]
\* Worker w's order o was accepted and is not listed yet.
Accepted(w, o) ==
  /\ row = [x \in Orders |-> IF x # o THEN Absent
              ELSE [Absent EXCEPT !.dispatch = "spawned", !.claimant = w, !.response = "accepted",
                                  !.quoted = TRUE]]
  /\ jr = [x \in Orders |-> [state |-> IF x = o THEN "IN_PROGRESS" ELSE "none", tx |-> None]]
  /\ child = [x \in Orders |-> IF x = o THEN "accepted" ELSE "none"]
  /\ venue = [r \in VRows |-> IF r = o THEN [Nothing EXCEPT !.st = "pending"] ELSE Nothing]

\* Two workers race from the start; one worker and the operator, over an order
\* that the venue has and does not list.
Races ==
  \/ Without(Workers) /\ NoOrder /\ venue = [r \in VRows |-> Nothing]
  \/ \E w \in Workers, o \in Orders : Without({w} \cup Gates) /\ Accepted(w, o)
RaceSpec == Races /\ [][Next]_vars

\* Everybody from the start, after the owner's own swaps; or workers alone, and
\* the owner swaps when he likes.
Disposals ==
  \/ /\ Without(Procs) /\ NoOrder
     /\ venue = [r \in VRows |-> IF r \in Orders THEN Nothing
                                 ELSE [Nothing EXCEPT !.st = "finished", !.listed = TRUE]]
  \/ Without(Workers \ Mortal) /\ NoOrder /\ venue = [r \in VRows |-> Nothing]
DisposalSpec == Disposals /\ [][Next]_vars
=============================================================================
