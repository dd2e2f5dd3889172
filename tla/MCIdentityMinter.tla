-------------------------- MODULE MCIdentityMinter --------------------------
(* Instances of IdentityMinter: agents are numbers, as their order matters. *)
EXTENDS IdentityMinter, TLC

CONSTANTS w1, w2

\* Both processes are workers; or the first is a run for agent 1.
Workers == [p \in Procs |-> None]
OneRun == [p \in Procs |-> IF p = w1 THEN 1 ELSE None]

\* Ceilings and gas limits: the same everywhere, or lower in the first process.
SameFee == [p \in Procs |-> 4]
LowerFee == [p \in Procs |-> IF p = w1 THEN 2 ELSE 4]
SameGas == [p \in Procs |-> 1]
LowerGas == [p \in Procs |-> IF p = w1 THEN 1 ELSE 2]

\* The registry's ids are interchangeable; for runs without liveness.
IdSymmetry == Permutations(Ids)
=============================================================================
