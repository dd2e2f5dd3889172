---------------------------- MODULE AgenticFence ----------------------------
(***************************************************************************)
(* The wallet fence without its clock: what AgenticDispatch takes from it. *)
(* It has one holder at a time, and it is not lost by a holder whose child *)
(* process may still trade.  AgenticLease implements it with a lease.      *)
(***************************************************************************)
CONSTANTS Procs, None

VARIABLES
  holder,       \* the process that acquired the fence last
  valid,        \* the holder has neither released it nor let it lapse
  dispatching   \* the processes whose child may still trade

Init == holder = None /\ valid = FALSE /\ dispatching = {}

Acquire(p) ==
  ~valid /\ holder' = p /\ valid' = TRUE /\ UNCHANGED dispatching

Lose ==
  /\ valid /\ holder \notin dispatching
  /\ valid' = FALSE /\ UNCHANGED <<holder, dispatching>>

ChildStarts(p) ==
  /\ valid /\ holder = p
  /\ dispatching' = dispatching \cup {p} /\ UNCHANGED <<holder, valid>>

ChildEnds(p) ==
  dispatching' = dispatching \ {p} /\ UNCHANGED <<holder, valid>>

Next == Lose \/ \E p \in Procs : Acquire(p) \/ ChildStarts(p) \/ ChildEnds(p)

Spec == Init /\ [][Next]_<<holder, valid, dispatching>>
=============================================================================
