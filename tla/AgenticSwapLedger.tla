------------------------- MODULE AgenticSwapLedger -------------------------
(***************************************************************************)
(* What the dispatch protocol promises of one wallet: at most one decision *)
(* is out for execution at a time, each is executed at most once, and what *)
(* the books say of it in the end is what happened.  AgenticDispatch       *)
(* implements this specification under the mapping written there.          *)
(***************************************************************************)
CONSTANT Orders

VARIABLES
  phase,   \* each decision: absent, open, dispatched, closed, committed, rolled-back
  traded   \* the decisions whose swap landed on the chain

Init == phase = [o \in Orders |-> "absent"] /\ traded = {}

Step(o, from, to) ==
  phase[o] \in from /\ phase' = [phase EXCEPT ![o] = to] /\ UNCHANGED traded

Open(o) == Step(o, {"absent"}, "open")

Dispatch(o) ==
  /\ \A x \in Orders : phase[x] # "dispatched"
  /\ Step(o, {"open"}, "dispatched")

\* A close says that the swap will never run: nothing was started.
Close(o) == o \notin traded /\ Step(o, {"open", "dispatched"}, "closed")

Trade(o) ==
  /\ phase[o] = "dispatched" /\ o \notin traded
  /\ traded' = traded \cup {o} /\ UNCHANGED phase

Commit(o) == o \in traded /\ Step(o, {"dispatched"}, "committed")

RollBack(o) == o \notin traded /\ Step(o, {"closed", "dispatched"}, "rolled-back")

Next == \E o \in Orders :
  Open(o) \/ Dispatch(o) \/ Close(o) \/ Trade(o) \/ Commit(o) \/ RollBack(o)

Steps == [][Next]_<<phase, traded>>
Spec == Init /\ Steps
=============================================================================
