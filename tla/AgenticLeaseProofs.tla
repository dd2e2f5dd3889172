------------------------- MODULE AgenticLeaseProofs -------------------------
(***************************************************************************)
(* Proofs about AgenticLease, for every set of processes and all bounds    *)
(* that satisfy LeaseAssumption: the type invariant, the inductive         *)
(* invariant, that a child runs under its claimant's lease, and that the   *)
(* lease implements the clockless fence.                                   *)
(***************************************************************************)
EXTENDS AgenticLease, TLAPS

\* Every variable keeps its type.
THEOREM LeaseTypeCorrect == Spec => []TypeOK
<1>1. Init => TypeOK
  BY LeaseAssumption DEF Init, TypeOK
<1>2. TypeOK /\ [Next]_vars => TypeOK'
  <2> SUFFICES ASSUME TypeOK, [Next]_vars PROVE TypeOK'
    OBVIOUS
  <2> USE LeaseAssumption DEF TypeOK, Goto, lease, proc, kid
  <2>1. CASE Tick
    BY <2>1 DEF Tick
  <2>2. ASSUME NEW p \in Procs, Acquire(p) PROVE TypeOK'
    BY <2>2 DEF Acquire
  <2>3. ASSUME NEW p \in Procs, Renew(p) PROVE TypeOK'
    BY <2>3 DEF Renew
  <2>4. ASSUME NEW p \in Procs, Ask(p) PROVE TypeOK'
    BY <2>4 DEF Ask
  <2>5. ASSUME NEW p \in Procs, Grant(p) PROVE TypeOK'
    BY <2>5 DEF Grant
  <2>6. ASSUME NEW p \in Procs, Spawn(p) PROVE TypeOK'
    BY <2>6 DEF Spawn
  <2>7. ASSUME NEW p \in Procs, ChildStarts(p) PROVE TypeOK'
    BY <2>7 DEF ChildStarts
  <2>8. ASSUME NEW p \in Procs, ChildEnds(p) PROVE TypeOK'
    BY <2>8 DEF ChildEnds
  <2>9. ASSUME NEW p \in Procs, Answered(p) PROVE TypeOK'
    BY <2>9 DEF Answered
  <2>10. ASSUME NEW p \in Procs, Release(p) PROVE TypeOK'
    BY <2>10 DEF Release
  <2>11. ASSUME NEW p \in Procs, Crash(p) PROVE TypeOK'
    BY <2>11 DEF Crash
  <2>12. CASE UNCHANGED vars
    BY <2>12 DEF vars
  <2> QED
    BY <2>1, <2>2, <2>3, <2>4, <2>5, <2>6, <2>7, <2>8, <2>9, <2>10, <2>11, <2>12 DEF Next
<1> QED
  BY <1>1, <1>2, PTL DEF Spec

\* A step of the lease keeps LeaseInv: a covered claim stays covered until its
\* margin has passed, whoever else acquires, renews, releases or dies.
LEMMA LeaseInvStep ==
  ASSUME TypeOK, LeaseInv, [Next]_vars
  PROVE  LeaseInv'
<1> USE LeaseAssumption DEF TypeOK, LeaseInv, Covered, Goto, lease, proc, kid
<1>1. CASE Tick
  BY <1>1 DEF Tick
<1>2. ASSUME NEW p \in Procs, Acquire(p) PROVE LeaseInv'
  <2> SUFFICES ASSUME NEW q \in Procs PROVE LeaseInv!(q)'
    OBVIOUS
  <2>1. child[q] # "running"
    <3> SUFFICES ASSUME child[q] = "running" PROVE FALSE
      OBVIOUS
    <3>1. until >= asked[q] + ClaimMargin /\ now <= asked[q] + StartWindow + ChildLimit
      OBVIOUS
    <3> QED
      BY <3>1, <1>2 DEF Acquire
  <2> QED
    BY <1>2, <2>1 DEF Acquire
<1>3. ASSUME NEW p \in Procs, Renew(p) PROVE LeaseInv'
  BY <1>3 DEF Renew
<1>4. ASSUME NEW p \in Procs, Ask(p) PROVE LeaseInv'
  BY <1>4 DEF Ask
<1>5. ASSUME NEW p \in Procs, Grant(p) PROVE LeaseInv'
  BY <1>5 DEF Grant
<1>6. ASSUME NEW p \in Procs, Spawn(p) PROVE LeaseInv'
  BY <1>6 DEF Spawn
<1>7. ASSUME NEW p \in Procs, ChildStarts(p) PROVE LeaseInv'
  BY <1>7 DEF ChildStarts
<1>8. ASSUME NEW p \in Procs, ChildEnds(p) PROVE LeaseInv'
  BY <1>8 DEF ChildEnds
<1>9. ASSUME NEW p \in Procs, Answered(p) PROVE LeaseInv'
  BY <1>9 DEF Answered
<1>10. ASSUME NEW p \in Procs, Release(p) PROVE LeaseInv'
  BY <1>10 DEF Release
<1>11. ASSUME NEW p \in Procs, Crash(p) PROVE LeaseInv'
  BY <1>11 DEF Crash
<1>12. CASE UNCHANGED vars
  BY <1>12 DEF vars
<1> QED
  BY <1>1, <1>2, <1>3, <1>4, <1>5, <1>6, <1>7, <1>8, <1>9, <1>10, <1>11, <1>12 DEF Next

\* LeaseInv holds in every reachable state.
THEOREM LeaseInvariant == Spec => []LeaseInv
<1>1. Init => LeaseInv
  <2> SUFFICES ASSUME Init, NEW p \in Procs PROVE LeaseInv!(p)
    BY DEF LeaseInv
  <2>1. asked[p] = 0 /\ now = 1 /\ pc[p] = "idle" /\ child[p] = "none"
    BY DEF Init
  <2> QED
    BY <2>1
<1> QED
  BY <1>1, LeaseInvStep, LeaseTypeCorrect, PTL DEF Spec

\* The four bounds add up: what LeaseInv says of a running child puts the present
\* within its claimant's lease.
LEMMA RunningIsLeased ==
  ASSUME TypeOK, LeaseInv
  PROVE  ChildUnderLease
BY LeaseAssumption DEF TypeOK, LeaseInv, Covered, ChildUnderLease, Live

\* A child runs under its own claimant's lease: StartWindow + ChildLimit <
\* ClaimMargin is enough, although nobody renews while it runs.
THEOREM ChildUnderLeaseAlways == Spec => []ChildUnderLease
BY RunningIsLeased, LeaseTypeCorrect, LeaseInvariant, PTL

\* A tick or a release takes the fence only from a holder without a running child.
LEMMA LosesOnlyIdle ==
  ASSUME TypeOK, TypeOK', LeaseInv, ChildUnderLease, ChildUnderLease',
         UNCHANGED <<holder, child>>, Live, ~Live'
  PROVE  Fence!Lose
<1>1. holder \notin {p \in Procs : child[p] = "running"}
  BY DEF ChildUnderLease
<1>2. UNCHANGED {p \in Procs : child[p] = "running"}
  OBVIOUS
<1> QED
  BY <1>1, <1>2 DEF Fence!Lose

\* The lease implements the fence AgenticDispatch is written with: it is lost only
\* by a holder whose child has ended, and a child starts only under it.
THEOREM LeaseImplementsFence == Spec => ImplementsFence
<1> DEFINE Running == {p \in Procs : child[p] = "running"}
           Same == UNCHANGED <<holder, Live, Running>>
<1>1. Init => Fence!Init
  BY LeaseAssumption DEF Init, Fence!Init, Live
<1>2. TypeOK /\ TypeOK' /\ LeaseInv /\ ChildUnderLease /\ ChildUnderLease' /\ [Next]_vars
        => [Fence!Next]_<<holder, Live, Running>>
  <2> SUFFICES ASSUME TypeOK, TypeOK', LeaseInv, ChildUnderLease, ChildUnderLease', [Next]_vars
               PROVE  Fence!Next \/ Same
    OBVIOUS
  <2> USE DEF Goto, lease, proc, kid
  <2>1. CASE Tick
    <3>1. CASE Live /\ ~Live'
      BY <2>1, <3>1, LosesOnlyIdle DEF Tick, Fence!Next
    <3>2. CASE Live <=> Live'
      BY <2>1, <3>2 DEF Tick
    <3> QED
      BY <2>1, <3>1, <3>2 DEF Tick, Live, TypeOK
  <2>2. ASSUME NEW p \in Procs, Acquire(p) PROVE Fence!Acquire(p)
    BY <2>2, LeaseAssumption DEF Acquire, Fence!Acquire, Live, TypeOK
  <2>3. ASSUME NEW p \in Procs, Renew(p) PROVE Same
    BY <2>3, LeaseAssumption DEF Renew, Live, TypeOK
  <2>4. ASSUME NEW p \in Procs, Ask(p) \/ Grant(p) \/ Answered(p) \/ Crash(p) PROVE Same
    BY <2>4 DEF Ask, Grant, Answered, Crash, Live
  <2>5. ASSUME NEW p \in Procs, Spawn(p) PROVE Same
    BY <2>5 DEF Spawn, Live, TypeOK, LeaseInv
  <2>6. ASSUME NEW p \in Procs, ChildStarts(p) PROVE Fence!ChildStarts(p)
    <3>1. holder = p /\ Live
      BY <2>6 DEF ChildStarts, ChildUnderLease, Live, TypeOK
    <3>2. Running' = Running \cup {p}
      BY <2>6 DEF ChildStarts, TypeOK
    <3> QED
      BY <2>6, <3>1, <3>2 DEF ChildStarts, Fence!ChildStarts, Live
  <2>7. ASSUME NEW p \in Procs, ChildEnds(p) PROVE Fence!ChildEnds(p)
    <3>1. Running' = Running \ {p}
      BY <2>7 DEF ChildEnds, TypeOK
    <3> QED
      BY <2>7, <3>1 DEF ChildEnds, Fence!ChildEnds, Live
  <2>8. ASSUME NEW p \in Procs, Release(p) PROVE Fence!Next \/ Same
    <3>1. CASE Live /\ ~Live'
      BY <2>8, <3>1, LosesOnlyIdle DEF Release, Fence!Next
    <3>2. CASE Live <=> Live'
      BY <2>8, <3>2 DEF Release
    <3> QED
      BY <2>8, <3>1, <3>2 DEF Release, Live, TypeOK
  <2>9. CASE UNCHANGED vars
    BY <2>9 DEF vars, Live
  <2> QED
    BY <2>1, <2>2, <2>3, <2>4, <2>5, <2>6, <2>7, <2>8, <2>9 DEF Next, Fence!Next
<1> QED
  BY <1>1, <1>2, LeaseTypeCorrect, LeaseInvariant, ChildUnderLeaseAlways, PTL
  DEF Spec, ImplementsFence, Fence!Spec
=============================================================================
