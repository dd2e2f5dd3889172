---------------------------- MODULE AgenticLease ----------------------------
(***************************************************************************)
(* The clock behind a wallet's fence (src/src/agentic/store.ts, execute.ts,*)
(* baw.ts, childGuard.cjs).  The fence is a lease; a claim needs a margin  *)
(* of it; the child of a claim may start only a short while after the      *)
(* claim's query began, and is killed by its own timer.  The four bounds   *)
(* together make a child end before its claimant's lease does, although    *)
(* nothing renews the lease while the child runs and the claimant may be   *)
(* dead.                                                                   *)
(*                                                                         *)
(* Only durations matter, so one clock stands for the database's and the   *)
(* hosts' (all run at the same rate).  A tick is any unit; the code's      *)
(* values are in milliseconds.                                             *)
(***************************************************************************)
EXTENDS Naturals

CONSTANTS
  Procs, None,
  Lease,        \* 120 s: acquireFence, renewFence
  ClaimMargin,  \* 35 s of lease left at the claim of a swap (75 s for a sign)
  SpawnWithin,  \* 5 s from the claim's query to the start of the child
  StartWindow,  \* 7 s from the claim's query to the child's own start guard
  ChildLimit,   \* 25 s: the command's timeout and five seconds (65 s for a sign)
  Horizon       \* the last instant looked at; any number

ASSUME LeaseAssumption ==
  /\ {Lease, ClaimMargin, SpawnWithin, StartWindow, ChildLimit, Horizon} \subseteq Nat
  /\ None \notin Procs
  /\ StartWindow + ChildLimit < ClaimMargin

VARIABLES
  now,      \* the clock
  holder,   \* agentic_wallet_fences.holder
  until,    \* agentic_wallet_fences.lease_until
  pc,       \* each process: idle, held, asking, claimed, waiting, done, dead
  asked,    \* when the query of its claim began (tq)
  child,    \* its child: none, starting, running
  started   \* when the child passed its start guard

vars == <<now, holder, until, pc, asked, child, started>>
lease == <<holder, until>>
proc == <<pc, asked>>
kid == <<child, started>>
-----------------------------------------------------------------------------
Live == until >= now
Goto(p, q) == pc' = [pc EXCEPT ![p] = q]

\* acquireFence: only when the last lease is over.
Acquire(p) ==
  /\ pc[p] = "idle" /\ until < now
  /\ holder' = p /\ until' = now + Lease
  /\ Goto(p, "held")
  /\ UNCHANGED <<now, asked, kid>>

\* renewFence, before the claim and while the answered order is polled.
Renew(p) ==
  /\ pc[p] \in {"held", "done"} /\ holder = p /\ Live
  /\ holder' = p /\ until' = now + Lease
  /\ UNCHANGED <<now, proc, kid>>

\* tq is taken just before the claim's query is sent.
Ask(p) ==
  /\ pc[p] = "held"
  /\ Goto(p, "asking") /\ asked' = [asked EXCEPT ![p] = now]
  /\ UNCHANGED <<now, lease, kid>>

\* Mutant: a claim that only needs the fence.
GrantHeld(p) ==
  /\ pc[p] = "asking" /\ holder = p /\ Live
  /\ Goto(p, "claimed")
  /\ UNCHANGED <<now, lease, asked, kid>>

\* AGENTIC_CLAIM_SQL runs at some time after tq, and needs the margin then.
Grant(p) ==
  /\ pc[p] = "asking" /\ holder = p /\ until >= now + ClaimMargin
  /\ Goto(p, "claimed")
  /\ UNCHANGED <<now, lease, asked, kid>>

\* command.start, unless five seconds have passed since tq.
Spawn(p) ==
  /\ pc[p] = "claimed" /\ now < asked[p] + SpawnWithin
  /\ Goto(p, "waiting") /\ child' = [child EXCEPT ![p] = "starting"]
  /\ UNCHANGED <<now, lease, asked, started>>

\* The child's guard: within the start window, and with its parent alive.
ChildStarts(p) ==
  /\ child[p] = "starting" /\ pc[p] # "dead" /\ now <= asked[p] + StartWindow
  /\ child' = [child EXCEPT ![p] = "running"]
  /\ started' = [started EXCEPT ![p] = now]
  /\ UNCHANGED <<now, lease, proc>>

\* It answers, refuses to start, or is killed: by its timer at the latest.
ChildEnds(p) ==
  /\ child[p] # "none"
  /\ child' = [child EXCEPT ![p] = "none"] /\ started' = [started EXCEPT ![p] = 0]
  /\ UNCHANGED <<now, lease, proc>>

Answered(p) ==
  /\ pc[p] = "waiting" /\ child[p] = "none"
  /\ Goto(p, "done")
  /\ UNCHANGED <<now, lease, asked, kid>>

\* Mutant: a release by a holder of long ago.
ReleaseAny(p) ==
  /\ pc[p] \in {"held", "asking", "claimed", "done"}
  /\ Goto(p, "idle") /\ asked' = [asked EXCEPT ![p] = 0]
  /\ until' = 0
  /\ UNCHANGED <<now, holder, kid>>

\* The finally block: of any task that does not wait for its child.
Release(p) ==
  /\ pc[p] \in {"held", "asking", "claimed", "done"}
  /\ Goto(p, "idle") /\ asked' = [asked EXCEPT ![p] = 0]
  /\ until' = IF holder = p THEN 0 ELSE until
  /\ UNCHANGED <<now, holder, kid>>

\* The process dies; the child, if any, runs on until a watch or a timer ends it.
Crash(p) ==
  /\ pc[p] # "dead" /\ Goto(p, "dead")
  /\ UNCHANGED <<now, lease, asked, kid>>

\* Time does not pass the kill timer of a running child.
Tick ==
  /\ now < Horizon
  /\ \A p \in Procs : child[p] = "running" => now < started[p] + ChildLimit
  /\ now' = now + 1
  /\ UNCHANGED <<lease, proc, kid>>

Init ==
  /\ now = 1 /\ holder = None /\ until = 0
  /\ pc = [p \in Procs |-> "idle"] /\ asked = [p \in Procs |-> 0]
  /\ child = [p \in Procs |-> "none"] /\ started = [p \in Procs |-> 0]

Next ==
  \/ Tick
  \/ \E p \in Procs :
       \/ Acquire(p) \/ Renew(p) \/ Ask(p) \/ Grant(p) \/ Spawn(p)
       \/ ChildStarts(p) \/ ChildEnds(p) \/ Answered(p) \/ Release(p) \/ Crash(p)

Spec == Init /\ [][Next]_vars
-----------------------------------------------------------------------------
TypeOK ==
  /\ now \in Nat /\ until \in Nat /\ holder \in Procs \cup {None}
  /\ pc \in [Procs -> {"idle", "held", "asking", "claimed", "waiting", "done", "dead"}]
  /\ asked \in [Procs -> Nat] /\ started \in [Procs -> Nat]
  /\ child \in [Procs -> {"none", "starting", "running"}]

\* A child that passed its start guard runs under its own claimant's lease, even
\* after the claimant died: no other process can hold the wallet meanwhile.
ChildUnderLease ==
  \A p \in Procs : child[p] = "running" => holder = p /\ Live

\* A claim is covered when its lease reaches its margin beyond tq: a lapse or another
\* holder is possible only once the margin has passed.
Covered(p) == holder = p /\ until >= asked[p] + ClaimMargin

\* The inductive invariant behind ChildUnderLease.
LeaseInv ==
  \A p \in Procs :
    /\ asked[p] <= now
    /\ pc[p] \in {"idle", "held", "asking", "claimed", "done"} => child[p] = "none"
    /\ (pc[p] = "claimed" \/ child[p] = "starting") /\ now <= asked[p] + ClaimMargin
         => Covered(p)
    /\ child[p] = "running" =>
         /\ Covered(p)
         /\ started[p] <= asked[p] + StartWindow
         /\ now <= started[p] + ChildLimit

\* The fence without its clock.
Fence == INSTANCE AgenticFence WITH
  holder <- holder, valid <- Live, dispatching <- {p \in Procs : child[p] = "running"}

\* The timed fence implements the fence AgenticDispatch is written with.
ImplementsFence == Fence!Spec
=============================================================================
