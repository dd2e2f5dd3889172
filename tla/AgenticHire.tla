---------------------------- MODULE AgenticHire ----------------------------
(***************************************************************************)
(* The life of an agentic hire: a wallet is paired with a Binance session, *)
(* hired, and ended (src/src/agentic: routes.ts, worker.ts, store.ts).     *)
(*                                                                         *)
(* The API process runs a verifier for each new pairing, the owner's HTTP  *)
(* calls and a sweep; worker processes run a cycle for each hire and trade *)
(* for it.  They share the pairing's row, written by compare and swap on   *)
(* its version, and the fence of its wallet.  A task that has read a row   *)
(* keeps a copy, and `fresh` says its version is still the stored one.     *)
(*                                                                         *)
(* Time is the age of a pairing in its stage.  Before it is hired: 1, past *)
(* the deadline of the stage.  Once hired: 1, past the entry cutoff; 2,    *)
(* past the end of the term; 3, half an hour later; 4, past the maximum    *)
(* sign-in time, when Binance has ended the session by itself.             *)
(***************************************************************************)
EXTENDS Naturals, FiniteSets
CONSTANTS
  Pairings, Wallets,
  Routes, Sweepers,   \* tasks of the API: HTTP calls, the sweep
  Workers, Traders,   \* tasks of worker processes: the cycles, the trades
  Slots,     \* pairings that may wait for their hire (8)
  Attempts,  \* wrong codes a pairing survives, plus one (5)
  Flakes,    \* bound: readings that say the session is gone when it is not
  Touches,   \* bound: writes of columns this module leaves out
  Crashes,   \* bound
  Slow,      \* whether a holder of the fence may be slower than its lease
  Gone, None
\* A pairing names the task that verifies it.
Api == Pairings \cup Routes \cup Sweepers
Tasks == Api \cup Workers \cup Traders
States == {"waiting", "verified", "paired", "cleaning", "hiring", "bound",
           "ending", "ended", "failed", "expired"}
RowType ==
  [st : States, matched : BOOLEAN, att : 0..Attempts, w : Wallets \cup {None}, session : BOOLEAN, sell : BOOLEAN,
   hired : BOOLEAN, facts : BOOLEAN, drain : BOOLEAN, u : BOOLEAN, logout : BOOLEAN,
   why : {None, "owner-signed-out", "term-ended", "stop-loss"}]
Places == {"idle", "off", "signin", "scan", "admit", "reread", "store", "undo", "fail", "code", "facts", "accept",
           "fence", "stop", "await", "close", "gate", "gated", "refuse", "arm", "staged", "bind", "thrown",
           "clean", "cleaning", "signout", "cleaned", "end", "leave", "logout", "record", "verify", "revoke",
           "drain", "exits", "mark", "term", "termed", "left", "probe", "status", "rest", "halt", "turn",
           "settings", "claim", "child"}
TaskType == [at : Places, p : Pairings \cup {None}, row : RowType \cup {None}, fresh : BOOLEAN, age : 0..4]
ASSUME HireAssumption ==
  /\ {Slots, Attempts, Flakes, Touches, Crashes} \subseteq Nat /\ Attempts > 0 /\ Slow \in BOOLEAN
  /\ Pairings \cap (Routes \cup Sweepers) = {} /\ Routes \cap Sweepers = {}
  /\ Api \cap (Workers \cup Traders) = {} /\ Workers \cap Traders = {}
  /\ Gone # None /\ {Gone, None} \cap (Tasks \cup Wallets) = {}
\* None is null: no row, no agent, no reason.
ASSUME NullAssumption ==
  None \notin RowType /\ None \notin {"armed", "revoked", "owner-signed-out", "term-ended", "stop-loss"}
VARIABLES
  row,      \* agentic_wallets
  age,      \* see above
  aged,     \* "u": a first U is a minute old; "logout": the last attempt, ten minutes
  binance,  \* the session of a pairing at Binance
  agent,    \* the agent's status
  drained,  \* what was told to sell: "settings", the agent's; "exits", its positions
  order,    \* the hire's order, if one is unsettled
  fence,    \* agentic_wallet_fences, by wallet: the task whose lease holds
  task,     \* where each task is, and what it has read
  cancel,   \* pairings whose verifier was told to stop
  flakes, touches, crashes
vars == <<row, age, aged, binance, agent, drained, order, fence, task, cancel, flakes, touches, crashes>>
bounds == <<flakes, touches, crashes>>
world == <<age, binance, order>>
-----------------------------------------------------------------------------
(* Rows and their writes.                                                  *)
Active == {"hiring", "bound", "ending"}
Terminal == {"ended", "failed", "expired"}
Transitions ==
  [waiting |-> {"verified", "failed", "expired"}, verified |-> {"paired", "cleaning"},
   paired |-> {"hiring", "cleaning"}, hiring |-> {"bound", "cleaning"}, bound |-> {"ending", "ended"},
   ending |-> {"ended"}, cleaning |-> {"failed", "expired"}, ended |-> {}, failed |-> {}, expired |-> {}]
NewRow == [st |-> "waiting", matched |-> FALSE, att |-> 0, w |-> None, session |-> FALSE, sell |-> FALSE,
           hired |-> FALSE, facts |-> FALSE, drain |-> FALSE, u |-> FALSE, logout |-> FALSE, why |-> None]
Idle == [at |-> "idle", p |-> None, row |-> None, fresh |-> FALSE, age |-> 0]
Off == [Idle EXCEPT !.at = "off"]   \* a task that never runs
\* The clock a cycle has read decides its first steps only.
At(k, pc) == IF pc = "idle" THEN Idle ELSE [k EXCEPT !.at = pc, !.age = IF pc \in {"exits", "mark", "term"} THEN @ ELSE 0]
Go(t, pc) == task' = [task EXCEPT ![t] = At(@, pc)]
Done(t) == Go(t, "idle")
Read(t, p, pc) == task' = [task EXCEPT ![t] = [at |-> pc, p |-> p, row |-> row[p], fresh |-> TRUE, age |-> age[p]]]
Live == {p \in Pairings : row[p] # None}
OnlyHire(p, r) ==
  r.st \in Active => \A q \in Live \ {p} : row[q].w = r.w => row[q].st \notin Active
\* What patchWallet refuses by an exception, the version apart.
Legal(old, r) ==
  /\ r.st # old.st => r.st \in Transitions[old.st]
  /\ r.session => r.st \notin Terminal \cup {"waiting"}
\* Mutant: a write does not change the version.
StoreUnversioned(t, p, r, pc) ==
  /\ row' = [row EXCEPT ![p] = r]
  /\ task' = [task EXCEPT ![t] = At([@ EXCEPT !.row = r], pc)]

\* The row is stored and every other copy of it is out of date.
Store(t, p, r, pc) ==
  /\ row' = [row EXCEPT ![p] = r]
  /\ task' = [s \in Tasks |->
       IF s = t THEN At([task[s] EXCEPT !.row = r, !.fresh = TRUE], pc)
       ELSE IF task[s].p = p THEN [task[s] EXCEPT !.fresh = FALSE] ELSE task[s]]

\* Mutant: nothing looks at the wallet's other pairings.
WinsAlone(t, r) == task[t].fresh /\ Legal(task[t].row, r)

Wins(t, r) == task[t].fresh /\ Legal(task[t].row, r) /\ OnlyHire(task[t].p, r)

\* patchWallet: the task goes on at pc with what it wrote, or at lost.
Patch(t, r, pc, lost) ==
  IF Wins(t, r) THEN Store(t, task[t].p, r, pc) ELSE Go(t, lost) /\ UNCHANGED row

Last(t, r) == Patch(t, r, "idle", "idle")

\* The fence of the wallet of the task's row.
W(t) == task[t].row.w
Holds(t) == W(t) # None /\ fence[W(t)] = t
Free(t) == fence' = IF Holds(t) THEN [fence EXCEPT ![W(t)] = None] ELSE fence
Take(t) == fence[W(t)] = None /\ fence' = [fence EXCEPT ![W(t)] = t]
Revoke(p) == agent' = IF agent[p] = "armed" THEN [agent EXCEPT ![p] = "revoked"] ELSE agent
SignOut(p) == binance' = IF binance[p] = "live" THEN [binance EXCEPT ![p] = "out"] ELSE binance
-----------------------------------------------------------------------------
(* The API: pairing.                                                       *)
Create(p) ==
  /\ row[p] = None /\ task[p] = Idle
  /\ Cardinality({q \in Live : row[q].st \in {"waiting", "verified", "paired"}}) < Slots
  /\ row' = [row EXCEPT ![p] = NewRow]
  /\ task' = [task EXCEPT ![p] = [at |-> "signin", p |-> p, row |-> NewRow, fresh |-> TRUE, age |-> 0]]
  /\ UNCHANGED <<world, aged, agent, drained, fence, cancel, bounds>>
\* The sign-in command of create either fails or gives the QR code, stored in the row.
SignIn(p) ==
  /\ task[p].at = "signin"
  /\ \/ Last(p, [task[p].row EXCEPT !.st = "failed"])
     \/ Patch(p, task[p].row, "scan", "idle")
  /\ UNCHANGED <<world, aged, agent, drained, fence, cancel, bounds>>
\* The owner scans the code with the app of some wallet, or does not.
Scan(p) ==
  /\ task[p].at = "scan"
  /\ \/ Go(p, "undo") /\ UNCHANGED binance
     \/ /\ binance' = [binance EXCEPT ![p] = "live"]
        /\ \E w \in Wallets :
             task' = [task EXCEPT ![p].at = IF p \in cancel THEN "undo" ELSE "admit", ![p].row.w = w]
  /\ UNCHANGED <<row, age, order, aged, agent, drained, fence, cancel, bounds>>
\* admission, the pending lists and the code of the wallet: any of them may
\* refuse it, and the verifier may have been told to stop.
Admit(p) ==
  /\ task[p].at = "admit"
  /\ \/ Go(p, "undo")
     \/ /\ p \notin cancel /\ OnlyHire(p, [task[p].row EXCEPT !.st = "hiring"])
        /\ Go(p, "reread")
  /\ UNCHANGED <<row, world, aged, agent, drained, fence, cancel, bounds>>
Reread(p) ==
  /\ task[p].at = "reread"
  /\ IF row[p].st = "waiting"
     THEN task' = [task EXCEPT ![p].at = "store", ![p].row = [row[p] EXCEPT !.w = task[p].row.w], ![p].fresh = TRUE]
     ELSE Go(p, "undo")
  /\ UNCHANGED <<row, world, aged, agent, drained, fence, cancel, bounds>>
StoreVerified(p) ==
  /\ task[p].at = "store"
  /\ LET r == [task[p].row EXCEPT !.st = "verified", !.session = TRUE] IN
     /\ Patch(p, r, "idle", "undo")
     /\ age' = IF Wins(p, r) THEN [age EXCEPT ![p] = 0] ELSE age
  /\ UNCHANGED <<binance, order, aged, agent, drained, fence, cancel, bounds>>
Undo(p) ==
  /\ task[p].at = "undo"
  /\ SignOut(p) \/ UNCHANGED binance
  /\ IF row[p].st = "waiting" THEN Read(p, p, "fail") ELSE Done(p)
  /\ UNCHANGED <<row, age, order, aged, agent, drained, fence, cancel, bounds>>
VerifyFailed(p) ==
  /\ task[p].at = "fail"
  /\ \E st \in {"failed", "expired"} : Last(p, [task[p].row EXCEPT !.st = st])
  /\ UNCHANGED <<world, aged, agent, drained, fence, cancel, bounds>>
\* An HTTP call has read the row: its checks are made on the copy.
Call(t, p) ==
  /\ task[t] = Idle /\ p \in Live
  /\ \/ /\ row[p].st \in {"waiting", "verified"} /\ ~row[p].matched /\ task[p].at # "signin"
        /\ row[p].att < Attempts /\ (row[p].st = "verified" => age[p] = 0) /\ Read(t, p, "code")
     \/ row[p].st \in {"verified", "paired"} /\ row[p].matched /\ age[p] = 0 /\ Read(t, p, "facts")
     \/ row[p].st = "paired" /\ OnlyHire(p, [row[p] EXCEPT !.st = "hiring"]) /\ Read(t, p, "accept")
     \/ row[p].st = "hiring" /\ Read(t, p, "fence")
  /\ UNCHANGED <<row, world, aged, agent, drained, fence, cancel, bounds>>
Code(t) ==
  /\ task[t].at = "code"
  /\ LET r == [task[t].row EXCEPT !.att = @ + 1] IN
     \/ Last(t, [r EXCEPT !.matched = TRUE])
     \/ r.att < Attempts /\ Last(t, r)
     \/ r.att = Attempts /\ Patch(t, r, IF r.st = "waiting" THEN "stop" ELSE "clean", "idle")
  /\ UNCHANGED <<world, aged, agent, drained, fence, cancel, bounds>>
\* A verifier that runs is told to stop and waited for; then the row again.
Verifies(p) == task[p].at \notin {"idle", "signin"}
Reclose(t, p) == IF t \in Routes \/ row[p].st = "waiting" THEN Read(t, p, "close") ELSE Done(t)
Stop(t) ==
  LET p == task[t].p IN
  /\ task[t].at = "stop"
  /\ IF Verifies(p) THEN cancel' = cancel \cup {p} /\ Go(t, "await") ELSE Reclose(t, p) /\ UNCHANGED cancel
  /\ UNCHANGED <<row, world, aged, agent, drained, fence, bounds>>
Await(t) ==
  LET p == task[t].p IN
  /\ task[t].at = "await" /\ ~Verifies(p) /\ Reclose(t, p)
  /\ UNCHANGED <<row, world, aged, agent, drained, fence, cancel, bounds>>
Close(t) ==
  /\ task[t].at = "close"
  /\ Last(t, [task[t].row EXCEPT !.st = IF t \in Routes THEN "failed" ELSE "expired"])
  /\ UNCHANGED <<world, aged, agent, drained, fence, cancel, bounds>>
\* finalize, once the session's settings and balances were read, or were not.
Finalize(t) ==
  /\ task[t].at = "facts"
  /\ Last(t, [task[t].row EXCEPT !.st = "paired"]) \/ (Done(t) /\ UNCHANGED row)
  /\ UNCHANGED <<world, aged, agent, drained, fence, cancel, bounds>>
AcceptHire(t) ==
  LET p == task[t].p
      r(sell) == [task[t].row EXCEPT !.st = "hiring", !.hired = TRUE, !.sell = sell] IN
  /\ task[t].at = "accept"
  /\ IF task[t].row.matched /\ age[p] = 0 /\ Wins(t, r(TRUE))
     THEN (\E sell \in BOOLEAN : Store(t, p, r(sell), "fence")) /\ age' = [age EXCEPT ![p] = 0]
     ELSE Done(t) /\ UNCHANGED <<row, age>>
  /\ UNCHANGED <<binance, order, aged, agent, drained, fence, cancel, bounds>>
-----------------------------------------------------------------------------
(* The API: the hire, under the wallet's fence, and cleaning up.           *)
\* A task that cannot take the fence within five seconds gives up.
Busy(t) == fence[W(t)] # None /\ Done(t) /\ UNCHANGED fence
\* Mutant: a hire whose gate has passed is taken to have its agent.
ResumeArmed(t) ==
  LET p == task[t].p IN
  /\ task[t].at = "fence"
  /\ \/ Busy(t)
     \/ fence[W(t)] = None /\ row[p].st # "hiring" /\ Go(t, "thrown") /\ UNCHANGED fence
     \/ row[p].st = "hiring" /\ Take(t) /\ Read(t, p, IF row[p].facts THEN "staged" ELSE "gate")
  /\ UNCHANGED <<row, world, aged, agent, drained, cancel, bounds>>
ResumeHire(t) ==
  LET p == task[t].p IN
  /\ task[t].at = "fence"
  /\ \/ Busy(t)
     \/ fence[W(t)] = None /\ row[p].st # "hiring" /\ Go(t, "thrown") /\ UNCHANGED fence
     \/ row[p].st = "hiring" /\ Take(t) /\ Read(t, p, IF row[p].facts THEN "arm" ELSE "gate")
  /\ UNCHANGED <<row, world, aged, agent, drained, cancel, bounds>>
\* The reads of the gated stage, each after the lease is renewed: the session's
\* settings, its pending orders, the grant.  Any of them may refuse the hire.
Gate(t) ==
  /\ task[t].at = "gate"
  /\ Go(t, "refuse") \/ (Holds(t) /\ binance[task[t].p] = "live" /\ Go(t, "gated"))
  /\ UNCHANGED <<row, world, aged, agent, drained, fence, cancel, bounds>>
\* Mutant: the stage after a gate whose write was lost.
GatedBlind(t) ==
  /\ task[t].at = "gated" /\ Patch(t, [task[t].row EXCEPT !.facts = TRUE], "arm", "arm")
  /\ UNCHANGED <<world, aged, agent, drained, fence, cancel, bounds>>
Gated(t) ==
  /\ task[t].at = "gated" /\ Patch(t, [task[t].row EXCEPT !.facts = TRUE], "arm", "refuse")
  /\ UNCHANGED <<world, aged, agent, drained, fence, cancel, bounds>>
Refuse(t) ==
  /\ task[t].at = "refuse" /\ Patch(t, [task[t].row EXCEPT !.st = "cleaning"], "thrown", "thrown") /\ Free(t)
  /\ UNCHANGED <<world, aged, agent, drained, cancel, bounds>>
CreateAgent(t) ==
  /\ task[t].at = "arm" /\ Go(t, "staged")
  /\ agent' = IF agent[task[t].p] = None THEN [agent EXCEPT ![task[t].p] = "armed"] ELSE agent
  /\ UNCHANGED <<row, world, aged, drained, fence, cancel, bounds>>
\* The agent's settings and budget are stored, the row's stage after each.
Staged(t) ==
  /\ task[t].at = "staged" /\ Patch(t, task[t].row, "bind", "thrown")
  /\ IF Wins(t, task[t].row) THEN UNCHANGED fence ELSE Free(t)
  /\ UNCHANGED <<world, aged, agent, drained, cancel, bounds>>
Bind(t) ==
  /\ task[t].at = "bind" /\ Patch(t, [task[t].row EXCEPT !.st = "bound"], "thrown", "thrown") /\ Free(t)
  /\ UNCHANGED <<world, aged, agent, drained, cancel, bounds>>
\* hire and sweep, after resumeHire: a refused hire is cleaned up at once.
Thrown(t) ==
  /\ task[t].at = "thrown"
  /\ IF row[task[t].p].st = "cleaning" THEN Read(t, task[t].p, "clean") ELSE Done(t)
  /\ UNCHANGED <<row, world, aged, agent, drained, fence, cancel, bounds>>
Clean(t) ==
  /\ task[t].at = "clean"
  /\ IF task[t].row.st = "cleaning" THEN Go(t, "cleaning") /\ UNCHANGED row
     ELSE Patch(t, [task[t].row EXCEPT !.st = "cleaning"], "cleaning", "idle")
  /\ UNCHANGED <<world, aged, agent, drained, fence, cancel, bounds>>
CleanFence(t) ==
  /\ task[t].at = "cleaning"
  /\ IF task[t].row.hired THEN Busy(t) \/ (Take(t) /\ Go(t, "signout"))
     ELSE Go(t, "signout") /\ UNCHANGED fence
  /\ UNCHANGED <<row, world, aged, agent, drained, cancel, bounds>>
\* One attempt, whose answer is not looked at.
CleanSignOut(t) ==
  /\ task[t].at = "signout" /\ Go(t, "cleaned")
  /\ \/ task[t].row.session /\ (task[t].row.hired => Holds(t)) /\ SignOut(task[t].p)
     \/ UNCHANGED binance
  /\ UNCHANGED <<row, age, order, aged, agent, drained, fence, cancel, bounds>>
Cleaned(t) ==
  /\ task[t].at = "cleaned" /\ Free(t)
  /\ \E st \in {"failed", "expired"} : Last(t, [task[t].row EXCEPT !.st = st, !.session = FALSE])
  /\ UNCHANGED <<world, aged, agent, drained, cancel, bounds>>
\* Mutant: the sweep does not resume a hire.
SweepPast(t, p) ==
  LET st == row[p].st IN
  /\ task[t] = Idle /\ p \in Live
  /\ \/ st = "waiting" /\ age[p] > 0 /\ Read(t, p, "stop")
     \/ st \in {"verified", "paired"} /\ age[p] > 0 /\ Read(t, p, "clean")
     \/ st = "cleaning" /\ Read(t, p, "clean")
     \/ st = "ending" /\ Read(t, p, "end")
  /\ UNCHANGED <<row, world, aged, agent, drained, fence, cancel, bounds>>
\* One row of the sweep.
Sweep(t, p) ==
  LET st == row[p].st IN
  /\ task[t] = Idle /\ p \in Live
  /\ \/ st = "waiting" /\ age[p] > 0 /\ Read(t, p, "stop")
     \/ st \in {"verified", "paired"} /\ age[p] > 0 /\ Read(t, p, "clean")
     \/ st = "cleaning" /\ Read(t, p, "clean")
     \/ st = "hiring" /\ Read(t, p, "fence")
     \/ st = "ending" /\ Read(t, p, "end")
     \/ st = "ended" /\ agent[p] = "armed" /\ Read(t, p, "revoke")
  /\ UNCHANGED <<row, world, aged, agent, drained, fence, cancel, bounds>>
-----------------------------------------------------------------------------
(* The end of a hire: resumeAgenticEnding, by the sweep or by a cycle.     *)

Unsettled(p) == \E q \in Live : row[q].w = row[p].w /\ order[q] \in {"listed", "spawned"}
Ended(r) == [r EXCEPT !.st = "ended", !.session = FALSE, !.why = IF @ = None THEN "term-ended" ELSE @]

\* Mutant: an order of the wallet without an outcome is not waited for.
EndingHasty(t) ==
  LET p == task[t].p  r == task[t].row IN
  /\ task[t].at = "end" /\ Revoke(p)
  /\ IF age[p] >= 4 THEN Last(t, Ended(r))
     ELSE UNCHANGED row /\ Go(t, IF r.logout /\ "logout" \notin aged[p] THEN "idle" ELSE "leave")
  /\ UNCHANGED <<world, aged, drained, fence, cancel, bounds>>

\* Mutant: no maximum time.
EndingEver(t) ==
  LET p == task[t].p  r == task[t].row IN
  /\ task[t].at = "end" /\ Revoke(p) /\ UNCHANGED row
  /\ Go(t, IF (Unsettled(p) /\ age[p] < 3) \/ (r.logout /\ "logout" \notin aged[p]) THEN "idle" ELSE "leave")
  /\ UNCHANGED <<world, aged, drained, fence, cancel, bounds>>

Ending(t) ==
  LET p == task[t].p  r == task[t].row IN
  /\ task[t].at = "end" /\ Revoke(p)
  /\ IF age[p] >= 4 THEN Last(t, Ended(r))
     ELSE /\ UNCHANGED row
          /\ Go(t, IF (Unsettled(p) /\ age[p] < 3) \/ (r.logout /\ "logout" \notin aged[p]) THEN "idle" ELSE "leave")
  /\ UNCHANGED <<world, aged, drained, fence, cancel, bounds>>

LeaveFence(t) ==
  LET p == task[t].p IN
  /\ task[t].at = "leave"
  /\ \/ Busy(t)
     \/ /\ fence[W(t)] = None
        /\ IF row[p].st = "ending" /\ row[p].session /\ (row[p].logout => "logout" \in aged[p])
           THEN Take(t) /\ Read(t, p, "logout") ELSE Done(t) /\ UNCHANGED fence
  /\ UNCHANGED <<row, world, aged, agent, drained, cancel, bounds>>

\* The command is sent before the attempt is recorded.
LogOut(t) ==
  /\ task[t].at = "logout"
  /\ IF Holds(t) THEN Go(t, "record") /\ (SignOut(task[t].p) \/ UNCHANGED binance)
     ELSE Done(t) /\ UNCHANGED binance
  /\ UNCHANGED <<row, age, order, aged, agent, drained, fence, cancel, bounds>>

Record(t) ==
  LET r == [task[t].row EXCEPT !.logout = TRUE] IN
  /\ task[t].at = "record" /\ Patch(t, r, "verify", "idle")
  /\ IF Wins(t, r) THEN aged' = [aged EXCEPT ![task[t].p] = @ \ {"logout"}] /\ UNCHANGED fence
     ELSE Free(t) /\ UNCHANGED aged
  /\ UNCHANGED <<world, agent, drained, cancel, bounds>>

\* wallet status: "U", the session is gone; a reading may be wrong or missing.
Reading(p, s) ==
  \/ s = "unreachable" /\ UNCHANGED flakes
  \/ s = (IF binance[p] = "live" THEN "connected" ELSE "U") /\ UNCHANGED flakes
  \/ s = "U" /\ binance[p] = "live" /\ flakes < Flakes /\ flakes' = flakes + 1

\* Mutant: the command's own answer is believed.
VerifyOutBlind(t) ==
  /\ task[t].at = "verify" /\ Free(t) /\ Last(t, Ended(task[t].row))
  /\ UNCHANGED <<world, aged, agent, drained, cancel, bounds>>

VerifyOut(t) ==
  /\ task[t].at = "verify" /\ Free(t)
  /\ IF Holds(t)
     THEN \E s \in {"U", "connected", "unreachable"} :
            Reading(task[t].p, s) /\ Last(t, IF s = "U" THEN Ended(task[t].row) ELSE task[t].row)
     ELSE Done(t) /\ UNCHANGED <<row, flakes>>
  /\ UNCHANGED <<world, aged, agent, drained, cancel, touches, crashes>>

RevokeEnded(t) ==
  /\ task[t].at = "revoke" /\ Revoke(task[t].p) /\ Done(t)
  /\ UNCHANGED <<row, world, aged, drained, fence, cancel, bounds>>
-----------------------------------------------------------------------------
(* A worker's cycle for one hire.                                          *)

Cycle(t, p) ==
  /\ task[t] = Idle /\ p \in Live /\ row[p].facts /\ Read(t, p, "drain")
  /\ UNCHANGED <<row, world, aged, agent, drained, fence, cancel, bounds>>

\* The settings and the positions are told first, the row after them.
Drain(t) ==
  /\ task[t].at = "drain"
  /\ IF task[t].row.st = "bound" /\ task[t].row.sell /\ ~task[t].row.drain /\ task[t].age >= 1
     THEN drained' = [drained EXCEPT ![task[t].p] = @ \cup {"settings"}] /\ Go(t, "exits")
     ELSE UNCHANGED drained /\ Go(t, "term")
  /\ UNCHANGED <<row, world, aged, agent, fence, cancel, bounds>>

Exits(t) ==
  /\ task[t].at = "exits" /\ Go(t, "mark")
  /\ drained' = [drained EXCEPT ![task[t].p] = @ \cup {"exits"}]
  /\ UNCHANGED <<row, world, aged, agent, fence, cancel, bounds>>

Mark(t) ==
  /\ task[t].at = "mark" /\ Patch(t, [task[t].row EXCEPT !.drain = TRUE], "term", "term")
  /\ UNCHANGED <<world, aged, agent, drained, fence, cancel, bounds>>

\* Mutant: the clock is read again.
TermEndNow(t) ==
  /\ task[t].at = "term"
  /\ IF task[t].row.st = "bound" /\ age[task[t].p] >= 2
     THEN Patch(t, [task[t].row EXCEPT !.st = "ending"], "termed", "termed")
     ELSE Go(t, "probe") /\ UNCHANGED row
  /\ UNCHANGED <<world, aged, agent, drained, fence, cancel, bounds>>

\* The agent is revoked whether or not this task's write ended the term.
TermEnd(t) ==
  /\ task[t].at = "term"
  /\ IF task[t].row.st = "bound" /\ task[t].age >= 2
     THEN Patch(t, [task[t].row EXCEPT !.st = "ending"], "termed", "termed")
     ELSE Go(t, "probe") /\ UNCHANGED row
  /\ UNCHANGED <<world, aged, agent, drained, fence, cancel, bounds>>

\* After a leaveBound: back to the cycle.
RevokeLeft(t) ==
  /\ task[t].at \in {"termed", "left"} /\ Revoke(task[t].p) /\ Free(t)
  /\ Go(t, IF task[t].at = "left" THEN "rest" ELSE "probe")
  /\ UNCHANGED <<row, world, aged, drained, cancel, bounds>>

\* The probe may not be due, and the fence may not be free.
Probe(t) ==
  /\ task[t].at = "probe"
  /\ \/ Go(t, "rest") /\ UNCHANGED fence
     \/ task[t].row.st = "bound" /\ Take(t) /\ Read(t, task[t].p, "status")
  /\ UNCHANGED <<row, world, aged, agent, drained, cancel, bounds>>

Status(t) ==
  LET p == task[t].p  r == task[t].row  confirmation == r.u /\ "u" \in aged[p] IN
  /\ task[t].at = "status"
  /\ IF r.st = "bound" /\ Holds(t)
     THEN \E s \in {"U", "connected", "unreachable"} :
            /\ Reading(p, s)
            /\ IF s = "U" /\ confirmation
               THEN /\ Patch(t, [r EXCEPT !.st = "ended", !.session = FALSE, !.why = "owner-signed-out"], "left", "left")
                    /\ UNCHANGED <<aged, fence>>
               ELSE LET next == [r EXCEPT !.u = (s = "U")] IN
                    /\ Patch(t, next, "rest", "rest") /\ Free(t)
                    /\ aged' = IF Wins(t, next) /\ ~(r.u /\ next.u) THEN [aged EXCEPT ![p] = @ \ {"u"}] ELSE aged
     ELSE Go(t, "rest") /\ Free(t) /\ UNCHANGED <<row, aged, flakes>>
  /\ UNCHANGED <<world, agent, drained, cancel, touches, crashes>>

\* The lanes: a stop-loss of the DCA lane leaves the hire, under the fence, with
\* the cycle's copy of the row, and the lane hands the stored one back.
Rest(t) ==
  /\ task[t].at = "rest"
  /\ \/ Go(t, "turn") /\ UNCHANGED fence
     \/ task[t].row.st = "bound" /\ Take(t) /\ Go(t, "halt")
  /\ UNCHANGED <<row, world, aged, agent, drained, cancel, bounds>>

StopLoss(t) ==
  LET r == [task[t].row EXCEPT !.st = "ending", !.why = "stop-loss"] IN
  /\ task[t].at = "halt" /\ Free(t)
  /\ IF Wins(t, r) THEN Store(t, task[t].p, r, "turn") ELSE Read(t, task[t].p, "turn") /\ UNCHANGED row
  /\ UNCHANGED <<world, aged, agent, drained, cancel, bounds>>

Turn(t) ==
  /\ task[t].at = "turn"
  /\ Go(t, CASE task[t].row.st = "ending" -> "end" [] task[t].row.st = "ended" -> "revoke" [] OTHER -> "idle")
  /\ UNCHANGED <<row, world, aged, agent, drained, fence, cancel, bounds>>
-----------------------------------------------------------------------------
(* Orders, as far as the end of a hire waits for them (AgenticDispatch).   *)

Quote(t, p) ==
  /\ task[t] = Idle /\ p \in Live /\ row[p].st = "bound" /\ agent[p] = "armed" /\ age[p] < 2
  /\ fence[row[p].w] = None /\ order[p] = "none"
  /\ fence' = [fence EXCEPT ![row[p].w] = t] /\ Read(t, p, "settings")
  /\ UNCHANGED <<row, world, aged, agent, drained, cancel, bounds>>

\* readAgenticSettings and recordAgenticConnection, then the order is listed.
Settings(t) ==
  LET p == task[t].p  next == [task[t].row EXCEPT !.u = TRUE] IN
  /\ task[t].at = "settings"
  /\ \E s \in {"U", "connected", "unreachable"} :
       /\ Reading(p, s)
       /\ IF s = "connected" /\ Holds(t)
          THEN order' = [order EXCEPT ![p] = "listed"] /\ Go(t, "claim") /\ UNCHANGED <<row, aged, fence>>
          ELSE /\ UNCHANGED order /\ Free(t)
               /\ IF s = "U" THEN Last(t, next) ELSE Done(t) /\ UNCHANGED row
               /\ aged' = IF s = "U" /\ ~task[t].row.u /\ Wins(t, next) THEN [aged EXCEPT ![p] = @ \ {"u"}] ELSE aged
  /\ UNCHANGED <<age, binance, agent, drained, cancel, touches, crashes>>

Claim(t) ==
  LET p == task[t].p IN
  /\ task[t].at = "claim"
  /\ IF Holds(t) /\ row[p].st = "bound" /\ age[p] < 2 /\ agent[p] = "armed"
     THEN order' = [order EXCEPT ![p] = "spawned"] /\ Go(t, "child") /\ UNCHANGED fence
      ELSE order' = [order EXCEPT ![p] = "none"] /\ Done(t) /\ Free(t)
  /\ UNCHANGED <<row, age, binance, aged, agent, drained, cancel, bounds>>

\* The child process ends: the order is settled, or left for the resolver.
ChildEnds(t) ==
  /\ task[t].at = "child" /\ Done(t) /\ Free(t)
  /\ order' = [order EXCEPT ![task[t].p] = "none"] \/ UNCHANGED order
  /\ UNCHANGED <<row, age, binance, aged, agent, drained, cancel, bounds>>

\* resolveAgenticOrder, under the fence: settled, or held for an operator.
Resolve(p) ==
  /\ p \in Live /\ order[p] \in {"listed", "spawned"} /\ fence[row[p].w] = None
  /\ \E o \in {"none", "held"} : order' = [order EXCEPT ![p] = o]
  /\ UNCHANGED <<row, age, binance, aged, agent, drained, fence, task, cancel, bounds>>
-----------------------------------------------------------------------------
(* Time, the owner, faults.                                                *)

Tick(p) ==
  /\ p \in Live /\ age[p] < (IF row[p].hired THEN 4 ELSE 1)
  /\ row[p].st \in {"waiting", "verified", "paired"} \cup Active
  /\ age' = [age EXCEPT ![p] = @ + 1]
  /\ IF row[p].hired /\ age[p] = 3 THEN SignOut(p) ELSE UNCHANGED binance
  /\ UNCHANGED <<row, order, aged, agent, drained, fence, task, cancel, bounds>>

Minute(p) ==
  /\ p \in Live
  /\ \E x \in {"u", "logout"} \ aged[p] :
       /\ IF x = "u" THEN row[p].u /\ row[p].st = "bound" ELSE row[p].logout /\ row[p].st = "ending"
       /\ aged' = [aged EXCEPT ![p] = @ \cup {x}]
  /\ UNCHANGED <<row, world, agent, drained, fence, task, cancel, bounds>>

OwnerSignsOut(p) ==
  /\ binance[p] = "live" /\ SignOut(p)
  /\ UNCHANGED <<row, age, order, aged, agent, drained, fence, task, cancel, bounds>>

\* A write of the row that changes only columns left out here: balances, the
\* settings hold, stopped entries, the keep-alive.
Touch(p) ==
  /\ p \in Live /\ touches < Touches /\ touches' = touches + 1
  /\ task' = [s \in Tasks |-> IF task[s].p = p THEN [task[s] EXCEPT !.fresh = FALSE] ELSE task[s]]
  /\ UNCHANGED <<row, world, aged, agent, drained, fence, cancel, flakes, crashes>>

\* A lease runs out under its holder, but not while a child trades (AgenticLease).
Lapse(w) ==
  /\ fence[w] # None /\ (fence[w] # Gone => Slow /\ task[fence[w]].at # "child")
  /\ fence' = [fence EXCEPT ![w] = None]
  /\ UNCHANGED <<row, world, aged, agent, drained, task, cancel, bounds>>

Dies(S) ==
  /\ crashes < Crashes /\ crashes' = crashes + 1
  /\ task' = [t \in Tasks |-> IF t \in S /\ task[t] # Off THEN Idle ELSE task[t]]
  /\ fence' = [w \in Wallets |-> IF fence[w] \in S THEN Gone ELSE fence[w]]

WorkerDies(t) == Dies({t}) /\ UNCHANGED <<row, world, aged, agent, drained, cancel, flakes, touches>>

\* start of the next API process expires every pairing that waited.
ApiRestarts ==
  /\ Dies(Api)
  /\ row' = [p \in Pairings |-> IF p \in Live /\ row[p].st = "waiting" THEN [row[p] EXCEPT !.st = "expired"] ELSE row[p]]
  /\ cancel' = {}
  /\ UNCHANGED <<world, aged, agent, drained, flakes, touches>>
-----------------------------------------------------------------------------
Init ==
  /\ row = [p \in Pairings |-> None] /\ age = [p \in Pairings |-> 0] /\ aged = [p \in Pairings |-> {}]
  /\ binance = [p \in Pairings |-> "none"] /\ agent = [p \in Pairings |-> None]
  /\ drained = [p \in Pairings |-> {}]
  /\ order = [p \in Pairings |-> "none"] /\ fence = [w \in Wallets |-> None]
  /\ task = [t \in Tasks |-> Idle] /\ cancel = {}
  /\ flakes = 0 /\ touches = 0 /\ crashes = 0

Verify(p) == SignIn(p) \/ Scan(p) \/ Admit(p) \/ Reread(p) \/ StoreVerified(p) \/ Undo(p) \/ VerifyFailed(p)
Leave(t) == Ending(t) \/ LeaveFence(t) \/ LogOut(t) \/ Record(t) \/ VerifyOut(t) \/ RevokeEnded(t)
Serve(t) ==
  \/ Code(t) \/ Stop(t) \/ Await(t) \/ Close(t) \/ Finalize(t) \/ AcceptHire(t)
  \/ ResumeHire(t) \/ Gate(t) \/ Gated(t) \/ Refuse(t) \/ CreateAgent(t) \/ Staged(t) \/ Bind(t) \/ Thrown(t)
  \/ Clean(t) \/ CleanFence(t) \/ CleanSignOut(t) \/ Cleaned(t) \/ Leave(t)
Work(t) ==
  Drain(t) \/ Exits(t) \/ Mark(t) \/ TermEnd(t) \/ RevokeLeft(t) \/ Probe(t) \/ Status(t) \/ Rest(t) \/ StopLoss(t) \/ Turn(t) \/ Leave(t)
Trade(t) == Settings(t) \/ Claim(t) \/ ChildEnds(t)

Next ==
  \/ \E p \in Pairings : Create(p) \/ Verify(p) \/ Resolve(p) \/ Tick(p) \/ Minute(p) \/ OwnerSignsOut(p) \/ Touch(p)
  \/ \E t \in Routes : Serve(t) \/ \E p \in Pairings : Call(t, p)
  \/ \E t \in Sweepers : Serve(t) \/ \E p \in Pairings : Sweep(t, p)
  \/ \E t \in Workers : Work(t) \/ WorkerDies(t) \/ \E p \in Pairings : Cycle(t, p)
  \/ \E t \in Traders : Trade(t) \/ WorkerDies(t) \/ \E p \in Pairings : Quote(t, p)
  \/ \E w \in Wallets : Lapse(w)
  \/ ApiRestarts

Spec == Init /\ [][Next]_vars

\* A process takes the steps of a handler it has begun, the sweep and the cycles
\* come back to every pairing, time passes, and the lease of the dead runs out.
Fairness ==
  /\ \A p \in Pairings : WF_vars(Verify(p)) /\ WF_vars(Tick(p))
  /\ \A t \in Routes : WF_vars(Serve(t))
  /\ \A t \in Sweepers : WF_vars(Serve(t)) /\ \A p \in Pairings : SF_vars(Sweep(t, p))
  /\ \A t \in Workers : WF_vars(Work(t)) /\ \A p \in Pairings : SF_vars(Cycle(t, p))
  /\ \A t \in Traders : WF_vars(Trade(t))
  /\ \A w \in Wallets : WF_vars(fence[w] = Gone /\ Lapse(w))

FairSpec == Spec /\ Fairness
-----------------------------------------------------------------------------
(* Properties.                                                             *)

\* A row past `waiting` names its wallet, and a row that trades has its session.
TypeOK ==
  /\ row \in [Pairings -> RowType \cup {None}] /\ task \in [Tasks -> TaskType]
  /\ \A p \in Live : row[p].st \in {"verified", "paired", "bound", "ending"} => row[p].w # None /\ row[p].session
  /\ age \in [Pairings -> 0..4] /\ aged \in [Pairings -> SUBSET {"u", "logout"}]
  /\ binance \in [Pairings -> {"none", "live", "out"}] /\ agent \in [Pairings -> {None, "armed", "revoked"}]
  /\ order \in [Pairings -> {"none", "listed", "spawned", "held"}]
  /\ drained \in [Pairings -> SUBSET {"settings", "exits"}] /\ cancel \subseteq Pairings
  /\ fence \in [Wallets -> Tasks \cup {None, Gone}] /\ {flakes, touches, crashes} \subseteq Nat
  /\ \A t \in Tasks : task[t].at = "idle" => task[t] = Idle
  /\ \A t \in Tasks : task[t].fresh /\ task[t].at \notin {"admit", "reread", "store"} => task[t].row.st = row[task[t].p].st

\* A wallet has one hire at a time, whatever pairings of it are hired at once
\* (acceptHire, patchWallet, the index agentic_wallets_active_wallet).
OneHirePerWallet ==
  \A p, q \in Live : p # q /\ {row[p].st, row[q].st} \subseteq Active => row[p].w # row[q].w

\* An armed agent belongs to a hire whose gate has passed and that was not
\* cleaned up, even if two tasks resume the hire at once and one lost its lease.
ArmedIsHired ==
  \A p \in Pairings : agent[p] = "armed" => row[p].facts /\ row[p].st \in Active \cup {"ended"}

\* A hire that ended has no session left at Binance, whatever the stages that
\* ended it raced with, unless wallet status itself was wrong: once after the
\* platform's own sign-out, twice a minute apart for an owner who signed out.
EndedIsSignedOut ==
  \A p \in Live :
    row[p].st = "ended" /\ binance[p] = "live" =>
      flakes >= (IF row[p].why = "owner-signed-out" THEN 2 ELSE 1)

\* A sell-all hire that came to the end of its term was told to sell, settings
\* and positions, although the three writes of the drain may be cut by a crash.
DrainedBeforeTermEnd ==
  \A p \in Live :
    row[p].sell /\ row[p].st \in {"ending", "ended"} /\ row[p].why \in {None, "term-ended"}
      => drained[p] = {"settings", "exits"}

\* The platform never signs a hire out while it is hired or bound, nor while a
\* claimed order of its wallet may trade before the half hour of grace is over.
SignsOut(p) == \E t \in Tasks : task[t].p = p /\ task[t].at \in {"undo", "signout", "logout"} /\ task'[t] # task[t]
SignOutIsSafe ==
  [][\A p \in Pairings :
       binance[p] = "live" /\ binance'[p] = "out" /\ SignsOut(p) =>
         /\ row[p].st \notin {"hiring", "bound"}
         /\ row[p].st = "ending" => order[p] # "spawned" \/ age[p] >= 3]_vars

\* Every pairing is decided: it fails, it expires, or its hire is bound, with the
\* API crashed and restarted between any two steps.
Is(p, S) == p \in Live /\ row[p].st \in S
PairingsDecided == \A p \in Pairings : (p \in Live) ~> Is(p, Terminal \cup {"bound", "ending"})

\* While a worker runs, a bound hire ends and its agent is revoked,
\* whatever Binance answers: at the latest with the maximum time of its sign-in.
WorkerRuns == \E t \in Workers : task[t] # Off
HiresEnd == \A p \in Pairings : Is(p, {"bound"}) /\ WorkerRuns ~> Is(p, {"ended"}) /\ agent[p] # "armed"
-----------------------------------------------------------------------------
(* What all this promises: WalletHires.                                    *)

\* What a row is worth: nobody relies on it before `hiring`; from the write of
\* its facts on, the gate is passed.
Stage(p) ==
  LET st == IF row[p] = None THEN "none" ELSE row[p].st IN
  CASE st \in {"waiting", "verified", "paired"} -> "open"
    [] st = "hiring" -> IF row[p].facts THEN "gated" ELSE "hired"
    [] st \in {"cleaning", "failed", "expired"} -> "closed"
    [] st = "ended" -> "over"
    [] OTHER -> st
Hiring(p) == row[p] # None /\ row[p].st \in Active

Hires == INSTANCE WalletHires WITH
  hire <- [p \in Pairings |-> Stage(p)],
  wallet <- [p \in Pairings |-> IF Hiring(p) THEN row[p].w ELSE None],
  session <- {p \in Pairings : binance[p] = "live"},
  wrong <- flakes

\* Every step of every task, and every crash, is at most one step of the promised
\* hires: of one pairing, in its order, whatever lost leases and writes do.
ImplementsHires == [][Hires!Next]_(Hires!hires)
=============================================================================
