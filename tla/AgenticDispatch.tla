-------------------------- MODULE AgenticDispatch --------------------------
(***************************************************************************)
(* The order-dispatch protocol of the Binance Agentic Wallet plane         *)
(* (src/src/agentic): how one wallet's market orders are begun, claimed,   *)
(* handed to a child process, answered, resolved against the venue's list  *)
(* and the chain, and, when nothing else can, disposed by an operator.     *)
(*                                                                         *)
(* One wallet, many process instances.  Database rows are shared; every    *)
(* patch of an order row is a compare-and-set on the four fields           *)
(* (dispatch, claimant, outcome, response) its caller last read.  A        *)
(* process runs one task at a time (the lane is a sequential loop), and    *)
(* the awaits of the code between which other processes can change what a  *)
(* task relies on separate its steps.  Time is abstracted: AgenticLease    *)
(* has the clock and proves what FenceLapses and ChildRuns take from it.   *)
(***************************************************************************)
EXTENDS Naturals, FiniteSets

CONSTANTS
  Orders,      \* idempotency keys; an order's own venue row has the same name
  Buys,        \* the orders that buy; the others sell
  Workers,     \* process instances that execute and resolve orders
  Gates,       \* process instances of the operator's dispose command
  Mortal,      \* the instances that may exit, crash, or lose their host
  OwnerRows,   \* venue rows made by hand by the wallet's owner
  OwnerEnds,   \* how such a row may end
  None

Procs == Workers \cup Gates
Answers == {"accepted", "rejected", "no-response"}

ASSUME DispatchAssumption ==
  /\ Buys \subseteq Orders /\ Mortal \subseteq Procs
  /\ Orders \cap OwnerRows = {}
  /\ OwnerEnds \subseteq {"finished", "refused"}
  /\ None \notin Orders \cup Procs \cup OwnerRows \cup Answers \cup {"exit", "dispose"}

VARIABLES
  fence,          \* the wallet's row of agentic_wallet_fences
  row,            \* agentic_orders
  jr,             \* execution_journal
  entriesStopped, \* agentic_wallets.entries_stopped is set
  inst,           \* agentic_instances, and whether the process and its host live
  task,           \* the one task of each process
  child,          \* the child process of each order
  venue           \* the venue's order rows and the receipts behind them

vars == <<fence, row, jr, entriesStopped, inst, task, child, venue>>
db == <<row, jr, entriesStopped>>
world == <<inst, child, venue>>

VRows == Orders \cup OwnerRows
-----------------------------------------------------------------------------
(* Rows, compare-and-set, fences, tasks.                                   *)

\* What a process remembers of the row it read: the fields patchOrder compares.
Cas(r) == [dispatch |-> r.dispatch, claimant |-> r.claimant,
           outcome |-> r.outcome, response |-> r.response]

\* held: hold_reason is a verdict, not one of the two reasons that only wait.
Absent == [dispatch |-> "absent", claimant |-> None, outcome |-> "open",
           response |-> None, quoted |-> FALSE, snap |-> {}, listed |-> None,
           tx |-> None, held |-> FALSE]

Obligation(o) == row[o].dispatch # "absent" /\ row[o].outcome = "open"

\* Mutant: an order held for the operator no longer blocks the wallet.
OtherUnheld(o) == \E x \in Orders \ {o} : Obligation(x) /\ ~row[x].held

OtherObligation(o) == \E x \in Orders \ {o} : Obligation(x)
TxTaken(o, tx) == \E x \in Orders \ {o} : row[x].tx = tx

\* A fence token stands for one acquisition; a process that runs one task at a
\* time holds at most its latest, so the holder's name identifies the token.
Holds(p) == fence.holder = p /\ fence.valid
Acquire(p) == ~fence.valid /\ fence' = [holder |-> p, valid |-> TRUE]
Released(p) == IF fence.holder = p THEN [fence EXCEPT !.valid = FALSE] ELSE fence

Idle == [pc |-> "idle", ord |-> None, seen |-> Cas(Absent), pick |-> None, snap |-> {}]
At(p, pc) == inst[p].alive /\ task[p].pc = pc
Begun(p, pc, o) == task' = [task EXCEPT ![p] = [Idle EXCEPT !.pc = pc, !.ord = o]]
Goto(p, pc) == task' = [task EXCEPT ![p].pc = pc]
Rests(p) == Begun(p, "read", task[p].ord)

\* The end of a task: the finally block releases the fence the task holds.
End(p) == task' = [task EXCEPT ![p] = Idle] /\ fence' = Released(p)

Mine(p) == row[task[p].ord]

\* Mutant: a compare-and-set on dispatch and claimant alone.
FreshByClaim(p) ==
  Mine(p).dispatch = task[p].seen.dispatch /\ Mine(p).claimant = task[p].seen.claimant

Fresh(p) == Cas(Mine(p)) = task[p].seen

\* A patch that finds its row unchanged, and the memory of the row it returns.
Patch(p, new, pc) ==
  /\ row' = [row EXCEPT ![task[p].ord] = new]
  /\ task' = [task EXCEPT ![p].pc = pc, ![p].seen = Cas(new)]

Journal(o, state, tx) == jr' = [jr EXCEPT ![o] = [state |-> state, tx |-> tx]]
-----------------------------------------------------------------------------
(* executeAgenticTrade.                                                    *)

\* Entry checks, the fence, and no other obligation of the wallet.  The other
\* reasons to refuse here and in the claim (halts, pauses, holds, deadlines, a
\* revoked agent) only restrict: they are the choice between a step and Refuse.
StartExecute(p, o) ==
  /\ p \in Workers /\ At(p, "idle") /\ inst[p].retired # "exit"
  /\ row[o].dispatch = "absent"
  /\ o \in Buys => ~entriesStopped
  /\ ~OtherObligation(o)
  /\ Acquire(p) /\ Begun(p, "snapshot", o)
  /\ UNCHANGED <<db, world>>

\* The venue's list under a renewed fence: the rows the order is not.
Snapshot(p) ==
  /\ At(p, "snapshot") /\ Holds(p)
  /\ task' = [task EXCEPT ![p].pc = "begin", ![p].snap = {r \in VRows : venue[r].listed}]
  /\ UNCHANGED <<fence, db, world>>

\* Journal row and order row in one transaction, which does not look at the fence.
Begin(p) ==
  LET o == task[p].ord IN
  /\ At(p, "begin") /\ row[o].dispatch = "absent"
  /\ LET new == [Absent EXCEPT !.dispatch = "unclaimed", !.snap = task[p].snap]
     IN  /\ row' = [row EXCEPT ![o] = new]
         /\ task' = [task EXCEPT ![p].pc = "quote", ![p].seen = Cas(new), ![p].snap = {}]
  /\ Journal(o, "PENDING", None)
  /\ UNCHANGED <<fence, entriesStopped, world>>

\* Any denial before the rows exist, and the beginSwap of an existing decision.
Deny(p) ==
  /\ At(p, "snapshot") \/ At(p, "begin")
  /\ End(p)
  /\ UNCHANGED <<db, world>>

Quote(p) ==
  /\ At(p, "quote")
  /\ IF Fresh(p)
     THEN Patch(p, [Mine(p) EXCEPT !.quoted = TRUE], "claim") /\ UNCHANGED fence
     ELSE End(p) /\ UNCHANGED row
  /\ UNCHANGED <<jr, entriesStopped, world>>

\* Every refusal between the insert and the claim seals the row; so does a start
\* five seconds or more after the claim query began (spawn-late).
Refuse(p) ==
  /\ At(p, "quote") \/ At(p, "claim") \/ At(p, "launch")
  /\ Goto(p, "seal")
  /\ UNCHANGED <<fence, db, world>>

Seal(p) ==
  /\ At(p, "seal")
  /\ IF Fresh(p)
     THEN Patch(p, [Mine(p) EXCEPT !.dispatch = "sealed"], "terminalize") /\ UNCHANGED fence
     ELSE End(p) /\ UNCHANGED row
  /\ UNCHANGED <<jr, entriesStopped, world>>

\* The conditions of AGENTIC_CLAIM_SQL, one statement.
ClaimAllowed(p, o) ==
  /\ row[o].dispatch = "unclaimed" /\ row[o].outcome = "open" /\ row[o].quoted
  /\ inst[p].retired = None
  /\ Holds(p)
  /\ o \in Buys => ~entriesStopped
  /\ jr[o].state = "PENDING"
  /\ ~OtherObligation(o)

\* A claim whose answer is lost is this step followed by TaskFails.
Claim(p) ==
  LET o == task[p].ord IN
  /\ At(p, "claim") /\ ClaimAllowed(p, o)
  /\ Patch(p, [row[o] EXCEPT !.dispatch = "spawned", !.claimant = p], "launch")
  /\ UNCHANGED <<fence, jr, entriesStopped, world>>

Launch(p) ==
  /\ At(p, "launch") /\ Goto(p, "wait")
  /\ child' = [child EXCEPT ![task[p].ord] = "starting"]
  /\ UNCHANGED <<fence, db, inst, venue>>

\* A refused start is not-started; anything else is recorded as the response.
Record(p) ==
  LET answer == child[task[p].ord] IN
  /\ At(p, "wait") /\ answer \in Answers \cup {"refused"}
  /\ IF ~Fresh(p) THEN End(p) /\ UNCHANGED row
     ELSE /\ UNCHANGED fence
          /\ IF answer = "refused"
             THEN Patch(p, [Mine(p) EXCEPT !.dispatch = "not-started"], "terminalize")
             ELSE Patch(p, [Mine(p) EXCEPT !.response = answer,
                                           !.held = (answer = "no-response")], "mark")
  /\ UNCHANGED <<jr, entriesStopped, world>>

\* The journal follows the response; an answered order is then polled.
Mark(p) ==
  LET o == task[p].ord
      answer == task[p].seen.response
  IN  /\ At(p, "mark")
      /\ IF jr[o].state = "PENDING"
         THEN Journal(o, IF answer = "accepted" THEN "IN_PROGRESS" ELSE "UNKNOWN", None)
         ELSE UNCHANGED jr
      /\ IF answer = "no-response" THEN End(p) ELSE Rests(p) /\ UNCHANGED fence
      /\ UNCHANGED <<row, entriesStopped, world>>
-----------------------------------------------------------------------------
(* The child process and its guard (childGuard.cjs, baw.ts).               *)

\* The guard refuses a start past the deadline or without its parent.  That a
\* start before the deadline finds the claimant's lease alive is AgenticLease.
ChildRuns(o) ==
  /\ child[o] = "starting"
  /\ inst[row[o].claimant].alive /\ Holds(row[o].claimant)
  /\ child' = [child EXCEPT ![o] = "running"]
  /\ UNCHANGED <<fence, db, inst, task, venue>>

ChildRefuses(o) ==
  /\ child[o] = "starting" /\ child' = [child EXCEPT ![o] = "refused"]
  /\ UNCHANGED <<fence, db, inst, task, venue>>

ChildSends(o) ==
  /\ child[o] = "running" /\ venue[o].st = "none"
  /\ venue' = [venue EXCEPT ![o].st = "sent"]
  /\ UNCHANGED <<fence, db, inst, task, child>>

\* accepted carries an order id; rejected is ORDER_API_ERROR with an order id.
ChildAnswers(o) ==
  /\ child[o] = "running" /\ venue[o].st \notin {"none", "sent"}
  /\ child' = [child EXCEPT ![o] = IF venue[o].st = "refused" THEN "rejected" ELSE "accepted"]
  /\ UNCHANGED <<fence, db, inst, task, venue>>

\* Killed (time limit, dead parent) or answered with anything else.
ChildLost(o) ==
  /\ child[o] \in {"starting", "running"}
  /\ child' = [child EXCEPT ![o] = "no-response"]
  /\ UNCHANGED <<fence, db, inst, task, venue>>
-----------------------------------------------------------------------------
(* resolveAgenticOrder and terminalizeAgenticOrder.                        *)

\* Mutant: a cycle resolves the orders that were answered.
StartAnswered(p, o) ==
  /\ p \in Workers /\ At(p, "idle") /\ Obligation(o) /\ row[o].response # None
  /\ Acquire(p) /\ Begun(p, "read", o)
  /\ UNCHANGED <<db, world>>

StartResolve(p, o) ==
  /\ p \in Workers /\ At(p, "idle") /\ Obligation(o)
  /\ Acquire(p) /\ Begun(p, "read", o)
  /\ UNCHANGED <<db, world>>

\* Mutant: a pass that goes on under the name of its hold reason.
NextByHold(r, j) ==
  IF r.dispatch = "unclaimed" /\ ~r.quoted THEN "seal"
  ELSE IF r.dispatch \in {"sealed", "not-started"} THEN "terminalize"
  ELSE IF r.response = None THEN "no-response" ELSE "list"

\* Where a pass goes from the row and the journal it reads.
NextOf(r, j) ==
  IF r.dispatch = "unclaimed" /\ ~r.quoted THEN "seal"
  ELSE IF r.dispatch \in {"sealed", "not-started"}
    THEN IF r.outcome = "open" THEN "terminalize" ELSE "read"
  ELSE IF r.outcome = "rolled-back" THEN "read"
  ELSE IF j.state = "COMMITTED" THEN "recover"
  ELSE IF r.response \notin {"accepted", "rejected"} THEN "unanswered"
  ELSE IF r.held THEN "read"
  ELSE "list"

Read(p) ==
  LET o == task[p].ord
      pc == NextOf(row[o], jr[o])
  IN  /\ p \in Workers /\ At(p, "read") /\ pc # "read"
      /\ task' = [task EXCEPT ![p].pc = pc, ![p].seen = Cas(row[o])]
      /\ UNCHANGED <<fence, db, world>>

\* Between passes: the executor's poll and the worker's next pass read again.
Leave(p) ==
  /\ At(p, "read") /\ End(p)
  /\ UNCHANGED <<db, world>>

\* A patch of the hold reason alone; a lost race changes nothing.
Hold(p, verdict) ==
  /\ row' = IF Fresh(p) THEN [row EXCEPT ![task[p].ord].held = verdict] ELSE row
  /\ Rests(p)
  /\ UNCHANGED <<fence, jr, entriesStopped, world>>
Pass(p) == Rests(p) /\ UNCHANGED <<fence, db, world>>

Unanswered(p) == At(p, "unanswered") /\ Hold(p, TRUE)

\* Journal reads and writes of the resolver are one step each: a write that
\* races another is refused by the transition table, which is TaskFails.
RollBackOnlyKnown(p, pc) ==   \* Mutant: an UNKNOWN journal row stays as it is
  /\ IF jr[task[p].ord].state = "UNKNOWN" THEN UNCHANGED jr
     ELSE Journal(task[p].ord, "ROLLED_BACK", None)
  /\ Goto(p, pc)
  /\ UNCHANGED <<fence, row, entriesStopped, world>>

RollBackJournal(p, pc) ==
  /\ Journal(task[p].ord, "ROLLED_BACK", None) /\ Goto(p, pc)
  /\ UNCHANGED <<fence, row, entriesStopped, world>>

Terminalize(p) ==
  /\ At(p, "terminalize")
  /\ IF jr[task[p].ord].state = "COMMITTED" THEN Hold(p, TRUE)
     ELSE RollBackJournal(p, "rollback")

Rollback(p) ==
  /\ At(p, "rollback")
  /\ row' = IF Fresh(p) THEN [row EXCEPT ![task[p].ord].outcome = "rolled-back"] ELSE row
  /\ Rests(p)
  /\ UNCHANGED <<fence, jr, entriesStopped, world>>

\* Mutant: a receipt verifies whatever its input.
VerifiesAnyInput(o, tx, partial) == venue[tx].st = "finished"

\* verifyAgenticSwap: a landed swap of the wallet between the order's tokens, of
\* exactly the order's input (for a partial disposition, at most that).  Orders
\* of one side have the same amount; the owner's rows have others.
Verifies(o, tx, partial) ==
  /\ tx \in Orders /\ (tx \in Buys <=> o \in Buys)
  /\ venue[tx].st = "finished"
  /\ venue[tx].fill = "partial" => partial

\* Mutant: the entries stop only where the fill check is written as ok.
BreachedSell(o, tx) == o \notin Buys /\ venue[tx].fill = "below"

\* completeFill: the row and, on a breached buy, the wallet, in one transaction.
Breached(o, tx) == o \in Buys /\ venue[tx].fill = "below"

CompleteFill(p) ==
  LET o == task[p].ord
      won == /\ Cas(row[o]) = [task[p].seen EXCEPT !.response = row[o].response]
             /\ ~TxTaken(o, task[p].pick)
  IN  /\ At(p, "fill")
      /\ row' = IF won THEN [row EXCEPT ![o].outcome = "committed",
                                        ![o].tx = task[p].pick, ![o].held = FALSE]
                ELSE row
      /\ entriesStopped' = (entriesStopped \/ (won /\ Breached(o, task[p].pick)))
      /\ Rests(p)
      /\ UNCHANGED <<fence, jr, world>>

\* The journal is committed but the row is not: repaired from the journal's
\* hash, unless the answer was never recorded or the receipt does not verify.
Recover(p) ==
  LET o == task[p].ord
      tx == IF row[o].tx # None THEN row[o].tx ELSE jr[o].tx
      open == task[p].seen.outcome = "open"
      answered == task[p].seen.response \in {"accepted", "rejected"}
  IN  /\ At(p, "recover")
      /\ \/ TxTaken(o, tx) /\ Hold(p, TRUE)
         \/ ~TxTaken(o, tx) /\ open /\ ~answered /\ Hold(p, TRUE)
         \/ /\ ~TxTaken(o, tx) /\ open /\ answered /\ Verifies(o, tx, FALSE)
            /\ task' = [task EXCEPT ![p].pc = "fill", ![p].pick = tx]
            /\ UNCHANGED <<fence, db, world>>
         \/ ~TxTaken(o, tx) /\ (open => answered) /\ Pass(p)

\* Mutant: the rows that were there before the order count.
CandidatesAnyAge(o) ==
  {r \in VRows : venue[r].listed /\ \A x \in Orders \ {o} : row[x].listed # r}

Candidates(o) ==
  {r \in VRows : venue[r].listed /\ r \notin row[o].snap
                 /\ \A x \in Orders \ {o} : row[x].listed # r}

\* A single new row is bound at once; its status says where the pass goes on.
Bind(p, m) ==
  /\ Fresh(p) /\ Candidates(task[p].ord) = {m}
  /\ row' = [row EXCEPT ![task[p].ord].listed = m, ![task[p].ord].held = FALSE]
  /\ \/ venue[m].st = "pending" /\ Rests(p)
     \/ /\ venue[m].st # "pending"
        /\ task' = [task EXCEPT ![p].pick = m, ![p].pc =
                      IF venue[m].st = "finished" THEN "finished" ELSE "failed"]
  /\ UNCHANGED <<fence, jr, entriesStopped, world>>

\* The venue's list under a renewed fence, or no answer from it.  No new row is
\* nothing yet, or after 30 minutes a hold that only waits.
ListRows(p) ==
  /\ At(p, "list")
  /\ \/ Pass(p)
     \/ Holds(p) /\ Candidates(task[p].ord) = {} /\ Hold(p, FALSE)
     \/ Holds(p) /\ Cardinality(Candidates(task[p].ord)) > 1 /\ Hold(p, TRUE)
     \/ Holds(p) /\ \E m \in VRows : Bind(p, m)

\* A journal write the transition table refuses throws: the pass ends.
Throws(p) == End(p) /\ UNCHANGED <<db, world>>

\* A journal row that is already committed keeps its hash.
CommitJournal(p, tx) ==
  /\ IF jr[task[p].ord].state = "COMMITTED" THEN UNCHANGED jr
     ELSE Journal(task[p].ord, "COMMITTED", tx)
  /\ task' = [task EXCEPT ![p].pc = "fill", ![p].pick = tx]
  /\ UNCHANGED <<fence, row, entriesStopped, world>>

\* The listed row finished: one receipt read decides, once it can be read.
Finished(p) ==
  LET o == task[p].ord
      m == task[p].pick
  IN  /\ At(p, "finished")
      /\ \/ TxTaken(o, m) /\ Hold(p, TRUE)
         \/ ~TxTaken(o, m) /\ (Pass(p) \/ Hold(p, FALSE))
         \/ ~TxTaken(o, m) /\ ~Verifies(o, m, FALSE) /\ Hold(p, TRUE)
         \/ /\ ~TxTaken(o, m) /\ Verifies(o, m, FALSE)
            /\ IF jr[o].state = "ROLLED_BACK" THEN Throws(p) ELSE CommitJournal(p, m)

\* The listed row failed: rolled back on a rejected order without a hash or on
\* a landed and reverted transaction, held otherwise.
FailedRow(p) ==
  LET o == task[p].ord
      st == venue[task[p].pick].st
      rejected == task[p].seen.response = "rejected"
  IN  /\ At(p, "failed")
      /\ \/ st = "refused" /\ ~rejected /\ Hold(p, TRUE)
         \/ st = "reverted" /\ (Pass(p) \/ Hold(p, FALSE))
         \/ /\ st = "reverted" \/ rejected
            /\ IF jr[o].state = "COMMITTED" THEN Throws(p) ELSE RollBackJournal(p, "rollback")
-----------------------------------------------------------------------------
(* The operator's dispose command (scripts/agentic-gate.ts).               *)

\* The order is read first, the fence is taken after.
DisposeRead(p, o) ==
  /\ p \in Gates /\ At(p, "idle") /\ Obligation(o)
  /\ task' = [task EXCEPT ![p] = [Idle EXCEPT !.pc = "d-fence", !.ord = o,
                                              !.seen = Cas(row[o])]]
  /\ UNCHANGED <<fence, db, world>>

DisposeFence(p) ==
  /\ At(p, "d-fence") /\ Acquire(p)
  /\ Goto(p, "d-quiet")
  /\ UNCHANGED <<db, world>>

\* Mutant: retiring the claimant is enough.
QuiescentOnceRetired(c) == inst[c].retired # None

\* A spawned order with no response: its claimant is retired, and must be known
\* to have exited or its deployment or host to have stopped.
Quiescent(c) == inst[c].retired = "exit" \/ inst[c].stopped

DisposeQuiet(p) ==
  LET c == task[p].seen.claimant
      unanswered == task[p].seen.dispatch = "spawned" /\ task[p].seen.response = None
  IN  /\ At(p, "d-quiet")
      /\ inst' = IF unanswered /\ inst[c].retired = None
                 THEN [inst EXCEPT ![c].retired = "dispose"] ELSE inst
      /\ IF unanswered => Quiescent(c) THEN Goto(p, "d-seal") /\ UNCHANGED fence
         ELSE End(p)
      /\ UNCHANGED <<db, child, venue>>

DisposeSeal(p) ==
  /\ At(p, "d-seal")
  /\ IF task[p].seen.dispatch # "unclaimed"
     THEN Goto(p, "d-branch") /\ UNCHANGED <<fence, row>>
     ELSE IF Fresh(p)
       THEN Patch(p, [Mine(p) EXCEPT !.dispatch = "sealed"], "d-branch") /\ UNCHANGED fence
       ELSE End(p) /\ UNCHANGED row
  /\ UNCHANGED <<jr, entriesStopped, world>>

\* The operator attests what the venue shows: a rollback only of an order the
\* venue never got or lists as ended without a trade, a commit only of the
\* order's own transaction.
Untraded(o) == venue[o].st \in {"none", "refused", "reverted"}
Attested(o) == Untraded(o) /\ (venue[o].st # "none" => venue[o].listed)

DisposeRollback(p) ==
  /\ At(p, "d-branch") /\ Attested(task[p].ord)
  /\ IF jr[task[p].ord].state = "COMMITTED" THEN Throws(p)
     ELSE RollBackJournal(p, "d-patch")

DisposePatch(p) ==
  /\ At(p, "d-patch")
  /\ row' = IF Fresh(p) THEN [row EXCEPT ![task[p].ord].outcome = "rolled-back",
                                         ![task[p].ord].held = FALSE] ELSE row
  /\ Rests(p)
  /\ UNCHANGED <<fence, jr, entriesStopped, world>>

DisposeCommit(p) ==
  LET o == task[p].ord IN
  /\ At(p, "d-branch") /\ Verifies(o, o, o \notin Buys)
  /\ IF \/ jr[o].state = "ROLLED_BACK" \/ TxTaken(o, o)
        \/ jr[o].state = "COMMITTED" /\ jr[o].tx # o
     THEN Throws(p)
     ELSE CommitJournal(p, o)
-----------------------------------------------------------------------------
(* Processes (instances.ts), the fence's lease, the quote's age, the venue. *)

\* A lease outlives every child of its holder: AgenticLease.
FenceLapses ==
  /\ fence.valid
  /\ \A o \in Orders : child[o] = "running" => row[o].claimant # fence.holder
  /\ fence' = [fence EXCEPT !.valid = FALSE]
  /\ UNCHANGED <<db, task, world>>

\* An exception ends a task anywhere but in the wait for its child.
TaskFails(p) ==
  /\ inst[p].alive /\ task[p].pc # "idle"
  /\ task[p].pc = "wait" => child[task[p].ord] \notin {"starting", "running"}
  /\ End(p)
  /\ UNCHANGED <<db, world>>

\* close(): the lane is done and no dispatch is in flight.
GracefulExit(p) ==
  /\ p \in Mortal /\ At(p, "idle")
  /\ inst' = [inst EXCEPT ![p].alive = FALSE, ![p].retired = "exit"]
  /\ UNCHANGED <<fence, db, task, child, venue>>

Dies(p) == /\ inst' = [inst EXCEPT ![p].alive = FALSE]
           /\ task' = [task EXCEPT ![p] = Idle]
           /\ UNCHANGED <<fence, db, venue>>

Crash(p) == p \in Mortal /\ inst[p].alive /\ Dies(p) /\ UNCHANGED child

Killed(p) == [o \in Orders |-> IF row[o].claimant = p /\ child[o] \in {"starting", "running"}
                               THEN "no-response" ELSE child[o]]

\* The heartbeat of a retired instance kills its children and exits.
HeartbeatRefused(p) ==
  /\ inst[p].alive /\ inst[p].retired # None
  /\ Dies(p) /\ child' = Killed(p)

\* The deployment of a dead process is removed, or its host reboots.
HostStops(p) ==
  /\ ~inst[p].alive /\ ~inst[p].stopped
  /\ inst' = [inst EXCEPT ![p].stopped = TRUE]
  /\ child' = Killed(p)
  /\ UNCHANGED <<fence, db, task, venue>>

QuoteExpires(o) ==
  /\ row[o].quoted /\ row[o].dispatch = "unclaimed"
  /\ row' = [row EXCEPT ![o].quoted = FALSE]
  /\ UNCHANGED <<fence, jr, entriesStopped, task, world>>

VenuePlaces(r) ==
  /\ venue[r].st = IF r \in OwnerRows THEN "none" ELSE "sent"
  /\ venue' = [venue EXCEPT ![r].st = "pending"]
  /\ UNCHANGED <<fence, db, inst, task, child>>

Ends(r) == IF r \in OwnerRows THEN OwnerEnds ELSE {"finished", "refused", "reverted"}
Fills(r) == IF r \in OwnerRows THEN {"ok"}
            ELSE IF r \in Buys THEN {"ok", "below"} ELSE {"ok", "partial"}

VenueSettles(r) ==
  /\ venue[r].st = "pending"
  /\ \E st \in Ends(r), fill \in Fills(r) :
       /\ st # "finished" => fill = "ok"
       /\ venue' = [venue EXCEPT ![r].st = st, ![r].fill = fill]
  /\ UNCHANGED <<fence, db, inst, task, child>>

\* A placed row appears in the list some time after it was placed.
VenueLists(r) ==
  /\ venue[r].st \notin {"none", "sent"} /\ ~venue[r].listed
  /\ venue' = [venue EXCEPT ![r].listed = TRUE]
  /\ UNCHANGED <<fence, db, inst, task, child>>
-----------------------------------------------------------------------------
Init ==
  /\ fence = [holder |-> None, valid |-> FALSE]
  /\ row = [o \in Orders |-> Absent]
  /\ jr = [o \in Orders |-> [state |-> "none", tx |-> None]]
  /\ entriesStopped = FALSE
  /\ inst = [p \in Procs |-> [alive |-> TRUE, retired |-> None, stopped |-> FALSE]]
  /\ task = [p \in Procs |-> Idle]
  /\ child = [o \in Orders |-> "none"]
  /\ venue = [r \in VRows |-> [st |-> "none", listed |-> FALSE, fill |-> "ok"]]

Execute(p) ==
  \/ \E o \in Orders : StartExecute(p, o)
  \/ Snapshot(p) \/ Begin(p) \/ Deny(p) \/ Quote(p) \/ Refuse(p) \/ Seal(p)
  \/ Claim(p) \/ Launch(p) \/ Record(p) \/ Mark(p)

Resolve(p) ==
  \/ \E o \in Orders : StartResolve(p, o)
  \/ Read(p) \/ Leave(p) \/ Unanswered(p) \/ Terminalize(p) \/ Rollback(p)
  \/ CompleteFill(p) \/ Recover(p) \/ ListRows(p) \/ Finished(p) \/ FailedRow(p)

Dispose(p) ==
  \/ \E o \in Orders : DisposeRead(p, o)
  \/ DisposeFence(p) \/ DisposeQuiet(p) \/ DisposeSeal(p)
  \/ DisposeRollback(p) \/ DisposePatch(p) \/ DisposeCommit(p)

Process(p) ==
  TaskFails(p) \/ GracefulExit(p) \/ Crash(p) \/ HeartbeatRefused(p) \/ HostStops(p)

Child(o) ==
  ChildRuns(o) \/ ChildRefuses(o) \/ ChildSends(o) \/ ChildAnswers(o) \/ ChildLost(o)

Venue(r) == VenuePlaces(r) \/ VenueSettles(r) \/ VenueLists(r)

Next ==
  \/ \E p \in Procs : Execute(p) \/ Resolve(p) \/ Dispose(p) \/ Process(p)
  \/ \E o \in Orders : Child(o) \/ QuoteExpires(o)
  \/ \E r \in VRows : Venue(r)
  \/ FenceLapses

Spec == Init /\ [][Next]_vars

(* Fairness.  The venue and the chain answer in the end, a child is killed by  *)
(* its time limit, a lease and a quote run out.  A worker that never dies      *)
(* keeps cycling over the open orders; its steps may fail again and again, and *)
(* one that is retried for ever succeeds once, within its lease.               *)
ReadsInLease(p) == Read(p) /\ Holds(p)
ListAnswers(p) == ListRows(p) /\ task'[p].pc \in {"finished", "failed"}
Judges(p) == Resolve(p) /\ task'[p].pc \in {"fill", "rollback"}
Books(p) == (Seal(p) \/ Resolve(p)) /\ row' # row

FairSpec ==
  /\ Spec
  /\ WF_vars(FenceLapses)
  /\ \A o \in Orders : WF_vars(ChildLost(o)) /\ WF_vars(QuoteExpires(o))
  /\ \A r \in VRows : WF_vars(Venue(r))
  /\ \A p \in Workers \ Mortal :
       /\ WF_vars(Execute(p) \/ Resolve(p))
       /\ \A o \in Orders : SF_vars(StartResolve(p, o))
       /\ SF_vars(Leave(p)) /\ SF_vars(ReadsInLease(p)) /\ SF_vars(ListAnswers(p))
       /\ SF_vars(Judges(p)) /\ SF_vars(Books(p))
-----------------------------------------------------------------------------
(* Properties.                                                             *)

Pcs == {"idle", "snapshot", "begin", "quote", "claim", "launch", "wait", "mark",
  "seal", "read", "unanswered", "terminalize", "rollback", "recover", "list",
  "finished", "failed", "fill", "d-fence", "d-quiet", "d-seal", "d-branch", "d-patch"}

Dispatches == {"absent", "unclaimed", "spawned", "sealed", "not-started"}
Outcomes == {"open", "committed", "rolled-back"}

FenceType == [holder : Procs \cup {None}, valid : BOOLEAN]
CasType == [dispatch : Dispatches, claimant : Workers \cup {None}, outcome : Outcomes,
            response : Answers \cup {None}]
RowType == [dispatch : Dispatches, claimant : Workers \cup {None}, outcome : Outcomes,
            response : Answers \cup {None}, quoted : BOOLEAN, snap : SUBSET VRows,
            listed : VRows \cup {None}, tx : VRows \cup {None}, held : BOOLEAN]
JournalType == [state : {"none", "PENDING", "IN_PROGRESS", "UNKNOWN", "COMMITTED", "ROLLED_BACK"},
                tx : VRows \cup {None}]
InstType == [alive : BOOLEAN, retired : {None, "exit", "dispose"}, stopped : BOOLEAN]
TaskType == [pc : Pcs, ord : Orders \cup {None}, seen : CasType, pick : VRows \cup {None},
             snap : SUBSET VRows]
ChildType == Answers \cup {"none", "starting", "running", "refused"}
VenueType == [st : {"none", "sent", "pending", "finished", "refused", "reverted"},
              listed : BOOLEAN, fill : {"ok", "below", "partial"}]

\* Every variable keeps the shape its table, process or venue row has.
TypeOK ==
  /\ fence \in FenceType /\ entriesStopped \in BOOLEAN
  /\ row \in [Orders -> RowType] /\ jr \in [Orders -> JournalType]
  /\ inst \in [Procs -> InstType] /\ task \in [Procs -> TaskType]
  /\ child \in [Orders -> ChildType] /\ venue \in [VRows -> VenueType]

\* The part of a task every step relies on: a busy process is alive and works on an
\* order, and what only workers do is done by workers.
GatePcs == {"idle", "d-fence", "d-quiet", "d-seal", "d-branch", "d-patch", "fill", "read"}

TaskInv ==
  \A p \in Procs :
    /\ task[p].pc # "idle" => task[p].ord \in Orders /\ inst[p].alive
    /\ task[p].pc \notin GatePcs => p \in Workers

Live(o) == row[o].dispatch = "spawned" /\ row[o].outcome = "open"
LiveChild(o) == child[o] \in {"starting", "running"}

\* At most one order of the wallet is claimed and undecided, and a child process
\* that may still trade belongs to it: the claim statement, the obligation
\* checks, the fence and the quiescence rule of dispose together.
OneLiveDispatch ==
  /\ \A x, y \in Orders : Live(x) /\ Live(y) => x = y
  /\ \A o \in Orders : LiveChild(o) => Live(o)

\* The invariant that makes OneLiveDispatch inductive.  A dead order is past its
\* claim, has no child that may trade, and nobody is about to start one; every
\* step that closes or decides an order works on a dead one.
Closed(o) == row[o].dispatch \in {"sealed", "not-started"}
Out(o) == row[o].dispatch \notin {"absent", "unclaimed"}
Launching(p, o) == task[p].pc = "launch" /\ task[p].ord = o
Dead(o) == Out(o) /\ ~LiveChild(o) /\ \A p \in Procs : ~Launching(p, o)

\* The child of an undecided claimed order is awaited by its claimant, unless that is
\* dead, and then it is not yet known to be quiescent.
OrderInv(o) ==
  /\ ~Out(o) => child[o] = "none"
  /\ row[o].response # None \/ row[o].outcome # "open" \/ Closed(o) => Dead(o)
  /\ LiveChild(o) =>
       /\ Live(o) /\ row[o].claimant \in Procs /\ ~Quiescent(row[o].claimant)
       /\ inst[row[o].claimant].alive
            => task[row[o].claimant].pc = "wait" /\ task[row[o].claimant].ord = o

\* What a task remembers of its order is still true of it where it matters.
MemoryInv(p) ==
  LET o == task[p].ord
      seen == task[p].seen
  IN  /\ seen.response # None => row[o].response # None
      /\ seen.dispatch = "spawned" => Out(o) /\ row[o].claimant = seen.claimant
      /\ seen.dispatch \in {"sealed", "not-started"} => Closed(o)

StepInv(p) ==
  LET o == task[p].ord
      seen == task[p].seen
      pc == task[p].pc
  IN  /\ pc = "launch" => Live(o) /\ row[o].claimant = p /\ child[o] = "none"
      /\ pc = "wait" => Out(o) /\ row[o].claimant = p
      /\ pc \in {"terminalize", "rollback", "fill", "d-branch", "d-patch"} => Dead(o)
      /\ pc \in {"list", "finished", "failed"} => seen.response # None
      /\ pc \in {"quote", "claim"} => seen.dispatch = "unclaimed"
      /\ pc = "seal" /\ seen.dispatch = "spawned" => Dead(o)
      /\ pc = "d-seal" /\ seen.dispatch # "unclaimed" => Dead(o)
      /\ pc \in {"d-fence", "d-quiet", "d-seal"} => seen.dispatch # "absent"

DispatchInv ==
  /\ \A o \in Orders : OrderInv(o)
  /\ \A p \in Procs : task[p].pc # "idle" => MemoryInv(p) /\ StepInv(p)
  /\ \A p \in Procs : Quiescent(p) => ~inst[p].alive
  /\ \A x, y \in Orders : Live(x) /\ Live(y) => x = y

\* An order whose row or journal says ROLLED_BACK did not trade, is not on its
\* way to the venue and has no child that could still send it.
RolledBackNeverTraded ==
  \A o \in Orders :
    row[o].outcome = "rolled-back" \/ jr[o].state = "ROLLED_BACK"
      => Untraded(o) /\ ~LiveChild(o)

\* A committed order is bound to its own landed swap, never to a row the owner
\* made by hand: the snapshot, the candidate rule and the receipt's exact input.
CommittedIsOwnSwap ==
  \A o \in Orders :
    /\ row[o].outcome = "committed" => row[o].tx = o
    /\ jr[o].state = "COMMITTED" => jr[o].tx = o /\ venue[o].st = "finished"

\* The order row never runs ahead of the execution journal: whatever crash comes
\* between the two writes, a decided row has the journal's decision and hash.
JournalAgreement ==
  \A o \in Orders :
    /\ row[o].outcome = "committed" => jr[o].state = "COMMITTED" /\ jr[o].tx = row[o].tx
    /\ row[o].outcome = "rolled-back" => jr[o].state = "ROLLED_BACK"
    /\ row[o].dispatch = "absent" <=> jr[o].state = "none"

\* After a buy that filled below its minimum, no further buy is claimed, by
\* whatever process and whatever it read before.
NoBuyAfterBreach ==
  [][\A o \in Buys :
       row[o].dispatch = "unclaimed" /\ row'[o].dispatch = "spawned"
         => \A x \in Orders : row[x].outcome = "committed" => venue[row[x].tx].fill # "below"]_vars

\* A decision is final: no late answer, late pass or operator changes a decided
\* row, or a journal row that is COMMITTED or ROLLED_BACK.
DecidedIsFinal ==
  [][\A o \in Orders :
       /\ row[o].outcome # "open" => row'[o] = row[o]
       /\ jr[o].state \in {"COMMITTED", "ROLLED_BACK"} => jr'[o] = jr[o]]_vars

\* No order stays open in silence: in the end it is decided, or held for the
\* operator, whichever process began it and wherever that process died.
OrderSettles ==
  \A o \in Orders :
    row[o].dispatch # "absent" ~> (row[o].outcome # "open" \/ row[o].held)

\* The abstract ledger this protocol implements.
Phase(o) ==
  IF row[o].outcome # "open" THEN row[o].outcome
  ELSE CASE row[o].dispatch = "unclaimed" -> "open"
         [] row[o].dispatch = "spawned" -> "dispatched"
         [] row[o].dispatch \in {"sealed", "not-started"} -> "closed"
         [] OTHER -> "absent"

Ledger == INSTANCE AgenticSwapLedger WITH
  phase <- [o \in Orders |-> Phase(o)],
  traded <- {o \in Orders : venue[o].st = "finished"}

\* Every behaviour of the protocol is a behaviour of the ledger: one decision out
\* at a time, executed at most once, and booked as what happened to it.
ImplementsLedger == Ledger!Spec

\* Its steps are the ledger's steps from any state it reaches: a late listing, an
\* operator's rollback and the wallet's next order never cross.
LedgerSteps == Ledger!Steps
=============================================================================
