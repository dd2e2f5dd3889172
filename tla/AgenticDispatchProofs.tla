------------------------ MODULE AgenticDispatchProofs ------------------------
(***************************************************************************)
(* Proofs about AgenticDispatch, for every set of orders, workers,         *)
(* operators and owner rows.  First what the small operators and the steps *)
(* do to the state (Effect: one task moves, and at most the compared       *)
(* columns of its order's row), from which the types follow; then that     *)
(* every step keeps DispatchInv.  All but two steps are Calm: rows only    *)
(* move on, children only stop, tasks arrive where they are allowed to be. *)
(* The claim and the launch, which make an order live, are treated apart.  *)
(***************************************************************************)
EXTENDS AgenticDispatch, TLAPS

-----------------------------------------------------------------------------
(* What the small operators do.                                            *)

\* One task changes: its step, its order, its memory.
Moves(p, pc, o, seen) ==
  /\ task' \in [Procs -> TaskType]
  /\ task'[p].pc = pc /\ task'[p].ord = o /\ task'[p].seen = seen
  /\ \A q \in Procs \ {p} : task'[q] = task[q]

\* A row has the four columns the compare-and-set looks at.
LEMMA RowTyped ==
  ASSUME TypeOK, NEW o \in Orders
  PROVE  row[o] \in RowType /\ Cas(row[o]) \in CasType
BY DEF TypeOK, Cas, RowType, CasType

\* The idle task is a task.
LEMMA IdleTyped == Idle \in TaskType
BY DispatchAssumption DEF Idle, TaskType, Cas, Absent, CasType, Pcs, Dispatches, Outcomes

\* Goto changes the step alone.
LEMMA GotoMoves ==
  ASSUME TypeOK, NEW p \in Procs, NEW pc \in Pcs, Goto(p, pc)
  PROVE  Moves(p, pc, task[p].ord, task[p].seen)
BY DEF TypeOK, Goto, TaskType, Moves

\* Begun forgets what the task knew.
LEMMA BegunMoves ==
  ASSUME TypeOK, NEW p \in Procs, NEW pc \in Pcs, NEW o \in Orders, Begun(p, pc, o)
  PROVE  Moves(p, pc, o, Cas(Absent))
<1>1. [Idle EXCEPT !.pc = pc, !.ord = o] \in TaskType
  BY IdleTyped DEF TaskType
<1> QED
  BY <1>1 DEF TypeOK, Begun, Moves, Idle

\* A task is written as a whole.
LEMMA WholeMoves ==
  ASSUME TypeOK, NEW p \in Procs, NEW new \in TaskType, task' = [task EXCEPT ![p] = new]
  PROVE  Moves(p, new.pc, new.ord, new.seen)
BY DEF TypeOK, Moves

\* End leaves the task idle and a fence.
LEMMA EndMoves ==
  ASSUME TypeOK, NEW p \in Procs, End(p)
  PROVE  Moves(p, "idle", None, Cas(Absent)) /\ fence' \in FenceType
BY IdleTyped DEF TypeOK, End, Released, FenceType, Moves, Idle

\* Patch writes the row and remembers what it wrote.
LEMMA PatchMoves ==
  ASSUME TypeOK, NEW p \in Procs, NEW pc \in Pcs, NEW new \in RowType,
         task[p].ord \in Orders, Patch(p, new, pc)
  PROVE  /\ Moves(p, pc, task[p].ord, Cas(new))
         /\ row' \in [Orders -> RowType] /\ row'[task[p].ord] = new
         /\ \A x \in Orders \ {task[p].ord} : row'[x] = row[x]
<1>1. Cas(new) \in CasType
  BY DEF Cas, RowType, CasType
<1> QED
  BY <1>1 DEF TypeOK, Patch, TaskType, Moves

\* Journal writes one journal row.
LEMMA JournalTyped ==
  ASSUME TypeOK, NEW o \in Orders, NEW tx \in VRows \cup {None},
         NEW s \in {"PENDING", "IN_PROGRESS", "UNKNOWN", "COMMITTED", "ROLLED_BACK"},
         Journal(o, s, tx)
  PROVE  jr' \in [Orders -> JournalType]
BY DEF TypeOK, Journal, JournalType

\* A write of the columns no compare-and-set looks at.
LEMMA WriteKeeps ==
  ASSUME TypeOK, NEW o \in Orders, NEW new \in RowType, Cas(new) = Cas(row[o]),
         row' = [row EXCEPT ![o] = new]
  PROVE  row' \in [Orders -> RowType] /\ \A x \in Orders : Cas(row'[x]) = Cas(row[x])
BY DEF TypeOK

LEMMA HeldRow ==
  ASSUME NEW r \in RowType, NEW v \in BOOLEAN
  PROVE  [r EXCEPT !.held = v] \in RowType /\ Cas([r EXCEPT !.held = v]) = Cas(r)
BY DEF RowType, Cas

-----------------------------------------------------------------------------
(* What the steps do: the task that moves and the compared columns.        *)

\* A step that moves one task and leaves the instances and the children alone.
Effect(p, pc, o, seen) ==
  TypeOK' /\ Moves(p, pc, o, seen) /\ UNCHANGED <<inst, child>>

Ended(p) == Effect(p, "idle", None, Cas(Absent))
Forgets(p, pc) == Effect(p, pc, task[p].ord, Cas(Absent))
Remembers(p, pc) == Effect(p, pc, task[p].ord, task[p].seen)

RowsKeep == \A x \in Orders : Cas(row'[x]) = Cas(row[x])

\* The one row a step writes, by a compare-and-set that succeeds.
Writes(p, c) ==
  /\ Cas(row'[task[p].ord]) = c
  /\ \A x \in Orders \ {task[p].ord} : Cas(row'[x]) = Cas(row[x])

\* The places a busy task can be in.
Busy(p) == task[p].pc # "idle" /\ task[p].ord \in Orders /\ inst[p].alive

LEMMA AtBusy ==
  ASSUME TaskInv, NEW p \in Procs, NEW pc, At(p, pc)
  PROVE  /\ inst[p].alive /\ task[p].pc = pc
         /\ pc # "idle" => Busy(p)
         /\ pc \notin GatePcs => p \in Workers
BY DEF TaskInv, At, Busy

\* A task that moves is well placed: alive if busy, a worker's if a worker's step.
LEMMA EffectTaskInv ==
  ASSUME TypeOK, TaskInv, NEW p \in Procs, NEW pc, NEW o, NEW seen,
         Effect(p, pc, o, seen), pc # "idle" => o \in Orders /\ inst[p].alive,
         pc \notin GatePcs => p \in Workers
  PROVE  TaskInv'
BY DEF TaskInv, Moves, Effect

\* A hold of the order's row, a pass that changes nothing, a refused write.
LEMMA HoldEffect ==
  ASSUME TypeOK, NEW p \in Procs, Busy(p), NEW v \in BOOLEAN, Hold(p, v)
  PROVE  Forgets(p, "read") /\ RowsKeep
<1>1. Moves(p, "read", task[p].ord, Cas(Absent))
  BY BegunMoves DEF Hold, Rests, Pcs, Busy
<1>2. row' \in [Orders -> RowType] /\ RowsKeep
  BY WriteKeeps, HeldRow DEF Hold, TypeOK, RowsKeep, Busy
<1> QED
  BY <1>1, <1>2 DEF Hold, TypeOK, Moves, Forgets, Effect, world

LEMMA PassEffect ==
  ASSUME TypeOK, NEW p \in Procs, Busy(p), Pass(p)
  PROVE  Forgets(p, "read") /\ RowsKeep
<1>1. Moves(p, "read", task[p].ord, Cas(Absent))
  BY BegunMoves DEF Pass, Rests, Pcs, Busy
<1> QED
  BY <1>1 DEF Pass, TypeOK, Moves, Forgets, Effect, db, world, RowsKeep

LEMMA EndEffect ==
  ASSUME TypeOK, NEW p \in Procs, End(p), UNCHANGED <<row, entriesStopped, world>>,
         jr' \in [Orders -> JournalType]
  PROVE  Ended(p) /\ RowsKeep
BY EndMoves DEF TypeOK, Moves, Ended, Effect, world, RowsKeep

LEMMA ThrowsEffect ==
  ASSUME TypeOK, NEW p \in Procs, Throws(p)
  PROVE  Ended(p) /\ RowsKeep
<1>1. jr' \in [Orders -> JournalType]
  BY DEF Throws, TypeOK, db
<1> QED
  BY <1>1, EndEffect DEF Throws, db

\* A step that only goes on, whatever it does to the journal.
LEMMA GotoEffect ==
  ASSUME TypeOK, NEW p \in Procs, NEW pc \in Pcs, Goto(p, pc),
         jr' \in [Orders -> JournalType], UNCHANGED <<fence, row, entriesStopped, world>>
  PROVE  Remembers(p, pc) /\ RowsKeep
BY GotoMoves DEF TypeOK, Moves, Remembers, Effect, world, RowsKeep

\* The journal writes that decide.
LEMMA RollBackEffect ==
  ASSUME TypeOK, NEW p \in Procs, Busy(p), NEW pc \in Pcs, RollBackJournal(p, pc)
  PROVE  Remembers(p, pc) /\ RowsKeep
<1>1. jr' \in [Orders -> JournalType]
  BY JournalTyped DEF RollBackJournal, Busy
<1> QED
  BY <1>1, GotoEffect DEF RollBackJournal

LEMMA CommitEffect ==
  ASSUME TypeOK, NEW p \in Procs, Busy(p), NEW tx \in VRows \cup {None}, CommitJournal(p, tx)
  PROVE  Remembers(p, "fill") /\ RowsKeep
<1> DEFINE new == [task[p] EXCEPT !.pc = "fill", !.pick = tx]
<1>0. /\ new \in TaskType /\ new.pc = "fill"
      /\ new.ord = task[p].ord /\ new.seen = task[p].seen
  <2>1. task[p] \in TaskType /\ "fill" \in Pcs
    BY DEF TypeOK, Pcs
  <2> QED
    BY <2>1 DEF TaskType
<1>1. Moves(p, "fill", task[p].ord, task[p].seen)
  <2>1. task' = [task EXCEPT ![p] = new]
    BY DEF CommitJournal
  <2> HIDE DEF new
  <2> QED
    BY <1>0, <2>1, WholeMoves
<1>2. jr' \in [Orders -> JournalType]
  BY JournalTyped DEF CommitJournal, TypeOK, Busy
<1> QED
  BY <1>1, <1>2 DEF CommitJournal, TypeOK, Moves, Remembers, Effect, world, RowsKeep

\* A patch: the row it writes is the row it remembers.
LEMMA PatchEffect ==
  ASSUME TypeOK, NEW p \in Procs, Busy(p), NEW pc \in Pcs, NEW new \in RowType,
         Patch(p, new, pc), UNCHANGED <<fence, jr, entriesStopped, world>>
  PROVE  Effect(p, pc, task[p].ord, Cas(new)) /\ Writes(p, Cas(new))
<1>1. /\ Moves(p, pc, task[p].ord, Cas(new))
      /\ row' \in [Orders -> RowType] /\ row'[task[p].ord] = new
      /\ \A x \in Orders \ {task[p].ord} : row'[x] = row[x]
  BY PatchMoves DEF Busy
<1> QED
  BY <1>1 DEF TypeOK, Moves, Effect, world, Writes

\* The fence after an acquisition.
LEMMA AcquireTyped ==
  ASSUME NEW p \in Procs, Acquire(p)
  PROVE  fence' \in FenceType
BY DEF Acquire, FenceType

\* A task that starts on an order under a new fence.
LEMMA StartEffect ==
  ASSUME TypeOK, NEW p \in Procs, NEW o \in Orders, NEW pc \in Pcs,
         Acquire(p), Begun(p, pc, o), UNCHANGED <<db, world>>
  PROVE  Effect(p, pc, o, Cas(Absent)) /\ RowsKeep
BY AcquireTyped, BegunMoves DEF TypeOK, Moves, Effect, RowsKeep, db, world

-----------------------------------------------------------------------------
(* The steps of executeAgenticTrade.                                       *)

LEMMA SnapshotEffect ==
  ASSUME TypeOK, NEW p \in Procs, Snapshot(p)
  PROVE  Remembers(p, "begin") /\ RowsKeep
<1> DEFINE new == [task[p] EXCEPT !.pc = "begin", !.snap = {r \in VRows : venue[r].listed}]
<1>0. /\ new \in TaskType /\ new.pc = "begin"
      /\ new.ord = task[p].ord /\ new.seen = task[p].seen
  <2>1. task[p] \in TaskType /\ "begin" \in Pcs
    BY DEF TypeOK, Pcs
  <2> QED
    BY <2>1 DEF TaskType
<1>1. Moves(p, "begin", task[p].ord, task[p].seen)
  <2>1. task' = [task EXCEPT ![p] = new]
    BY DEF Snapshot
  <2> HIDE DEF new
  <2> QED
    BY <1>0, <2>1, WholeMoves
<1> QED
  BY <1>1 DEF Snapshot, TypeOK, Moves, Remembers, Effect, RowsKeep, db, world

\* The columns of a row just begun.
BegunCas == [dispatch |-> "unclaimed", claimant |-> None, outcome |-> "open", response |-> None]

LEMMA BeginEffect ==
  ASSUME TypeOK, TaskInv, NEW p \in Procs, Begin(p)
  PROVE  /\ Effect(p, "quote", task[p].ord, BegunCas) /\ Writes(p, BegunCas)
         /\ row[task[p].ord].dispatch = "absent"
<1>0. Busy(p)
  BY AtBusy DEF Begin
<1> DEFINE new == [Absent EXCEPT !.dispatch = "unclaimed", !.snap = task[p].snap]
<1>1. new \in RowType /\ Cas(new) = BegunCas
  BY DEF TypeOK, TaskType, RowType, Absent, Cas, BegunCas, Dispatches, Outcomes
<1>2. BegunCas \in CasType
  BY <1>1 DEF BegunCas, CasType, Dispatches, Outcomes
<1>3. jr' \in [Orders -> JournalType]
  BY <1>0, JournalTyped DEF Begin, Busy
<1>4. row' = [row EXCEPT ![task[p].ord] = new] /\ row' \in [Orders -> RowType]
  BY <1>0, <1>1 DEF Begin, TypeOK, Busy
<1>5. /\ task' = [task EXCEPT ![p].pc = "quote", ![p].seen = BegunCas, ![p].snap = {}]
      /\ UNCHANGED <<fence, entriesStopped, world>>
  BY <1>1 DEF Begin
<1>6. Moves(p, "quote", task[p].ord, BegunCas)
  <2> DEFINE t == [task[p] EXCEPT !.pc = "quote", !.seen = BegunCas, !.snap = {}]
  <2>1. task[p] \in TaskType /\ "quote" \in Pcs
    BY DEF TypeOK, Pcs
  <2>2. t \in TaskType /\ t.pc = "quote" /\ t.ord = task[p].ord /\ t.seen = BegunCas
    BY <1>2, <2>1 DEF TaskType
  <2>3. task' = [task EXCEPT ![p] = t]
    BY <1>5
  <2> HIDE DEF t
  <2> QED
    BY <2>2, <2>3, WholeMoves
<1>7. Writes(p, BegunCas)
  BY <1>0, <1>1, <1>4 DEF TypeOK, Writes, Busy
<1> QED
  BY <1>3, <1>4, <1>5, <1>6, <1>7 DEF Begin, TypeOK, Moves, Effect, world

LEMMA DenyEffect ==
  ASSUME TypeOK, NEW p \in Procs, Deny(p)
  PROVE  Ended(p) /\ RowsKeep
BY ThrowsEffect DEF Deny, Throws

LEMMA QuoteEffect ==
  ASSUME TypeOK, TaskInv, NEW p \in Procs, Quote(p)
  PROVE  RowsKeep /\ (Ended(p) \/ Remembers(p, "claim"))
<1>0. Busy(p)
  BY AtBusy DEF Quote
<1>1. CASE Fresh(p)
  <2> DEFINE new == [Mine(p) EXCEPT !.quoted = TRUE]
  <2>1. new \in RowType /\ Cas(new) = task[p].seen
    BY <1>0, <1>1, RowTyped DEF Mine, Busy, RowType, Cas, Fresh
  <2>2. Patch(p, new, "claim") /\ UNCHANGED <<fence, jr, entriesStopped, world>>
    BY <1>1 DEF Quote
  <2>3. Effect(p, "claim", task[p].ord, Cas(new)) /\ Writes(p, Cas(new))
    BY <1>0, <2>1, <2>2, PatchEffect DEF Pcs
  <2> QED
    BY <1>1, <2>1, <2>3 DEF Writes, RowsKeep, Remembers, Fresh, Mine
<1>2. CASE ~Fresh(p)
  <2>1. End(p) /\ UNCHANGED <<row, jr, entriesStopped, world>>
    BY <1>2 DEF Quote
  <2> QED
    BY <2>1, EndEffect DEF TypeOK
<1> QED
  BY <1>1, <1>2

LEMMA RefuseEffect ==
  ASSUME TypeOK, NEW p \in Procs, Refuse(p)
  PROVE  Remembers(p, "seal") /\ RowsKeep
BY GotoEffect DEF Refuse, TypeOK, Pcs, db

\* The row is closed: sealed, or not started.
ClosedCas(p, dispatch) == [task[p].seen EXCEPT !.dispatch = dispatch]

LEMMA CloseEffect ==
  ASSUME TypeOK, NEW p \in Procs, Busy(p), Fresh(p), NEW d \in Dispatches, NEW pc \in Pcs,
         Patch(p, [Mine(p) EXCEPT !.dispatch = d], pc), UNCHANGED <<fence, jr, entriesStopped, world>>
  PROVE  Effect(p, pc, task[p].ord, ClosedCas(p, d)) /\ Writes(p, ClosedCas(p, d))
<1> DEFINE new == [Mine(p) EXCEPT !.dispatch = d]
<1>1. new \in RowType /\ Cas(new) = ClosedCas(p, d)
  BY RowTyped DEF Mine, Busy, RowType, Cas, Fresh, ClosedCas
<1> QED
  BY <1>1, PatchEffect

LEMMA SealEffect ==
  ASSUME TypeOK, TaskInv, NEW p \in Procs, Seal(p)
  PROVE  \/ Ended(p) /\ RowsKeep
         \/ /\ Fresh(p) /\ Writes(p, ClosedCas(p, "sealed"))
            /\ Effect(p, "terminalize", task[p].ord, ClosedCas(p, "sealed"))
<1>0. Busy(p)
  BY AtBusy DEF Seal
<1>1. CASE Fresh(p)
  BY <1>0, <1>1, CloseEffect DEF Seal, Pcs, Dispatches
<1>2. CASE ~Fresh(p)
  <2>1. End(p) /\ UNCHANGED <<row, jr, entriesStopped, world>>
    BY <1>2 DEF Seal
  <2> QED
    BY <2>1, EndEffect DEF TypeOK
<1> QED
  BY <1>1, <1>2

\* The row is claimed by the process.
ClaimedCas(p) == [dispatch |-> "spawned", claimant |-> p, outcome |-> "open",
                  response |-> row[task[p].ord].response]

LEMMA ClaimEffect ==
  ASSUME TypeOK, TaskInv, NEW p \in Procs, Claim(p)
  PROVE  /\ Effect(p, "launch", task[p].ord, ClaimedCas(p)) /\ Writes(p, ClaimedCas(p))
         /\ row[task[p].ord].dispatch = "unclaimed" /\ row[task[p].ord].outcome = "open"
         /\ ~OtherObligation(task[p].ord)
<1>0. Busy(p) /\ p \in Workers
  BY AtBusy DEF Claim, GatePcs
<1> DEFINE new == [row[task[p].ord] EXCEPT !.dispatch = "spawned", !.claimant = p]
<1>1. row[task[p].ord].outcome = "open" /\ row[task[p].ord].dispatch = "unclaimed"
  BY DEF Claim, ClaimAllowed
<1>2. new \in RowType /\ Cas(new) = ClaimedCas(p)
  BY <1>0, <1>1, RowTyped DEF Busy, RowType, Cas, ClaimedCas, Dispatches
<1>3. Patch(p, new, "launch") /\ UNCHANGED <<fence, jr, entriesStopped, world>>
  BY DEF Claim
<1>4. Effect(p, "launch", task[p].ord, Cas(new)) /\ Writes(p, Cas(new))
  BY <1>0, <1>2, <1>3, PatchEffect DEF Pcs
<1> QED
  BY <1>1, <1>2, <1>4 DEF Claim, ClaimAllowed
LEMMA LaunchEffect ==
  ASSUME TypeOK, TaskInv, NEW p \in Procs, Launch(p)
  PROVE  /\ TypeOK' /\ Moves(p, "wait", task[p].ord, task[p].seen)
         /\ UNCHANGED <<row, inst>>
         /\ child' = [child EXCEPT ![task[p].ord] = "starting"]
<1>1. Moves(p, "wait", task[p].ord, task[p].seen)
  BY GotoMoves DEF Launch, Pcs
<1>2. child' \in [Orders -> ChildType]
  BY DEF Launch, TypeOK, ChildType
<1> QED
  BY <1>1, <1>2 DEF Launch, TypeOK, Moves, db

\* The row is answered.
AnsweredCas(p) == [task[p].seen EXCEPT !.response = child[task[p].ord]]

LEMMA RecordEffect ==
  ASSUME TypeOK, TaskInv, NEW p \in Procs, Record(p)
  PROVE  \/ Ended(p) /\ RowsKeep
         \/ /\ Fresh(p) /\ Writes(p, ClosedCas(p, "not-started"))
            /\ Effect(p, "terminalize", task[p].ord, ClosedCas(p, "not-started"))
         \/ /\ Fresh(p) /\ Writes(p, AnsweredCas(p)) /\ child[task[p].ord] \in Answers
            /\ Effect(p, "mark", task[p].ord, AnsweredCas(p))
<1>0. Busy(p) /\ child[task[p].ord] \in Answers \cup {"refused"}
  BY AtBusy DEF Record
<1>1. CASE ~Fresh(p)
  <2>1. End(p) /\ UNCHANGED <<row, jr, entriesStopped, world>>
    BY <1>1 DEF Record
  <2> QED
    BY <2>1, EndEffect DEF TypeOK
<1>2. CASE Fresh(p) /\ child[task[p].ord] = "refused"
  BY <1>0, <1>2, CloseEffect DEF Record, Pcs, Dispatches
<1>3. CASE Fresh(p) /\ child[task[p].ord] # "refused"
  <2> DEFINE answer == child[task[p].ord]
             new == [Mine(p) EXCEPT !.response = answer, !.held = (answer = "no-response")]
  <2>1. answer \in Answers
    BY <1>0, <1>3
  <2>2. new \in RowType /\ Cas(new) = AnsweredCas(p)
    <3>1. Mine(p) \in RowType /\ Cas(Mine(p)) = task[p].seen
      BY <1>0, <1>3, RowTyped DEF Mine, Busy, Fresh
    <3>2. new \in RowType
      BY <2>1, <3>1 DEF RowType
    <3>3. /\ new.dispatch = Mine(p).dispatch /\ new.claimant = Mine(p).claimant
          /\ new.outcome = Mine(p).outcome /\ new.response = answer
      BY <3>1 DEF RowType
    <3> HIDE DEF new
    <3>4. Cas(new) = [Cas(Mine(p)) EXCEPT !.response = answer]
      BY <3>3 DEF Cas
    <3> QED
      BY <3>1, <3>2, <3>4 DEF AnsweredCas
  <2>3. Patch(p, new, "mark") /\ UNCHANGED <<fence, jr, entriesStopped, world>>
    BY <1>3 DEF Record
  <2> HIDE DEF new
  <2> QED
    BY <1>0, <1>3, <2>1, <2>2, <2>3, PatchEffect DEF Pcs
<1> QED
  BY <1>1, <1>2, <1>3

LEMMA MarkEffect ==
  ASSUME TypeOK, TaskInv, NEW p \in Procs, Mark(p)
  PROVE  RowsKeep /\ (Ended(p) \/ Forgets(p, "read"))
<1>0. Busy(p)
  BY AtBusy DEF Mark
<1> DEFINE o == task[p].ord
           state == IF task[p].seen.response = "accepted" THEN "IN_PROGRESS" ELSE "UNKNOWN"
<1>1. jr' \in [Orders -> JournalType]
  <2>1. UNCHANGED jr \/ Journal(o, "IN_PROGRESS", None) \/ Journal(o, "UNKNOWN", None)
    BY DEF Mark
  <2> QED
    BY <1>0, <2>1, JournalTyped DEF TypeOK, Busy
<1>2. /\ UNCHANGED <<row, entriesStopped, world>>
      /\ End(p) \/ (Rests(p) /\ UNCHANGED fence)
  BY DEF Mark
<1>3. CASE End(p)
  BY <1>1, <1>2, <1>3, EndEffect
<1>4. CASE Rests(p) /\ UNCHANGED fence
  <2>1. Moves(p, "read", task[p].ord, Cas(Absent))
    BY <1>0, <1>4, BegunMoves DEF Rests, Pcs, Busy
  <2> QED
    BY <1>1, <1>2, <1>4, <2>1 DEF TypeOK, Moves, Forgets, Effect, world, RowsKeep
<1> QED
  BY <1>2, <1>3, <1>4

-----------------------------------------------------------------------------
(* The steps of resolveAgenticOrder.                                       *)

LEMMA ReadEffect ==
  ASSUME TypeOK, TaskInv, NEW p \in Procs, Read(p)
  PROVE  /\ RowsKeep
         /\ LET o == task[p].ord IN Effect(p, NextOf(row[o], jr[o]), o, Cas(row[o]))
<1>0. Busy(p)
  BY AtBusy DEF Read
<1> DEFINE o == task[p].ord
           pc == NextOf(row[o], jr[o])
           t == [task[p] EXCEPT !.pc = pc, !.seen = Cas(row[o])]
<1>1. pc \in Pcs
  BY DEF NextOf, Pcs
<1>2. Cas(row[o]) \in CasType /\ task[p] \in TaskType
  BY <1>0, RowTyped DEF Busy, TypeOK
<1> HIDE DEF pc
<1>3. t \in TaskType /\ t.pc = pc /\ t.ord = o /\ t.seen = Cas(row[o])
  BY <1>1, <1>2 DEF TaskType
<1>4. task' = [task EXCEPT ![p] = t] /\ UNCHANGED <<fence, db, world>>
  BY DEF Read, pc
<1> HIDE DEF t
<1>5. Moves(p, pc, o, Cas(row[o]))
  BY <1>3, <1>4, WholeMoves
<1>6. Effect(p, pc, o, Cas(row[o])) /\ RowsKeep
  BY <1>4, <1>5 DEF TypeOK, Moves, Effect, RowsKeep, db, world
<1> QED
  BY <1>6 DEF pc

LEMMA LeaveEffect ==
  ASSUME TypeOK, NEW p \in Procs, Leave(p)
  PROVE  Ended(p) /\ RowsKeep
BY ThrowsEffect DEF Leave, Throws

LEMMA UnansweredEffect ==
  ASSUME TypeOK, TaskInv, NEW p \in Procs, Unanswered(p)
  PROVE  Forgets(p, "read") /\ RowsKeep
<1>1. At(p, "unanswered") /\ Hold(p, TRUE)
  BY DEF Unanswered
<1>2. Busy(p)
  BY <1>1, AtBusy
<1> QED
  BY <1>1, <1>2, HoldEffect

LEMMA TerminalizeEffect ==
  ASSUME TypeOK, TaskInv, NEW p \in Procs, Terminalize(p)
  PROVE  RowsKeep /\ (Forgets(p, "read") \/ Remembers(p, "rollback"))
<1>1. "rollback" \in Pcs /\ Busy(p)
  BY AtBusy DEF Pcs, Terminalize
<1>2. CASE Hold(p, TRUE)
  BY <1>1, <1>2, HoldEffect
<1>3. CASE RollBackJournal(p, "rollback")
  BY <1>1, <1>3, RollBackEffect
<1> QED
  BY <1>2, <1>3 DEF Terminalize

\* A decision written where its compare-and-set still holds.
DecidedCas(p, outcome) == [Cas(row[task[p].ord]) EXCEPT !.outcome = outcome]

LEMMA DecideEffect ==
  ASSUME TypeOK, NEW p \in Procs, Busy(p), NEW new \in RowType, NEW won,
         NEW outcome \in Outcomes, Cas(new) = DecidedCas(p, outcome),
         row' = (IF won THEN [row EXCEPT ![task[p].ord] = new] ELSE row),
         entriesStopped' \in BOOLEAN, Rests(p), UNCHANGED <<fence, jr, world>>
  PROVE  Forgets(p, "read") /\ (RowsKeep \/ Writes(p, DecidedCas(p, outcome)))
<1>1. Moves(p, "read", task[p].ord, Cas(Absent))
  BY BegunMoves DEF Rests, Pcs, Busy
<1>2. row' \in [Orders -> RowType] /\ (RowsKeep \/ Writes(p, DecidedCas(p, outcome)))
  BY DEF TypeOK, Busy, RowsKeep, Writes
<1> QED
  BY <1>1, <1>2 DEF TypeOK, Moves, Forgets, Effect, world

LEMMA DecidedRow ==
  ASSUME NEW r \in RowType, NEW new \in RowType, NEW outcome,
         new.dispatch = r.dispatch, new.claimant = r.claimant,
         new.response = r.response, new.outcome = outcome
  PROVE  Cas(new) = [Cas(r) EXCEPT !.outcome = outcome]
BY DEF Cas

LEMMA RollbackEffect ==
  ASSUME TypeOK, TaskInv, NEW p \in Procs, Rollback(p)
  PROVE  Forgets(p, "read") /\ (RowsKeep \/ Writes(p, DecidedCas(p, "rolled-back")))
<1>0. Busy(p) /\ row[task[p].ord] \in RowType
  BY AtBusy, RowTyped DEF Rollback, Busy
<1> DEFINE new == [row[task[p].ord] EXCEPT !.outcome = "rolled-back"]
<1>1. new \in RowType /\ Cas(new) = DecidedCas(p, "rolled-back")
  <2>1. /\ new \in RowType /\ new.dispatch = row[task[p].ord].dispatch
        /\ new.claimant = row[task[p].ord].claimant
        /\ new.response = row[task[p].ord].response /\ new.outcome = "rolled-back"
    BY <1>0 DEF RowType, Outcomes
  <2> QED
    BY <1>0, <2>1, DecidedRow DEF DecidedCas
<1>2. /\ row' = IF Fresh(p) THEN [row EXCEPT ![task[p].ord] = new] ELSE row
      /\ entriesStopped' \in BOOLEAN /\ Rests(p) /\ UNCHANGED <<fence, jr, world>>
  BY DEF Rollback, TypeOK
<1> HIDE DEF new
<1> QED
  BY <1>0, <1>1, <1>2, DecideEffect DEF Outcomes

LEMMA DisposePatchEffect ==
  ASSUME TypeOK, TaskInv, NEW p \in Procs, DisposePatch(p)
  PROVE  Forgets(p, "read") /\ (RowsKeep \/ Writes(p, DecidedCas(p, "rolled-back")))
<1>0. Busy(p) /\ row[task[p].ord] \in RowType
  BY AtBusy, RowTyped DEF DisposePatch, Busy
<1> DEFINE new == [row[task[p].ord] EXCEPT !.outcome = "rolled-back", !.held = FALSE]
<1>1. new \in RowType /\ Cas(new) = DecidedCas(p, "rolled-back")
  <2>1. /\ new \in RowType /\ new.dispatch = row[task[p].ord].dispatch
        /\ new.claimant = row[task[p].ord].claimant
        /\ new.response = row[task[p].ord].response /\ new.outcome = "rolled-back"
    BY <1>0 DEF RowType, Outcomes
  <2> QED
    BY <1>0, <2>1, DecidedRow DEF DecidedCas
<1>2. /\ row' = IF Fresh(p) THEN [row EXCEPT ![task[p].ord] = new] ELSE row
      /\ entriesStopped' \in BOOLEAN /\ Rests(p) /\ UNCHANGED <<fence, jr, world>>
  BY DEF DisposePatch, TypeOK
<1> HIDE DEF new
<1> QED
  BY <1>0, <1>1, <1>2, DecideEffect DEF Outcomes

LEMMA CompleteFillEffect ==
  ASSUME TypeOK, TaskInv, NEW p \in Procs, CompleteFill(p)
  PROVE  Forgets(p, "read") /\ (RowsKeep \/ Writes(p, DecidedCas(p, "committed")))
<1>0. Busy(p) /\ row[task[p].ord] \in RowType
  BY AtBusy, RowTyped DEF CompleteFill, Busy
<1> DEFINE new == [row[task[p].ord] EXCEPT !.outcome = "committed",
                                           !.tx = task[p].pick, !.held = FALSE]
           won == /\ Cas(row[task[p].ord])
                       = [task[p].seen EXCEPT !.response = row[task[p].ord].response]
                  /\ ~TxTaken(task[p].ord, task[p].pick)
<1>1. new \in RowType /\ Cas(new) = DecidedCas(p, "committed")
  <2>1. task[p].pick \in VRows \cup {None}
    BY DEF TypeOK, TaskType
  <2>2. /\ new \in RowType /\ new.dispatch = row[task[p].ord].dispatch
        /\ new.claimant = row[task[p].ord].claimant
        /\ new.response = row[task[p].ord].response /\ new.outcome = "committed"
    BY <1>0, <2>1 DEF RowType, Outcomes
  <2> QED
    BY <1>0, <2>2, DecidedRow DEF DecidedCas
<1>2. /\ row' = IF won THEN [row EXCEPT ![task[p].ord] = new] ELSE row
      /\ Rests(p) /\ UNCHANGED <<fence, jr, world>>
  BY DEF CompleteFill
<1>3. entriesStopped' \in BOOLEAN
  BY DEF CompleteFill
<1> HIDE DEF new, won
<1> QED
  BY <1>0, <1>1, <1>2, <1>3, DecideEffect DEF Outcomes

\* A task that goes on and remembers which venue row it has picked.
LEMMA PickEffect ==
  ASSUME TypeOK, NEW p \in Procs, NEW pc \in Pcs, NEW m \in VRows \cup {None},
         task' = [task EXCEPT ![p].pick = m, ![p].pc = pc],
         row' \in [Orders -> RowType], RowsKeep, UNCHANGED <<fence, jr, entriesStopped, world>>
  PROVE  Remembers(p, pc) /\ RowsKeep
<1> DEFINE t == [task[p] EXCEPT !.pick = m, !.pc = pc]
<1>1. /\ t \in TaskType /\ t.pc = pc
      /\ t.ord = task[p].ord /\ t.seen = task[p].seen
  <2>1. task[p] \in TaskType
    BY DEF TypeOK
  <2> QED
    BY <2>1 DEF TaskType
<1>2. task' = [task EXCEPT ![p] = t]
  OBVIOUS
<1> HIDE DEF t
<1>3. Moves(p, pc, task[p].ord, task[p].seen)
  BY <1>1, <1>2, WholeMoves
<1> QED
  BY <1>3 DEF TypeOK, Moves, Remembers, Effect, world

LEMMA RecoverEffect ==
  ASSUME TypeOK, TaskInv, NEW p \in Procs, Recover(p)
  PROVE  /\ RowsKeep
         /\ Forgets(p, "read") \/ (Remembers(p, "fill") /\ task[p].seen.response \in Answers)
<1> DEFINE o == task[p].ord
           tx == IF row[o].tx # None THEN row[o].tx ELSE jr[o].tx
<1>0. Busy(p)
  BY AtBusy DEF Recover
<1>1. \/ Hold(p, TRUE) \/ Pass(p)
      \/ /\ task[p].seen.response \in Answers
         /\ task' = [task EXCEPT ![p].pc = "fill", ![p].pick = tx]
         /\ UNCHANGED <<fence, db, world>>
  BY DEF Recover, Answers
<1>2. CASE Hold(p, TRUE)
  BY <1>0, <1>2, HoldEffect
<1>3. CASE Pass(p)
  BY <1>0, <1>3, PassEffect
<1>4. CASE /\ task[p].seen.response \in Answers
           /\ task' = [task EXCEPT ![p].pc = "fill", ![p].pick = tx]
           /\ UNCHANGED <<fence, db, world>>
  <2>1. tx \in VRows \cup {None} /\ "fill" \in Pcs
    BY <1>0 DEF TypeOK, Busy, RowType, JournalType, Pcs
  <2>2. task' = [task EXCEPT ![p].pick = tx, ![p].pc = "fill"]
    BY <1>4 DEF TypeOK, TaskType
  <2>3. row' \in [Orders -> RowType] /\ RowsKeep
    BY <1>4 DEF TypeOK, RowsKeep, db
  <2>4. UNCHANGED <<fence, jr, entriesStopped, world>>
    BY <1>4 DEF db
  <2> HIDE DEF tx
  <2>5. Remembers(p, "fill") /\ RowsKeep
    BY <2>1, <2>2, <2>3, <2>4, PickEffect
  <2> QED
    BY <1>4, <2>5
<1> QED
  BY <1>1, <1>2, <1>3, <1>4

LEMMA BoundRow ==
  ASSUME NEW r \in RowType, NEW m \in VRows
  PROVE  LET new == [r EXCEPT !.listed = m, !.held = FALSE]
         IN  new \in RowType /\ Cas(new) = Cas(r)
BY DEF RowType, Cas

LEMMA BindEffect ==
  ASSUME TypeOK, NEW p \in Procs, Busy(p), NEW m \in VRows, Bind(p, m)
  PROVE  /\ RowsKeep
         /\ Forgets(p, "read") \/ Remembers(p, "finished") \/ Remembers(p, "failed")
<1> DEFINE new == [row[task[p].ord] EXCEPT !.listed = m, !.held = FALSE]
           pc == IF venue[m].st = "finished" THEN "finished" ELSE "failed"
<1>1. new \in RowType /\ Cas(new) = Cas(row[task[p].ord])
  BY RowTyped, BoundRow DEF Busy
<1>2. row' = [row EXCEPT ![task[p].ord] = new] /\ UNCHANGED <<fence, jr, entriesStopped, world>>
  BY DEF Bind
<1> HIDE DEF new
<1>3. row' \in [Orders -> RowType] /\ RowsKeep
  BY <1>1, <1>2, WriteKeeps DEF Busy, RowsKeep
<1>4. CASE Rests(p)
  <2>1. Moves(p, "read", task[p].ord, Cas(Absent))
    BY <1>4, BegunMoves DEF Rests, Pcs, Busy
  <2> QED
    BY <1>2, <1>3, <2>1 DEF TypeOK, Moves, Forgets, Effect, world
<1>5. CASE task' = [task EXCEPT ![p].pick = m, ![p].pc = pc]
  <2>1. pc \in Pcs /\ pc \in {"finished", "failed"}
    BY DEF Pcs
  <2> HIDE DEF pc
  <2>2. Remembers(p, pc)
    BY <1>2, <1>3, <1>5, <2>1, PickEffect
  <2> QED
    BY <1>3, <2>1, <2>2
<1> QED
  BY <1>4, <1>5 DEF Bind

LEMMA ListRowsEffect ==
  ASSUME TypeOK, TaskInv, NEW p \in Procs, ListRows(p)
  PROVE  /\ RowsKeep
         /\ Forgets(p, "read") \/ Remembers(p, "finished") \/ Remembers(p, "failed")
<1>0. Busy(p)
  BY AtBusy DEF ListRows
<1>1. Pass(p) \/ Hold(p, FALSE) \/ Hold(p, TRUE) \/ \E m \in VRows : Bind(p, m)
  BY DEF ListRows
<1>2. CASE Pass(p)
  BY <1>0, <1>2, PassEffect
<1>3. CASE Hold(p, FALSE) \/ Hold(p, TRUE)
  BY <1>0, <1>3, HoldEffect
<1>4. CASE \E m \in VRows : Bind(p, m)
  BY <1>0, <1>4, BindEffect
<1> QED
  BY <1>1, <1>2, <1>3, <1>4

LEMMA FinishedEffect ==
  ASSUME TypeOK, TaskInv, NEW p \in Procs, Finished(p)
  PROVE  RowsKeep /\ (Forgets(p, "read") \/ Ended(p) \/ Remembers(p, "fill"))
<1>0. Busy(p) /\ task[p].pick \in VRows \cup {None}
  BY AtBusy DEF Finished, TypeOK, TaskType
<1>1. Pass(p) \/ Hold(p, FALSE) \/ Hold(p, TRUE) \/ Throws(p) \/ CommitJournal(p, task[p].pick)
  BY DEF Finished
<1>2. CASE Pass(p)
  BY <1>0, <1>2, PassEffect
<1>3. CASE Hold(p, FALSE) \/ Hold(p, TRUE)
  BY <1>0, <1>3, HoldEffect
<1>4. CASE Throws(p)
  BY <1>4, ThrowsEffect
<1>5. CASE CommitJournal(p, task[p].pick)
  BY <1>0, <1>5, CommitEffect
<1> QED
  BY <1>1, <1>2, <1>3, <1>4, <1>5

LEMMA FailedRowEffect ==
  ASSUME TypeOK, TaskInv, NEW p \in Procs, FailedRow(p)
  PROVE  RowsKeep /\ (Forgets(p, "read") \/ Ended(p) \/ Remembers(p, "rollback"))
<1>0. Busy(p) /\ "rollback" \in Pcs
  BY AtBusy DEF FailedRow, Pcs
<1>1. Pass(p) \/ Hold(p, FALSE) \/ Hold(p, TRUE) \/ Throws(p) \/ RollBackJournal(p, "rollback")
  BY DEF FailedRow
<1>2. CASE Pass(p)
  BY <1>0, <1>2, PassEffect
<1>3. CASE Hold(p, FALSE) \/ Hold(p, TRUE)
  BY <1>0, <1>3, HoldEffect
<1>4. CASE Throws(p)
  BY <1>4, ThrowsEffect
<1>5. CASE RollBackJournal(p, "rollback")
  BY <1>0, <1>5, RollBackEffect
<1> QED
  BY <1>1, <1>2, <1>3, <1>4, <1>5

-----------------------------------------------------------------------------
(* The steps of dispose, and the end of a task by an exception.            *)

LEMMA DisposeReadEffect ==
  ASSUME TypeOK, NEW p \in Procs, NEW o \in Orders, DisposeRead(p, o)
  PROVE  Effect(p, "d-fence", o, Cas(row[o])) /\ RowsKeep /\ Obligation(o)
<1> DEFINE t == [Idle EXCEPT !.pc = "d-fence", !.ord = o, !.seen = Cas(row[o])]
<1>1. t \in TaskType /\ t.pc = "d-fence" /\ t.ord = o /\ t.seen = Cas(row[o])
  <2>1. Cas(row[o]) \in CasType /\ "d-fence" \in Pcs
    BY RowTyped DEF Pcs
  <2> QED
    BY <2>1, IdleTyped DEF TaskType, Idle
<1>2. task' = [task EXCEPT ![p] = t] /\ UNCHANGED <<fence, db, world>> /\ Obligation(o)
  BY DEF DisposeRead
<1> HIDE DEF t
<1>3. Moves(p, "d-fence", o, Cas(row[o]))
  BY <1>1, <1>2, WholeMoves
<1> QED
  BY <1>2, <1>3 DEF TypeOK, Moves, Effect, RowsKeep, db, world

LEMMA DisposeFenceEffect ==
  ASSUME TypeOK, NEW p \in Procs, DisposeFence(p)
  PROVE  Remembers(p, "d-quiet") /\ RowsKeep
<1>1. Moves(p, "d-quiet", task[p].ord, task[p].seen)
  BY GotoMoves DEF DisposeFence, Pcs
<1>2. fence' \in FenceType /\ UNCHANGED <<db, world>>
  BY AcquireTyped DEF DisposeFence
<1> QED
  BY <1>1, <1>2 DEF TypeOK, Moves, Remembers, Effect, RowsKeep, db, world

LEMMA DisposeSealEffect ==
  ASSUME TypeOK, TaskInv, NEW p \in Procs, DisposeSeal(p)
  PROVE  \/ Ended(p) /\ RowsKeep
         \/ Remembers(p, "d-branch") /\ RowsKeep /\ task[p].seen.dispatch # "unclaimed"
         \/ /\ Fresh(p) /\ Writes(p, ClosedCas(p, "sealed"))
            /\ Effect(p, "d-branch", task[p].ord, ClosedCas(p, "sealed"))
            /\ task[p].seen.dispatch = "unclaimed"
<1>0. Busy(p)
  BY AtBusy DEF DisposeSeal
<1>1. CASE task[p].seen.dispatch # "unclaimed"
  <2>1. Goto(p, "d-branch") /\ UNCHANGED <<fence, row, jr, entriesStopped, world>>
    BY <1>1 DEF DisposeSeal
  <2> QED
    BY <1>1, <2>1, GotoEffect DEF Pcs, TypeOK
<1>2. CASE task[p].seen.dispatch = "unclaimed" /\ Fresh(p)
  BY <1>0, <1>2, CloseEffect DEF DisposeSeal, Pcs, Dispatches
<1>3. CASE task[p].seen.dispatch = "unclaimed" /\ ~Fresh(p)
  <2>1. End(p) /\ UNCHANGED <<row, jr, entriesStopped, world>>
    BY <1>3 DEF DisposeSeal
  <2> QED
    BY <2>1, EndEffect DEF TypeOK
<1> QED
  BY <1>1, <1>2, <1>3

LEMMA DisposeRollbackEffect ==
  ASSUME TypeOK, TaskInv, NEW p \in Procs, DisposeRollback(p)
  PROVE  RowsKeep /\ (Ended(p) \/ Remembers(p, "d-patch"))
<1>0. Busy(p) /\ "d-patch" \in Pcs
  BY AtBusy DEF DisposeRollback, Pcs
<1>1. Throws(p) \/ RollBackJournal(p, "d-patch")
  BY DEF DisposeRollback
<1>2. CASE Throws(p)
  BY <1>2, ThrowsEffect
<1>3. CASE RollBackJournal(p, "d-patch")
  BY <1>0, <1>3, RollBackEffect
<1> QED
  BY <1>1, <1>2, <1>3

LEMMA DisposeCommitEffect ==
  ASSUME TypeOK, TaskInv, NEW p \in Procs, DisposeCommit(p)
  PROVE  RowsKeep /\ (Ended(p) \/ Remembers(p, "fill"))
<1>0. Busy(p) /\ task[p].ord \in VRows \cup {None}
  BY AtBusy DEF DisposeCommit, Busy, VRows
<1>1. Throws(p) \/ CommitJournal(p, task[p].ord)
  BY DEF DisposeCommit
<1>2. CASE Throws(p)
  BY <1>2, ThrowsEffect
<1>3. CASE CommitJournal(p, task[p].ord)
  BY <1>0, <1>3, CommitEffect
<1> QED
  BY <1>1, <1>2, <1>3

\* The claimant is retired; nobody becomes quiescent or comes to life by that.
LEMMA DisposeQuietEffect ==
  ASSUME TypeOK, NEW p \in Procs, DisposeQuiet(p)
  PROVE  /\ TypeOK' /\ RowsKeep /\ UNCHANGED child
         /\ \A q \in Procs : inst'[q].alive = inst[q].alive /\ (Quiescent(q)' <=> Quiescent(q))
         /\ \/ Moves(p, "idle", None, Cas(Absent))
            \/ /\ Moves(p, "d-seal", task[p].ord, task[p].seen)
               /\ task[p].seen.dispatch = "spawned" /\ task[p].seen.response = None
                    => Quiescent(task[p].seen.claimant)
<1> DEFINE c == task[p].seen.claimant
<1>1. inst' \in [Procs -> InstType]
  <2>1. inst' = inst \/ inst' = [inst EXCEPT ![c].retired = "dispose"]
    BY DEF DisposeQuiet
  <2>2. inst \in [Procs -> InstType]
    BY DEF TypeOK
  <2> QED
    BY <2>1, <2>2 DEF InstType
<1>2. \A q \in Procs : inst'[q].alive = inst[q].alive /\ (Quiescent(q)' <=> Quiescent(q))
  <2>1. inst' = inst \/ (inst[c].retired = None /\ inst' = [inst EXCEPT ![c].retired = "dispose"])
    BY DEF DisposeQuiet
  <2>2. None # "exit"
    BY DispatchAssumption
  <2> QED
    BY <2>1, <2>2 DEF TypeOK, InstType, Quiescent
<1>3. UNCHANGED <<row, jr, entriesStopped, child, venue>>
  BY DEF DisposeQuiet, db
<1>4. CASE End(p)
  <2>1. Moves(p, "idle", None, Cas(Absent)) /\ fence' \in FenceType
    BY <1>4, EndMoves
  <2> QED
    BY <1>1, <1>2, <1>3, <2>1 DEF TypeOK, Moves, RowsKeep
<1>5. CASE /\ Goto(p, "d-seal") /\ UNCHANGED fence
           /\ task[p].seen.dispatch = "spawned" /\ task[p].seen.response = None => Quiescent(c)
  <2>1. Moves(p, "d-seal", task[p].ord, task[p].seen)
    BY <1>5, GotoMoves DEF Pcs
  <2> QED
    BY <1>1, <1>2, <1>3, <1>5, <2>1 DEF TypeOK, Moves, RowsKeep
<1> QED
  BY <1>4, <1>5 DEF DisposeQuiet

LEMMA TaskFailsEffect ==
  ASSUME TypeOK, NEW p \in Procs, TaskFails(p)
  PROVE  Ended(p) /\ RowsKeep
BY ThrowsEffect DEF TaskFails, Throws

-----------------------------------------------------------------------------
(* Every step keeps the types and the place of every task.                 *)

\* The three shapes a step of a task has: what TypeStep and InvStep need of each.
LEMMA EndedTaskInv ==
  ASSUME TypeOK, TaskInv, NEW p \in Procs, Ended(p)
  PROVE  TypeOK' /\ TaskInv'
<1>1. "idle" \in GatePcs
  BY DEF GatePcs
<1>2. Effect(p, "idle", None, Cas(Absent))
  BY DEF Ended
<1>3. TaskInv'
  BY <1>1, <1>2, EffectTaskInv
<1> QED
  BY <1>2, <1>3 DEF Effect

LEMMA EffectTypes ==
  ASSUME TypeOK, TaskInv, NEW p \in Procs, NEW pc, NEW o \in Orders, NEW seen,
         inst[p].alive, pc \notin GatePcs => p \in Workers, Effect(p, pc, o, seen)
  PROVE  TypeOK' /\ TaskInv'
<1>1. TaskInv'
  BY EffectTaskInv
<1> QED
  BY <1>1 DEF Effect

LEMMA OnTypes ==
  ASSUME TypeOK, TaskInv, NEW p \in Procs, Busy(p), NEW pc,
         pc \notin GatePcs => p \in Workers,
         Forgets(p, pc) \/ Remembers(p, pc) \/ \E seen : Effect(p, pc, task[p].ord, seen)
  PROVE  TypeOK' /\ TaskInv'
<1>1. PICK seen : Effect(p, pc, task[p].ord, seen)
  BY DEF Forgets, Remembers
<1> QED
  BY <1>1, EffectTypes DEF Busy

LEMMA ExecuteTypes ==
  ASSUME TypeOK, TaskInv, NEW p \in Procs, Execute(p)
  PROVE  TypeOK' /\ TaskInv'
<1>1. ASSUME NEW o \in Orders, StartExecute(p, o) PROVE TypeOK' /\ TaskInv'
  <2>1. Effect(p, "snapshot", o, Cas(Absent)) /\ p \in Workers /\ inst[p].alive
    BY <1>1, StartEffect DEF StartExecute, Pcs, At
  <2> QED
    BY <2>1, EffectTypes
<1>2. CASE Snapshot(p)
  <2>1. Busy(p) /\ p \in Workers
    BY <1>2, AtBusy DEF Snapshot, GatePcs
  <2> QED
    BY <1>2, <2>1, SnapshotEffect, OnTypes
<1>3. CASE Begin(p)
  <2>1. Busy(p) /\ p \in Workers
    BY <1>3, AtBusy DEF Begin, GatePcs
  <2> QED
    BY <1>3, <2>1, BeginEffect, OnTypes
<1>4. CASE Deny(p)
  BY <1>4, DenyEffect, EndedTaskInv
<1>5. CASE Quote(p)
  <2>1. Busy(p) /\ p \in Workers
    BY <1>5, AtBusy DEF Quote, GatePcs
  <2> QED
    BY <1>5, <2>1, QuoteEffect, OnTypes, EndedTaskInv
<1>6. CASE Refuse(p)
  <2>1. Busy(p) /\ p \in Workers
    BY <1>6, AtBusy DEF Refuse, GatePcs
  <2> QED
    BY <1>6, <2>1, RefuseEffect, OnTypes
<1>7. CASE Seal(p)
  <2>1. Busy(p) /\ p \in Workers
    BY <1>7, AtBusy DEF Seal, GatePcs
  <2> QED
    BY <1>7, <2>1, SealEffect, OnTypes, EndedTaskInv
<1>8. CASE Claim(p)
  <2>1. Busy(p) /\ p \in Workers
    BY <1>8, AtBusy DEF Claim, GatePcs
  <2> QED
    BY <1>8, <2>1, ClaimEffect, OnTypes
<1>9. CASE Launch(p)
  <2>1. Busy(p) /\ p \in Workers
    BY <1>9, AtBusy DEF Launch, GatePcs
  <2>2. TypeOK' /\ Moves(p, "wait", task[p].ord, task[p].seen) /\ UNCHANGED inst
    BY <1>9, LaunchEffect
  <2> QED
    BY <2>1, <2>2 DEF Moves, TaskInv, Busy
<1>10. CASE Record(p)
  <2>1. Busy(p) /\ p \in Workers
    BY <1>10, AtBusy DEF Record, GatePcs
  <2> QED
    BY <1>10, <2>1, RecordEffect, OnTypes, EndedTaskInv
<1>11. CASE Mark(p)
  <2>1. Busy(p) /\ p \in Workers
    BY <1>11, AtBusy DEF Mark, GatePcs
  <2> QED
    BY <1>11, <2>1, MarkEffect, OnTypes, EndedTaskInv
<1> QED
  BY <1>1, <1>2, <1>3, <1>4, <1>5, <1>6, <1>7, <1>8, <1>9, <1>10, <1>11 DEF Execute

LEMMA ResolveTypes ==
  ASSUME TypeOK, TaskInv, NEW p \in Procs, Resolve(p)
  PROVE  TypeOK' /\ TaskInv'
<1>0. "read" \in GatePcs /\ "fill" \in GatePcs
  BY DEF GatePcs
<1>1. ASSUME NEW o \in Orders, StartResolve(p, o) PROVE TypeOK' /\ TaskInv'
  <2>1. Effect(p, "read", o, Cas(Absent)) /\ p \in Workers /\ inst[p].alive
    BY <1>1, StartEffect DEF StartResolve, Pcs, At
  <2> QED
    BY <2>1, EffectTypes
<1>2. CASE Read(p)
  <2>1. Busy(p) /\ p \in Workers
    BY <1>2, AtBusy DEF Read
  <2> QED
    BY <1>2, <2>1, ReadEffect, OnTypes
<1>3. CASE Leave(p)
  BY <1>3, LeaveEffect, EndedTaskInv
<1>4. CASE Unanswered(p)
  <2>1. Busy(p)
    BY <1>4, AtBusy DEF Unanswered
  <2> QED
    BY <1>0, <1>4, <2>1, UnansweredEffect, OnTypes
<1>5. CASE Terminalize(p)
  <2>1. Busy(p) /\ p \in Workers
    BY <1>5, AtBusy DEF Terminalize, GatePcs
  <2> QED
    BY <1>5, <2>1, TerminalizeEffect, OnTypes
<1>6. CASE Rollback(p)
  <2>1. Busy(p)
    BY <1>6, AtBusy DEF Rollback
  <2> QED
    BY <1>0, <1>6, <2>1, RollbackEffect, OnTypes
<1>7. CASE CompleteFill(p)
  <2>1. Busy(p)
    BY <1>7, AtBusy DEF CompleteFill
  <2> QED
    BY <1>0, <1>7, <2>1, CompleteFillEffect, OnTypes
<1>8. CASE Recover(p)
  <2>1. Busy(p)
    BY <1>8, AtBusy DEF Recover
  <2> QED
    BY <1>0, <1>8, <2>1, RecoverEffect, OnTypes
<1>9. CASE ListRows(p)
  <2>1. Busy(p) /\ p \in Workers
    BY <1>9, AtBusy DEF ListRows, GatePcs
  <2> QED
    BY <1>9, <2>1, ListRowsEffect, OnTypes
<1>10. CASE Finished(p)
  <2>1. Busy(p)
    BY <1>10, AtBusy DEF Finished
  <2> QED
    BY <1>0, <1>10, <2>1, FinishedEffect, OnTypes, EndedTaskInv
<1>11. CASE FailedRow(p)
  <2>1. Busy(p) /\ p \in Workers
    BY <1>11, AtBusy DEF FailedRow, GatePcs
  <2> QED
    BY <1>11, <2>1, FailedRowEffect, OnTypes, EndedTaskInv
<1> QED
  BY <1>1, <1>2, <1>3, <1>4, <1>5, <1>6, <1>7, <1>8, <1>9, <1>10, <1>11 DEF Resolve

LEMMA DisposeTypes ==
  ASSUME TypeOK, TaskInv, NEW p \in Procs, Dispose(p)
  PROVE  TypeOK' /\ TaskInv'
<1>0. {"idle", "read", "fill", "d-fence", "d-quiet", "d-seal", "d-branch", "d-patch"} \subseteq GatePcs
  BY DEF GatePcs
<1>1. ASSUME NEW o \in Orders, DisposeRead(p, o) PROVE TypeOK' /\ TaskInv'
  <2>1. Effect(p, "d-fence", o, Cas(row[o])) /\ inst[p].alive
    BY <1>1, DisposeReadEffect DEF DisposeRead, At
  <2> QED
    BY <1>0, <2>1, EffectTypes
<1>2. CASE DisposeFence(p)
  <2>1. Busy(p)
    BY <1>2, AtBusy DEF DisposeFence
  <2> QED
    BY <1>0, <1>2, <2>1, DisposeFenceEffect, OnTypes
<1>3. CASE DisposeQuiet(p)
  <2>1. Busy(p)
    BY <1>3, AtBusy DEF DisposeQuiet
  <2>2. /\ TypeOK' /\ \A q \in Procs : inst'[q].alive = inst[q].alive
        /\ \/ Moves(p, "idle", None, Cas(Absent))
           \/ Moves(p, "d-seal", task[p].ord, task[p].seen)
    BY <1>3, DisposeQuietEffect
  <2> QED
    BY <1>0, <2>1, <2>2 DEF TaskInv, Moves, Busy
<1>4. CASE DisposeSeal(p)
  <2>1. Busy(p)
    BY <1>4, AtBusy DEF DisposeSeal
  <2> QED
    BY <1>0, <1>4, <2>1, DisposeSealEffect, OnTypes, EndedTaskInv
<1>5. CASE DisposeRollback(p)
  <2>1. Busy(p)
    BY <1>5, AtBusy DEF DisposeRollback
  <2> QED
    BY <1>0, <1>5, <2>1, DisposeRollbackEffect, OnTypes, EndedTaskInv
<1>6. CASE DisposePatch(p)
  <2>1. Busy(p)
    BY <1>6, AtBusy DEF DisposePatch
  <2> QED
    BY <1>0, <1>6, <2>1, DisposePatchEffect, OnTypes
<1>7. CASE DisposeCommit(p)
  <2>1. Busy(p)
    BY <1>7, AtBusy DEF DisposeCommit
  <2> QED
    BY <1>0, <1>7, <2>1, DisposeCommitEffect, OnTypes, EndedTaskInv
<1> QED
  BY <1>1, <1>2, <1>3, <1>4, <1>5, <1>6, <1>7 DEF Dispose

\* Processes end, alone or with their children.
LEMMA DiesTypes ==
  ASSUME TypeOK, TaskInv, NEW p \in Procs, Dies(p), child' \in [Orders -> ChildType]
  PROVE  TypeOK' /\ TaskInv' /\ UNCHANGED row
<1>1. "idle" \in GatePcs
  BY DEF GatePcs
<1>2. inst' \in [Procs -> InstType] /\ task' \in [Procs -> TaskType]
  BY IdleTyped DEF TypeOK, Dies, InstType
<1>3. UNCHANGED <<fence, row, jr, entriesStopped, venue>>
  BY DEF Dies, db
<1>4. TaskInv'
  BY <1>1 DEF TaskInv, Dies, TypeOK, InstType, Idle
<1> QED
  BY <1>2, <1>3, <1>4 DEF TypeOK

LEMMA KilledTyped ==
  ASSUME TypeOK, NEW p \in Procs
  PROVE  Killed(p) \in [Orders -> ChildType]
BY DEF TypeOK, Killed, ChildType, Answers

LEMMA ProcessTypes ==
  ASSUME TypeOK, TaskInv, NEW p \in Procs, Process(p)
  PROVE  TypeOK' /\ TaskInv'
<1>1. CASE TaskFails(p)
  BY <1>1, TaskFailsEffect, EndedTaskInv
<1>2. CASE GracefulExit(p)
  <2>1. inst' \in [Procs -> InstType]
    BY <1>2 DEF GracefulExit, TypeOK, InstType
  <2>2. UNCHANGED <<fence, row, jr, entriesStopped, task, child, venue>>
    BY <1>2 DEF GracefulExit, db
  <2>3. TaskInv'
    BY <1>2, <2>2 DEF GracefulExit, TaskInv, At, TypeOK
  <2> QED
    BY <2>1, <2>2, <2>3 DEF TypeOK
<1>3. CASE Crash(p)
  BY <1>3, DiesTypes DEF Crash, TypeOK
<1>4. CASE HeartbeatRefused(p)
  BY <1>4, DiesTypes, KilledTyped DEF HeartbeatRefused
<1>5. CASE HostStops(p)
  <2>1. inst' \in [Procs -> InstType]
    BY <1>5 DEF HostStops, TypeOK, InstType
  <2>2. UNCHANGED <<fence, row, jr, entriesStopped, task, venue>>
    BY <1>5 DEF HostStops, db
  <2>3. TaskInv'
    BY <1>5, <2>2 DEF HostStops, TaskInv, TypeOK, InstType
  <2>4. child' \in [Orders -> ChildType]
    BY <1>5, KilledTyped DEF HostStops
  <2> QED
    BY <2>1, <2>2, <2>3, <2>4 DEF TypeOK
<1> QED
  BY <1>1, <1>2, <1>3, <1>4, <1>5 DEF Process

\* The children, the quote's age, the venue, the lease: no task moves.
LEMMA ChildTypes ==
  ASSUME TypeOK, NEW o \in Orders, Child(o)
  PROVE  TypeOK' /\ UNCHANGED <<row, inst, task>>
<1>1. UNCHANGED <<fence, row, jr, entriesStopped, inst, task>>
  BY DEF Child, ChildRuns, ChildRefuses, ChildSends, ChildAnswers, ChildLost, db
<1>2. child' \in [Orders -> ChildType]
  BY DEF Child, ChildRuns, ChildRefuses, ChildSends, ChildAnswers, ChildLost, TypeOK,
         ChildType, Answers
<1>3. venue' \in [VRows -> VenueType]
  <2>1. o \in VRows
    BY DEF VRows
  <2> QED
    BY <2>1 DEF Child, ChildRuns, ChildRefuses, ChildSends, ChildAnswers, ChildLost,
                TypeOK, VenueType
<1> QED
  BY <1>1, <1>2, <1>3 DEF TypeOK

LEMMA VenueTypes ==
  ASSUME TypeOK, NEW r \in VRows, Venue(r)
  PROVE  TypeOK' /\ UNCHANGED <<row, inst, task, child>>
<1>1. UNCHANGED <<fence, row, jr, entriesStopped, inst, task, child>>
  BY DEF Venue, VenuePlaces, VenueSettles, VenueLists, db
<1>2. Ends(r) \subseteq {"finished", "refused", "reverted"} /\ Fills(r) \subseteq {"ok", "below", "partial"}
  BY DispatchAssumption DEF Ends, Fills
<1>4. venue' \in [VRows -> VenueType]
  <2>1. CASE VenuePlaces(r)
    BY <2>1 DEF VenuePlaces, VenueType, TypeOK
  <2>2. CASE VenueSettles(r)
    <3>1. PICK st \in Ends(r), fill \in Fills(r) :
                venue' = [venue EXCEPT ![r].st = st, ![r].fill = fill]
      BY <2>2 DEF VenueSettles
    <3>2. /\ st \in {"finished", "refused", "reverted"}
          /\ fill \in {"ok", "below", "partial"}
      BY <1>2
    <3> QED
      BY <3>1, <3>2 DEF VenueType, TypeOK
  <2>3. CASE VenueLists(r)
    BY <2>3 DEF VenueLists, VenueType, TypeOK
  <2> QED
    BY <2>1, <2>2, <2>3 DEF Venue
<1> QED
  BY <1>1, <1>4 DEF TypeOK

LEMMA QuoteExpiresTypes ==
  ASSUME TypeOK, NEW o \in Orders, QuoteExpires(o)
  PROVE  TypeOK' /\ RowsKeep /\ UNCHANGED <<inst, task, child>>
<1> DEFINE new == [row[o] EXCEPT !.quoted = FALSE]
<1>1. new \in RowType /\ Cas(new) = Cas(row[o])
  BY RowTyped DEF RowType, Cas
<1>2. row' = [row EXCEPT ![o] = new] /\ UNCHANGED <<fence, jr, entriesStopped, task, world>>
  BY DEF QuoteExpires
<1> HIDE DEF new
<1>3. row' \in [Orders -> RowType] /\ RowsKeep
  BY <1>1, <1>2, WriteKeeps DEF RowsKeep
<1> QED
  BY <1>2, <1>3 DEF TypeOK, world

LEMMA FenceLapsesTypes ==
  ASSUME TypeOK, FenceLapses
  PROVE  TypeOK' /\ UNCHANGED <<row, inst, task, child>>
BY DEF FenceLapses, TypeOK, FenceType, db, world

LEMMA StillTypes ==
  ASSUME TaskInv, UNCHANGED <<inst, task>>
  PROVE  TaskInv'
BY DEF TaskInv

LEMMA TypeStep ==
  ASSUME TypeOK, TaskInv, [Next]_vars
  PROVE  TypeOK' /\ TaskInv'
<1>1. ASSUME NEW p \in Procs, Execute(p) \/ Resolve(p) \/ Dispose(p) \/ Process(p)
      PROVE  TypeOK' /\ TaskInv'
  BY <1>1, ExecuteTypes, ResolveTypes, DisposeTypes, ProcessTypes
<1>2. ASSUME NEW o \in Orders, Child(o) \/ QuoteExpires(o)
      PROVE  TypeOK' /\ TaskInv'
  BY <1>2, ChildTypes, QuoteExpiresTypes, StillTypes
<1>3. ASSUME NEW r \in VRows, Venue(r)
      PROVE  TypeOK' /\ TaskInv'
  BY <1>3, VenueTypes, StillTypes
<1>4. CASE FenceLapses
  BY <1>4, FenceLapsesTypes, StillTypes
<1>5. CASE UNCHANGED vars
  BY <1>5, StillTypes DEF vars, TypeOK
<1> QED
  BY <1>1, <1>2, <1>3, <1>4, <1>5 DEF Next

LEMMA TypeInit ==
  ASSUME Init
  PROVE  TypeOK /\ TaskInv
<1>1. Absent \in RowType
  BY DispatchAssumption DEF Absent, RowType, Dispatches, Outcomes
<1>2. row \in [Orders -> RowType]
  BY <1>1 DEF Init
<1>3. task \in [Procs -> TaskType]
  BY IdleTyped DEF Init
<1>4. /\ fence \in FenceType /\ entriesStopped \in BOOLEAN
      /\ jr \in [Orders -> JournalType] /\ child \in [Orders -> ChildType]
  BY DEF Init, FenceType, JournalType, ChildType
<1>5. inst \in [Procs -> InstType] /\ venue \in [VRows -> VenueType]
  BY DEF Init, InstType, VenueType
<1>6. TaskInv
  BY DEF Init, TaskInv, Idle, GatePcs
<1> QED
  BY <1>2, <1>3, <1>4, <1>5, <1>6 DEF TypeOK

\* In every behaviour the variables keep their types, and a busy process is alive
\* and works on an order.
THEOREM DispatchTypeCorrect == Spec => [](TypeOK /\ TaskInv)
<1>1. Init => TypeOK /\ TaskInv
  BY TypeInit
<1>2. TypeOK /\ TaskInv /\ [Next]_vars => (TypeOK /\ TaskInv)'
  BY TypeStep
<1> QED
  BY <1>1, <1>2, PTL DEF Spec

-----------------------------------------------------------------------------
(* DispatchInv: what a step may do to an order without disturbing it.      *)

Decided(x) == row[x].response # None \/ row[x].outcome # "open" \/ Closed(x)
Quiet(x) == ~LiveChild(x) /\ \A p \in Procs : ~Launching(p, x)

\* The row only moves on, it is not claimed anew, and it is closed, answered or
\* decided only when no child of it may trade or start.
Grows(x) ==
  /\ Out(x) => Out(x)' /\ row'[x].claimant = row[x].claimant
  /\ Closed(x) => Closed(x)'
  /\ row[x].response # None => row'[x].response # None
  /\ Decided(x)' => Decided(x) \/ (Out(x)' /\ Quiet(x))
  /\ Live(x)' => Live(x)

\* A task that moves does not stop waiting for a child that may trade, and is where
\* DispatchInv allows it to be.
Moved(q) ==
  /\ task'[q].pc # "launch"
  /\ \A x \in Orders :
       task[q].pc = "wait" /\ task[q].ord = x => ~LiveChild(x)' \/ ~inst'[q].alive
  /\ task'[q].pc # "idle" => MemoryInv(q)' /\ StepInv(q)'

ChildrenCalm ==
  \A x \in Orders : /\ LiveChild(x)' => LiveChild(x)
                    /\ child[x] = "none" => child'[x] = "none"

Calm ==
  /\ \A x \in Orders : Grows(x)
  /\ ChildrenCalm
  /\ \A q \in Procs : /\ inst'[q].alive => inst[q].alive
                      /\ Quiescent(q)' => ~inst'[q].alive
  /\ \A x \in Orders : LiveChild(x)' => ~Quiescent(row[x].claimant)'
  /\ \A q \in Procs : task'[q] = task[q] \/ Moved(q)

\* A dead order stays dead.
LEMMA DeadStays ==
  ASSUME NEW x \in Orders, Dead(x), Out(x)', LiveChild(x)' => LiveChild(x),
         \A q \in Procs : task'[q] = task[q] \/ task'[q].pc # "launch"
  PROVE  Dead(x)'
BY DEF Dead, Launching

\* Nobody launches, and no child may trade for, an order that is not live.
LEMMA NotLiveQuiet ==
  ASSUME TaskInv, DispatchInv, NEW x \in Orders, ~Live(x)
  PROVE  Quiet(x)
<1>1. ~LiveChild(x)
  BY DEF DispatchInv, OrderInv
<1>2. ASSUME NEW q \in Procs, Launching(q, x) PROVE FALSE
  BY <1>2 DEF DispatchInv, StepInv, Launching
<1> QED
  BY <1>1, <1>2 DEF Quiet

\* A decided order is dead.
LEMMA DecidedDead ==
  ASSUME DispatchInv, NEW x \in Orders, Decided(x)
  PROVE  Dead(x)
BY DEF DispatchInv, OrderInv, Decided

LEMMA CalmOrders ==
  ASSUME TypeOK, TypeOK', TaskInv, DispatchInv, Calm, NEW x \in Orders
  PROVE  /\ OrderInv(x)' /\ (Dead(x) => Dead(x)')
         /\ Live(x) /\ ~Dead(x) => Live(x)'
<1>1. Grows(x) /\ (LiveChild(x)' => LiveChild(x)) /\ (child[x] = "none" => child'[x] = "none")
  BY DEF Calm, ChildrenCalm
<1>2. \A q \in Procs : task'[q] = task[q] \/ task'[q].pc # "launch"
  BY DEF Calm, Moved
<1>3. Dead(x) => Dead(x)'
  BY <1>1, <1>2, DeadStays DEF Dead, Grows
<1>4. OrderInv(x)
  BY DEF DispatchInv
<1>5. ~Out(x)' => child'[x] = "none"
  BY <1>1, <1>4 DEF Grows, OrderInv
<1>6. Decided(x)' => Dead(x)'
  <2>1. CASE Decided(x)
    BY <1>3, <2>1, DecidedDead
  <2>2. CASE Decided(x)' /\ Out(x)' /\ Quiet(x)
    BY <1>1, <1>2, <2>2 DEF Dead, Quiet, Launching
  <2> QED
    BY <1>1, <2>1, <2>2 DEF Grows
<1>7. Live(x) /\ ~Dead(x) => Live(x)'
  <2>1. ASSUME Live(x), ~Dead(x), ~Live(x)' PROVE FALSE
    <3>1. Out(x)' /\ row'[x] \in RowType
      BY <1>1, <2>1 DEF Live, Out, Grows, TypeOK
    <3>2. Decided(x)'
      BY <2>1, <3>1 DEF Live, Out, Decided, Closed, RowType, Dispatches
    <3>3. Decided(x) \/ Quiet(x)
      BY <1>1, <3>2 DEF Grows
    <3> QED
      BY <2>1, <3>3, DecidedDead DEF Dead, Quiet, Live, Out
  <2> QED
    BY <2>1
<1>8. ASSUME LiveChild(x)'
      PROVE  /\ Live(x)' /\ row'[x].claimant \in Procs /\ ~Quiescent(row[x].claimant)'
             /\ inst'[row'[x].claimant].alive
                  => task'[row'[x].claimant].pc = "wait" /\ task'[row'[x].claimant].ord = x
  <2> DEFINE c == row[x].claimant
  <2>1. LiveChild(x) /\ Live(x) /\ c \in Procs
    BY <1>1, <1>4, <1>8 DEF OrderInv
  <2>2. ~Dead(x) /\ Live(x)' /\ row'[x].claimant = c
    BY <1>1, <1>7, <2>1 DEF Dead, Grows, Live, Out
  <2>3. ~Quiescent(c)'
    BY <1>8 DEF Calm
  <2>4. ASSUME inst'[c].alive PROVE task'[c].pc = "wait" /\ task'[c].ord = x
    <3>1. task[c].pc = "wait" /\ task[c].ord = x
      BY <1>4, <2>1, <2>4 DEF Calm, OrderInv
    <3>2. ~Moved(c)
      BY <1>8, <2>4, <3>1 DEF Moved
    <3> QED
      BY <2>1, <3>1, <3>2 DEF Calm
  <2> QED
    BY <2>1, <2>2, <2>3, <2>4
<1>9. LiveChild(x)' => row'[x].claimant = row[x].claimant
  BY <1>1, <1>4 DEF Grows, OrderInv, Live, Out
<1>10. OrderInv(x)'
  BY <1>5, <1>6, <1>8, <1>9 DEF OrderInv, Decided, Quiescent
<1> QED
  BY <1>3, <1>7, <1>10

LEMMA CalmTasks ==
  ASSUME TypeOK, TypeOK', TaskInv, DispatchInv, Calm, NEW q \in Procs, task'[q].pc # "idle"
  PROVE  MemoryInv(q)' /\ StepInv(q)'
<1>1. CASE Moved(q)
  BY <1>1 DEF Moved
<1>2. CASE task'[q] = task[q]
  <2>0. PICK o \in Orders : o = task[q].ord
    BY <1>2 DEF TaskInv
  <2>1. MemoryInv(q) /\ StepInv(q)
    BY <1>2 DEF DispatchInv
  <2>2. Grows(o) /\ (child[o] = "none" => child'[o] = "none")
    BY <2>1 DEF Calm, ChildrenCalm
  <2>3. (Dead(o) => Dead(o)') /\ (Live(o) /\ ~Dead(o) => Live(o)')
    BY <2>1, CalmOrders
  <2>4. MemoryInv(q)'
    BY <1>2, <2>0, <2>1, <2>2 DEF MemoryInv, Grows
  <2>5. task[q].pc = "launch" => Live(o)' /\ row'[o].claimant = q /\ child'[o] = "none"
    BY <2>0, <2>1, <2>2, <2>3 DEF StepInv, Grows, Dead, Launching, Live, Out
  <2>6. task[q].pc = "wait" => Out(o)' /\ row'[o].claimant = q
    BY <2>0, <2>1, <2>2 DEF StepInv, Grows
  <2>7. StepInv(q)'
    BY <1>2, <2>0, <2>1, <2>3, <2>5, <2>6 DEF StepInv
  <2> QED
    BY <2>4, <2>7
<1> QED
  BY <1>1, <1>2 DEF Calm

\* A calm step keeps the invariant.
LEMMA CalmStep ==
  ASSUME TypeOK, TypeOK', TaskInv, DispatchInv, Calm
  PROVE  DispatchInv'
<1>1. \A x \in Orders : OrderInv(x)'
  BY CalmOrders
<1>2. \A q \in Procs : task'[q].pc # "idle" => MemoryInv(q)' /\ StepInv(q)'
  BY CalmTasks
<1>3. \A q \in Procs : Quiescent(q)' => ~inst'[q].alive
  BY DEF Calm
<1>4. \A x, y \in Orders : Live(x)' /\ Live(y)' => x = y
  <2>1. \A x \in Orders : Live(x)' => Live(x)
    BY DEF Calm, Grows
  <2> QED
    BY <2>1 DEF DispatchInv
<1> QED
  BY <1>1, <1>2, <1>3, <1>4 DEF DispatchInv

-----------------------------------------------------------------------------
(* A step of one task is calm when its row grows and it arrives well.      *)

\* What the compared columns say of two rows.
LEMMA CasFields ==
  ASSUME NEW a, NEW b, Cas(a) = Cas(b)
  PROVE  /\ a.dispatch = b.dispatch /\ a.claimant = b.claimant
         /\ a.outcome = b.outcome /\ a.response = b.response
BY DEF Cas

LEMMA SameGrows ==
  ASSUME NEW x \in Orders, Cas(row'[x]) = Cas(row[x])
  PROVE  Grows(x)
BY CasFields DEF Grows, Out, Closed, Decided, Live

LEMMA KeepGrows ==
  ASSUME RowsKeep
  PROVE  \A x \in Orders : Grows(x)
BY SameGrows DEF RowsKeep

LEMMA EffectInv ==
  ASSUME TypeOK, TaskInv, DispatchInv, NEW p \in Procs, NEW pc, NEW o, NEW seen,
         Effect(p, pc, o, seen), pc # "launch", \A x \in Orders : Grows(x),
         task[p].pc = "wait" => ~LiveChild(task[p].ord),
         pc # "idle" => MemoryInv(p)' /\ StepInv(p)'
  PROVE  DispatchInv'
<1>1. TypeOK' /\ Moves(p, pc, o, seen) /\ inst' = inst /\ child' = child
  BY DEF Effect
<1>2. ChildrenCalm
  BY <1>1 DEF ChildrenCalm, LiveChild
<1>3. \A q \in Procs : /\ inst'[q].alive => inst[q].alive
                       /\ Quiescent(q)' => ~inst'[q].alive
  BY <1>1 DEF DispatchInv, Quiescent
<1>4. \A x \in Orders : LiveChild(x)' => ~Quiescent(row[x].claimant)'
  <2>1. ASSUME NEW x \in Orders, LiveChild(x)'
        PROVE  ~Quiescent(row[x].claimant)'
    <3>1. LiveChild(x)
      BY <1>1, <2>1 DEF LiveChild
    <3>2. Live(x) /\ ~Quiescent(row[x].claimant)
      BY <3>1 DEF DispatchInv, OrderInv
    <3>3. row'[x].claimant = row[x].claimant
      BY <3>2 DEF Grows, Live, Out
    <3> QED
      BY <1>1, <3>2, <3>3 DEF Quiescent
  <2> QED
    BY <2>1
<1>5. Moved(p)
  BY <1>1 DEF Moved, Moves, LiveChild
<1>6. Calm
  BY <1>1, <1>2, <1>3, <1>4, <1>5 DEF Calm, Moves
<1> QED
  BY <1>1, <1>6, CalmStep

\* A dead order is still dead after a step of one task.
LEMMA EffectDead ==
  ASSUME NEW p \in Procs, NEW pc, NEW o, NEW seen, Effect(p, pc, o, seen), pc # "launch",
         NEW x \in Orders, Grows(x), Dead(x)
  PROVE  Dead(x)'
<1>1. Out(x)' /\ (LiveChild(x)' => LiveChild(x))
  BY DEF Effect, Grows, Dead, LiveChild
<1>2. \A q \in Procs : task'[q] = task[q] \/ task'[q].pc # "launch"
  BY DEF Effect, Moves
<1> QED
  BY <1>1, <1>2, DeadStays

\* Nothing remembered, the row just written, or what was remembered before.
LEMMA MemoryNone ==
  ASSUME NEW p \in Procs, NEW pc, NEW o, Moves(p, pc, o, Cas(Absent))
  PROVE  MemoryInv(p)'
BY DEF Moves, MemoryInv, Cas, Absent

LEMMA MemoryRow ==
  ASSUME NEW p \in Procs, NEW pc, NEW o \in Orders, Moves(p, pc, o, Cas(row'[o]))
  PROVE  MemoryInv(p)'
BY DEF Moves, MemoryInv, Cas, Out, Closed

LEMMA MemoryStays ==
  ASSUME NEW p \in Procs, NEW pc, NEW o \in Orders, o = task[p].ord,
         Moves(p, pc, o, task[p].seen), MemoryInv(p), Grows(o)
  PROVE  MemoryInv(p)'
BY DEF Moves, MemoryInv, Grows

\* Steps that ask nothing, and the steps that ask for a dead or an answered order.
LEMMA StepFree ==
  ASSUME NEW p \in Procs, NEW o, NEW seen,
         NEW pc \in {"snapshot", "begin", "mark", "read", "unanswered", "recover"},
         Moves(p, pc, o, seen)
  PROVE  StepInv(p)'
BY DEF Moves, StepInv

LEMMA StepDead ==
  ASSUME NEW p \in Procs, NEW o \in Orders, NEW seen,
         NEW pc \in {"terminalize", "rollback", "fill", "d-branch", "d-patch"},
         Moves(p, pc, o, seen), Dead(o)'
  PROVE  StepInv(p)'
BY DEF Moves, StepInv

LEMMA StepAnswered ==
  ASSUME NEW p \in Procs, NEW o, NEW seen, NEW pc \in {"list", "finished", "failed"},
         Moves(p, pc, o, seen), seen.response # None
  PROVE  StepInv(p)'
BY DEF Moves, StepInv

LEMMA EndedInv ==
  ASSUME TypeOK, TaskInv, DispatchInv, NEW p \in Procs, Ended(p), RowsKeep,
         task[p].pc = "wait" => ~LiveChild(task[p].ord)
  PROVE  DispatchInv'
<1>1. Effect(p, "idle", None, Cas(Absent))
  BY DEF Ended
<1> QED
  BY <1>1, EffectInv, KeepGrows

LEMMA FreshTaskInv ==
  ASSUME TypeOK, TaskInv, DispatchInv, NEW p \in Procs, NEW o, NEW pc \in {"snapshot", "read"},
         Effect(p, pc, o, Cas(Absent)), \A x \in Orders : Grows(x), task[p].pc # "wait"
  PROVE  DispatchInv'
<1>1. MemoryInv(p)' /\ StepInv(p)'
  BY MemoryNone, StepFree DEF Effect
<1> QED
  BY <1>1, EffectInv

LEMMA ForgetsInv ==
  ASSUME TypeOK, TaskInv, DispatchInv, NEW p \in Procs, Forgets(p, "read"), RowsKeep,
         task[p].pc # "wait"
  PROVE  DispatchInv'
BY FreshTaskInv, KeepGrows DEF Forgets

\* A task that goes on with what it knows to a step whose demand is met.
LEMMA RemembersInv ==
  ASSUME TypeOK, TaskInv, DispatchInv, NEW p \in Procs, Busy(p), NEW pc,
         Remembers(p, pc), RowsKeep, pc # "launch", task[p].pc # "wait", StepInv(p)'
  PROVE  DispatchInv'
<1>0. PICK o \in Orders : o = task[p].ord
  BY DEF Busy
<1>1. \A x \in Orders : Grows(x)
  BY KeepGrows
<1>2. Effect(p, pc, o, task[p].seen) /\ MemoryInv(p)
  BY <1>0 DEF Remembers, DispatchInv, Busy
<1>3. MemoryInv(p)'
  BY <1>0, <1>1, <1>2, MemoryStays DEF Effect
<1> QED
  BY <1>1, <1>2, <1>3, EffectInv

LEMMA ToDeadInv ==
  ASSUME TypeOK, TaskInv, DispatchInv, NEW p \in Procs, Busy(p),
         NEW pc \in {"terminalize", "rollback", "fill", "d-branch", "d-patch"},
         Remembers(p, pc), RowsKeep, task[p].pc # "wait", Dead(task[p].ord)
  PROVE  DispatchInv'
<1>0. PICK o \in Orders : o = task[p].ord
  BY DEF Busy
<1>1. Effect(p, pc, o, task[p].seen) /\ Grows(o) /\ Dead(o)
  BY <1>0, KeepGrows DEF Remembers
<1>2. Dead(o)'
  BY <1>1, EffectDead
<1>3. StepInv(p)'
  BY <1>1, <1>2, StepDead DEF Effect
<1> QED
  BY <1>3, RemembersInv

\* A step that closes the row of an order nobody can trade for.
LEMMA CloseInv ==
  ASSUME TypeOK, TaskInv, DispatchInv, NEW p \in Procs, Busy(p), Fresh(p),
         NEW d \in {"sealed", "not-started"}, NEW pc \in {"terminalize", "d-branch"},
         Writes(p, ClosedCas(p, d)), Effect(p, pc, task[p].ord, ClosedCas(p, d)),
         Quiet(task[p].ord)
  PROVE  DispatchInv'
<1>0. PICK o \in Orders : o = task[p].ord
  BY DEF Busy
<1>1. Cas(row'[o]) = ClosedCas(p, d)
  BY <1>0 DEF Writes
<1>2. /\ row'[o].dispatch = d /\ row'[o].claimant = row[o].claimant
      /\ row'[o].outcome = row[o].outcome /\ row'[o].response = row[o].response
  <2>1. ClosedCas(p, d) = [Cas(row[o]) EXCEPT !.dispatch = d]
    BY <1>0 DEF ClosedCas, Fresh, Mine
  <2> QED
    BY <1>1, <2>1 DEF Cas
<1>3. Grows(o)
  BY <1>0, <1>2 DEF Grows, Out, Closed, Decided, Live
<1>4. \A x \in Orders : Grows(x)
  BY <1>0, <1>3, SameGrows DEF Writes
<1>5. Effect(p, pc, o, Cas(row'[o]))
  BY <1>0, <1>1
<1>6. Dead(o)'
  <2>1. Out(o)'
    BY <1>2 DEF Out
  <2>2. Quiet(o)'
    BY <1>0, <1>5 DEF Quiet, Effect, Moves, Launching, LiveChild
  <2> QED
    BY <2>1, <2>2 DEF Dead, Quiet
<1>7. MemoryInv(p)' /\ StepInv(p)'
  BY <1>5, <1>6, MemoryRow, StepDead DEF Effect
<1> QED
  BY <1>0, <1>4, <1>5, <1>7, EffectInv DEF Quiet

\* A step that decides a dead order.
LEMMA DecideInv ==
  ASSUME TypeOK, TaskInv, DispatchInv, NEW p \in Procs, Busy(p),
         NEW outcome \in {"committed", "rolled-back"}, Forgets(p, "read"),
         RowsKeep \/ Writes(p, DecidedCas(p, outcome)), Dead(task[p].ord), task[p].pc # "wait"
  PROVE  DispatchInv'
<1>0. PICK o \in Orders : o = task[p].ord
  BY DEF Busy
<1>1. CASE RowsKeep
  BY <1>1, ForgetsInv
<1>2. CASE Writes(p, DecidedCas(p, outcome))
  <2>1. /\ row'[o].dispatch = row[o].dispatch /\ row'[o].claimant = row[o].claimant
        /\ row'[o].outcome = outcome /\ row'[o].response = row[o].response
    BY <1>0, <1>2 DEF Writes, DecidedCas, Cas
  <2>2. Grows(o)
    BY <1>0, <2>1 DEF Grows, Out, Closed, Decided, Live, Dead, Quiet
  <2>3. \A x \in Orders : Grows(x)
    BY <1>0, <1>2, <2>2, SameGrows DEF Writes
  <2> QED
    BY <1>0, <2>3, FreshTaskInv DEF Forgets
<1> QED
  BY <1>1, <1>2

-----------------------------------------------------------------------------
(* The claim and the launch: the two steps that make an order live.        *)

LEMMA ClaimInv ==
  ASSUME TypeOK, TaskInv, DispatchInv, NEW p \in Procs, Claim(p)
  PROVE  DispatchInv'
<1>0. PICK o \in Orders : o = task[p].ord
  BY AtBusy DEF Claim, Busy
<1>1. /\ TypeOK' /\ Moves(p, "launch", o, ClaimedCas(p)) /\ inst' = inst /\ child' = child
      /\ Cas(row'[o]) = ClaimedCas(p) /\ \A x \in Orders \ {o} : Cas(row'[x]) = Cas(row[x])
      /\ row[o].dispatch = "unclaimed" /\ row[o].outcome = "open" /\ ~OtherObligation(o)
  BY <1>0, ClaimEffect DEF Effect, Writes
<1>2. /\ row'[o].dispatch = "spawned" /\ row'[o].claimant = p
      /\ row'[o].outcome = "open" /\ row'[o].response = row[o].response
  BY <1>0, <1>1 DEF Cas, ClaimedCas
<1>3. ~Out(o) /\ ~Closed(o) /\ child[o] = "none" /\ row[o].response = None
  <2>1. ~Out(o) /\ ~Closed(o)
    BY <1>1 DEF Out, Closed
  <2>2. ~Dead(o) /\ OrderInv(o)
    BY <2>1 DEF Dead, DispatchInv
  <2> QED
    BY <2>1, <2>2 DEF OrderInv
<1>4. \A x \in Orders : ~Live(x) /\ ~LiveChild(x)
  <2>1. ASSUME NEW x \in Orders, Live(x) PROVE FALSE
    <3>1. x # o /\ Obligation(x)
      BY <1>1, <2>1 DEF Live, Obligation
    <3> QED
      BY <1>1, <3>1 DEF OtherObligation
  <2> QED
    BY <2>1 DEF DispatchInv, OrderInv
<1>5. \A x \in Orders \ {o} : /\ Out(x)' <=> Out(x)
                              /\ Closed(x)' <=> Closed(x)
                              /\ row'[x].response = row[x].response
                              /\ row'[x].outcome = row[x].outcome
                              /\ row'[x].claimant = row[x].claimant
                              /\ ~Live(x)'
  BY <1>1, <1>4, CasFields DEF Out, Closed, Live
<1>6. \A x \in Orders : Dead(x) => x # o /\ Dead(x)'
  <2>1. ASSUME NEW x \in Orders, Dead(x) PROVE x # o /\ Dead(x)'
    <3>1. x # o
      BY <1>3, <2>1 DEF Dead
    <3>2. Out(x)' /\ ~LiveChild(x)'
      BY <1>1, <1>4, <1>5, <2>1, <3>1 DEF Dead, LiveChild
    <3>3. \A q \in Procs : ~Launching(q, x)'
      BY <1>1, <2>1, <3>1 DEF Dead, Launching, Moves
    <3> QED
      BY <3>1, <3>2, <3>3 DEF Dead
  <2> QED
    BY <2>1
<1>7. \A x \in Orders : OrderInv(x)'
  <2>1. ASSUME NEW x \in Orders PROVE OrderInv(x)'
    <3>1. ~LiveChild(x)' /\ OrderInv(x)
      BY <1>1, <1>4 DEF LiveChild, DispatchInv
    <3>2. CASE x = o
      BY <1>2, <1>3, <3>1, <3>2 DEF OrderInv, Out, Closed
    <3>3. CASE x # o
      BY <1>1, <1>5, <1>6, <3>1, <3>3 DEF OrderInv
    <3> QED
      BY <3>2, <3>3
  <2> QED
    BY <2>1
<1>8. ASSUME NEW q \in Procs, task'[q].pc # "idle" PROVE MemoryInv(q)' /\ StepInv(q)'
  <2>1. CASE q = p
    <3>1. MemoryInv(p)'
      BY <1>1, MemoryRow
    <3>2. StepInv(p)'
      BY <1>0, <1>1, <1>2, <1>3 DEF StepInv, Moves, Live
    <3> QED
      BY <2>1, <3>1, <3>2
  <2>2. CASE q # p
    <3>1. task'[q] = task[q]
      BY <1>1, <2>2 DEF Moves
    <3>2. PICK x \in Orders : x = task[q].ord
      BY <1>8, <3>1 DEF TaskInv
    <3>3. MemoryInv(q) /\ StepInv(q)
      BY <1>8, <3>1 DEF DispatchInv
    <3>4. MemoryInv(q)'
      BY <1>3, <1>5, <3>1, <3>2, <3>3 DEF MemoryInv
    <3>5. StepInv(q)'
      BY <1>3, <1>4, <1>5, <1>6, <3>1, <3>2, <3>3 DEF StepInv
    <3> QED
      BY <3>4, <3>5
  <2> QED
    BY <2>1, <2>2
<1>9. \A q \in Procs : Quiescent(q)' => ~inst'[q].alive
  BY <1>1 DEF DispatchInv, Quiescent
<1>10. \A x, y \in Orders : Live(x)' /\ Live(y)' => x = y
  BY <1>5
<1> QED
  BY <1>7, <1>8, <1>9, <1>10 DEF DispatchInv

LEMMA LaunchInv ==
  ASSUME TypeOK, TaskInv, DispatchInv, NEW p \in Procs, Launch(p)
  PROVE  DispatchInv'
<1>0. PICK o \in Orders : o = task[p].ord
  BY AtBusy DEF Launch, Busy
<1>1. /\ TypeOK' /\ Moves(p, "wait", o, task[p].seen) /\ row' = row /\ inst' = inst
      /\ child' = [child EXCEPT ![o] = "starting"] /\ task[p].pc = "launch" /\ inst[p].alive
  BY <1>0, LaunchEffect, AtBusy DEF Launch
<1>2. Live(o) /\ row[o].claimant = p /\ child[o] = "none" /\ Launching(p, o) /\ ~Dead(o)
      /\ MemoryInv(p)
  BY <1>0, <1>1 DEF DispatchInv, StepInv, Launching, Dead
<1>3. \A x \in Orders : Live(x) => x = o
  BY <1>2 DEF DispatchInv
<1>4. \A x \in Orders : ~LiveChild(x)
  BY <1>2, <1>3 DEF DispatchInv, OrderInv, LiveChild
<1>5. \A x \in Orders \ {o} : child'[x] = child[x]
  BY <1>1 DEF TypeOK
<1>6. \A x \in Orders : Dead(x) => x # o /\ Dead(x)'
  <2>1. ASSUME NEW x \in Orders, Dead(x) PROVE x # o /\ Dead(x)'
    <3>1. x # o
      BY <1>2, <2>1
    <3>2. Out(x)' /\ ~LiveChild(x)'
      BY <1>1, <1>5, <2>1, <3>1 DEF Dead, LiveChild, Out
    <3>3. \A q \in Procs : task'[q] = task[q] \/ task'[q].pc # "launch"
      BY <1>1 DEF Moves
    <3> QED
      BY <2>1, <3>1, <3>2, <3>3, DeadStays
  <2> QED
    BY <2>1
<1>7. \A x \in Orders : OrderInv(x)'
  <2>1. ASSUME NEW x \in Orders PROVE OrderInv(x)'
    <3>1. OrderInv(x)
      BY DEF DispatchInv
    <3>2. CASE x = o
      <4>1. Out(o)' /\ Live(o)' /\ row'[o].claimant = p
        BY <1>1, <1>2 DEF Out, Live
      <4>2. ~(row[o].response # None \/ row[o].outcome # "open" \/ Closed(o))'
        BY <1>1, <1>2, <3>1, <3>2 DEF OrderInv, Closed
      <4>3. ~Quiescent(p)' /\ task'[p].pc = "wait" /\ task'[p].ord = o
        BY <1>1 DEF DispatchInv, Quiescent, Moves
      <4>4. ~Quiescent(row[o].claimant)'
        BY <4>1, <4>3 DEF Quiescent
      <4> QED
        BY <3>2, <4>1, <4>2, <4>3, <4>4 DEF OrderInv, Quiescent
    <3>3. CASE x # o
      <4>1. ~LiveChild(x)' /\ child'[x] = child[x]
        BY <1>4, <1>5, <3>3 DEF LiveChild
      <4> QED
        BY <1>1, <1>6, <3>1, <4>1 DEF OrderInv, Out, Closed
    <3> QED
      BY <3>2, <3>3
  <2> QED
    BY <2>1
<1>8. ASSUME NEW q \in Procs, task'[q].pc # "idle" PROVE MemoryInv(q)' /\ StepInv(q)'
  <2>1. CASE q = p
    <3>1. MemoryInv(p)'
      BY <1>0, <1>1, <1>2 DEF MemoryInv, Moves, Out, Closed
    <3>2. StepInv(p)'
      BY <1>1, <1>2 DEF StepInv, Moves, Live, Out
    <3> QED
      BY <2>1, <3>1, <3>2
  <2>2. CASE q # p
    <3>1. task'[q] = task[q]
      BY <1>1, <2>2 DEF Moves
    <3>2. PICK x \in Orders : x = task[q].ord
      BY <1>8, <3>1 DEF TaskInv
    <3>3. MemoryInv(q) /\ StepInv(q)
      BY <1>8, <3>1 DEF DispatchInv
    <3>4. MemoryInv(q)'
      BY <1>1, <3>1, <3>2, <3>3 DEF MemoryInv, Out, Closed
    <3>5. task[q].pc # "launch"
      BY <1>2, <1>3, <2>2, <3>2, <3>3 DEF StepInv
    <3>6. StepInv(q)'
      BY <1>1, <1>6, <3>1, <3>2, <3>3, <3>5 DEF StepInv, Out
    <3> QED
      BY <3>4, <3>6
  <2> QED
    BY <2>1, <2>2
<1>9. \A q \in Procs : Quiescent(q)' => ~inst'[q].alive
  BY <1>1 DEF DispatchInv, Quiescent
<1>10. \A x, y \in Orders : Live(x)' /\ Live(y)' => x = y
  BY <1>1 DEF DispatchInv, Live
<1> QED
  BY <1>7, <1>8, <1>9, <1>10 DEF DispatchInv

-----------------------------------------------------------------------------
(* Every step keeps DispatchInv.                                           *)

\* What DispatchInv says of the busy task at hand.
LEMMA AtInv ==
  ASSUME TaskInv, DispatchInv, NEW p \in Procs, NEW pc, At(p, pc), pc # "idle"
  PROVE  Busy(p) /\ MemoryInv(p) /\ StepInv(p) /\ task[p].pc = pc
BY AtBusy DEF DispatchInv

LEMMA BeginInv ==
  ASSUME TypeOK, TaskInv, DispatchInv, NEW p \in Procs, Begin(p)
  PROVE  DispatchInv'
<1>0. PICK o \in Orders : o = task[p].ord
  BY AtBusy DEF Begin, Busy
<1>1. /\ Effect(p, "quote", o, BegunCas) /\ Writes(p, BegunCas)
      /\ row[o].dispatch = "absent" /\ task[p].pc = "begin"
  BY <1>0, BeginEffect DEF Begin, At
<1>2. Cas(row'[o]) = BegunCas
  BY <1>0, <1>1 DEF Writes
<1>3. row'[o].dispatch = "unclaimed" /\ row'[o].outcome = "open" /\ row'[o].response = None
  BY <1>2 DEF Cas, BegunCas
<1>4. row[o].response = None
  <2>1. ~Out(o)
    BY <1>1 DEF Out
  <2> QED
    BY <2>1 DEF DispatchInv, OrderInv, Dead
<1>5. Grows(o)
  BY <1>1, <1>3, <1>4 DEF Grows, Out, Closed, Decided, Live
<1>6. \A x \in Orders : Grows(x)
  BY <1>0, <1>1, <1>5, SameGrows DEF Writes
<1>7. MemoryInv(p)'
  BY <1>1, <1>2, MemoryRow DEF Effect
<1>8. StepInv(p)'
  BY <1>1 DEF StepInv, Effect, Moves, BegunCas
<1> QED
  BY <1>1, <1>6, <1>7, <1>8, EffectInv

LEMMA RecordInv ==
  ASSUME TypeOK, TaskInv, DispatchInv, NEW p \in Procs, Record(p)
  PROVE  DispatchInv'
<1>0. Busy(p) /\ StepInv(p) /\ task[p].pc = "wait" /\ child[task[p].ord] \in Answers \cup {"refused"}
  BY AtInv DEF Record
<1>1. PICK o \in Orders : o = task[p].ord
  BY <1>0 DEF Busy
<1>2. ~LiveChild(o) /\ Out(o) /\ Quiet(o)
  <2>1. ~LiveChild(o) /\ Out(o) /\ row[o].claimant = p
    BY <1>0, <1>1 DEF LiveChild, Answers, StepInv
  <2>2. ASSUME NEW q \in Procs, Launching(q, o) PROVE FALSE
    <3>1. row[o].claimant = q
      BY <2>2 DEF DispatchInv, StepInv, Launching
    <3> QED
      BY <1>0, <2>1, <2>2, <3>1 DEF Launching
  <2> QED
    BY <2>1, <2>2 DEF Quiet
<1>3. CASE Ended(p) /\ RowsKeep
  BY <1>1, <1>2, <1>3, EndedInv
<1>4. CASE /\ Fresh(p) /\ Writes(p, ClosedCas(p, "not-started"))
           /\ Effect(p, "terminalize", task[p].ord, ClosedCas(p, "not-started"))
  BY <1>0, <1>1, <1>2, <1>4, CloseInv
<1>5. CASE /\ Fresh(p) /\ Writes(p, AnsweredCas(p)) /\ child[task[p].ord] \in Answers
           /\ Effect(p, "mark", task[p].ord, AnsweredCas(p))
  <2>1. Cas(row'[o]) = AnsweredCas(p)
    BY <1>1, <1>5 DEF Writes
  <2>2. /\ row'[o].dispatch = row[o].dispatch /\ row'[o].claimant = row[o].claimant
        /\ row'[o].outcome = row[o].outcome /\ row'[o].response = child[o]
    <3>1. AnsweredCas(p) = [Cas(row[o]) EXCEPT !.response = child[o]]
      BY <1>1, <1>5 DEF AnsweredCas, Fresh, Mine
    <3> QED
      BY <2>1, <3>1 DEF Cas
  <2>3. child[o] # None
    BY <1>1, <1>5, DispatchAssumption
  <2>4. Grows(o)
    BY <1>2, <2>2, <2>3 DEF Grows, Out, Closed, Decided, Live
  <2>5. \A x \in Orders : Grows(x)
    BY <1>1, <1>5, <2>4, SameGrows DEF Writes
  <2>6. MemoryInv(p)' /\ StepInv(p)'
    BY <1>1, <1>5, <2>1, MemoryRow, StepFree DEF Effect
  <2> QED
    BY <1>1, <1>2, <1>5, <2>5, <2>6, EffectInv
<1> QED
  BY <1>3, <1>4, <1>5, RecordEffect

LEMMA ExecuteInv ==
  ASSUME TypeOK, TaskInv, DispatchInv, NEW p \in Procs, Execute(p)
  PROVE  DispatchInv'
<1>1. ASSUME NEW o \in Orders, StartExecute(p, o) PROVE DispatchInv'
  <2>1. Effect(p, "snapshot", o, Cas(Absent)) /\ RowsKeep /\ task[p].pc = "idle"
    BY <1>1, StartEffect DEF StartExecute, Pcs, At
  <2> QED
    BY <2>1, FreshTaskInv, KeepGrows
<1>2. CASE Snapshot(p)
  <2>1. Busy(p) /\ task[p].pc = "snapshot"
    BY <1>2, AtInv DEF Snapshot
  <2>2. Remembers(p, "begin") /\ RowsKeep
    BY <1>2, SnapshotEffect
  <2>3. StepInv(p)'
    BY <2>2, StepFree DEF Remembers, Effect
  <2> QED
    BY <2>1, <2>2, <2>3, RemembersInv
<1>3. CASE Begin(p)
  BY <1>3, BeginInv
<1>4. CASE Deny(p)
  BY <1>4, DenyEffect, EndedInv DEF Deny, At
<1>5. CASE Quote(p)
  <2>1. Busy(p) /\ task[p].pc = "quote" /\ StepInv(p)
    BY <1>5, AtInv DEF Quote
  <2>2. CASE Ended(p) /\ RowsKeep
    BY <2>1, <2>2, EndedInv
  <2>3. CASE Remembers(p, "claim") /\ RowsKeep
    <3>1. StepInv(p)'
      BY <2>1, <2>3 DEF Remembers, Effect, Moves, StepInv
    <3> QED
      BY <2>1, <2>3, <3>1, RemembersInv
  <2> QED
    BY <1>5, <2>2, <2>3, QuoteEffect
<1>6. CASE Refuse(p)
  <2>1. /\ Busy(p) /\ StepInv(p) /\ task[p].pc \in {"quote", "claim", "launch"}
    BY <1>6, AtInv DEF Refuse
  <2>2. Remembers(p, "seal") /\ RowsKeep
    BY <1>6, RefuseEffect
  <2>3. PICK o \in Orders : o = task[p].ord
    BY <2>1 DEF Busy
  <2>4. Effect(p, "seal", o, task[p].seen)
    BY <2>2, <2>3 DEF Remembers
  <2>5. task[p].pc = "launch" => Dead(o)'
    <3>1. ASSUME task[p].pc = "launch" PROVE Dead(o)'
      <4>1. Live(o) /\ row[o].claimant = p /\ child[o] = "none"
        BY <2>1, <2>3, <3>1 DEF StepInv
      <4>2. Out(o)' /\ ~LiveChild(o)'
        BY <2>2, <2>4, <4>1, KeepGrows DEF Grows, Effect, LiveChild, Live, Out
      <4>3. ASSUME NEW q \in Procs, Launching(q, o)' PROVE FALSE
        <5>1. q # p /\ Launching(q, o)
          BY <2>4, <4>3 DEF Launching, Effect, Moves
        <5>2. row[o].claimant = q
          BY <5>1 DEF DispatchInv, StepInv, Launching
        <5> QED
          BY <4>1, <5>1, <5>2
      <4> QED
        BY <4>2, <4>3 DEF Dead
    <3> QED
      BY <3>1
  <2>6. StepInv(p)'
    BY <2>1, <2>4, <2>5 DEF Effect, Moves, StepInv
  <2> QED
    BY <2>1, <2>2, <2>6, RemembersInv
<1>7. CASE Seal(p)
  <2>1. Busy(p) /\ task[p].pc = "seal" /\ StepInv(p)
    BY <1>7, AtInv DEF Seal
  <2>2. CASE Ended(p) /\ RowsKeep
    BY <2>1, <2>2, EndedInv
  <2>3. CASE /\ Fresh(p) /\ Writes(p, ClosedCas(p, "sealed"))
             /\ Effect(p, "terminalize", task[p].ord, ClosedCas(p, "sealed"))
    <3>1. PICK o \in Orders : o = task[p].ord
      BY <2>1 DEF Busy
    <3>2. row[o].dispatch = task[p].seen.dispatch
      BY <2>3, <3>1 DEF Fresh, Mine, Cas
    <3>3. Quiet(o)
      <4>1. CASE task[p].seen.dispatch = "spawned"
        BY <2>1, <3>1, <4>1 DEF StepInv, Dead, Quiet
      <4>2. CASE task[p].seen.dispatch # "spawned"
        BY <3>2, <4>2, NotLiveQuiet DEF Live
      <4> QED
        BY <4>1, <4>2
    <3> QED
      BY <2>1, <2>3, <3>1, <3>3, CloseInv
  <2> QED
    BY <1>7, <2>2, <2>3, SealEffect
<1>8. CASE Claim(p)
  BY <1>8, ClaimInv
<1>9. CASE Launch(p)
  BY <1>9, LaunchInv
<1>10. CASE Record(p)
  BY <1>10, RecordInv
<1>11. CASE Mark(p)
  <2>1. task[p].pc = "mark"
    BY <1>11 DEF Mark, At
  <2> QED
    BY <1>11, <2>1, MarkEffect, EndedInv, ForgetsInv
<1> QED
  BY <1>1, <1>2, <1>3, <1>4, <1>5, <1>6, <1>7, <1>8, <1>9, <1>10, <1>11 DEF Execute

\* A remembered response is the row's: the order is dead.
LEMMA AnsweredDead ==
  ASSUME TaskInv, DispatchInv, NEW p \in Procs, Busy(p), task[p].seen.response # None
  PROVE  Dead(task[p].ord)
<1>1. PICK o \in Orders : o = task[p].ord
  BY DEF Busy
<1>2. row[o].response # None
  BY <1>1 DEF Busy, DispatchInv, MemoryInv
<1> QED
  BY <1>1, <1>2, DecidedDead DEF Decided

LEMMA ReadInv ==
  ASSUME TypeOK, TaskInv, DispatchInv, NEW p \in Procs, Read(p)
  PROVE  DispatchInv'
<1>0. PICK o \in Orders : o = task[p].ord
  BY AtBusy DEF Read, Busy
<1> DEFINE pc == NextOf(row[o], jr[o])
<1>1. Effect(p, pc, o, Cas(row[o])) /\ RowsKeep /\ task[p].pc = "read"
  BY <1>0, ReadEffect DEF Read, At
<1>2. /\ pc \in {"seal", "terminalize", "read", "recover", "unanswered", "list"}
      /\ pc = "seal" => row[o].dispatch = "unclaimed"
      /\ pc = "terminalize" => Closed(o)
      /\ pc = "list" => row[o].response \in Answers
  BY DEF NextOf, Closed, Answers
<1> HIDE DEF pc
<1>3. \A x \in Orders : Grows(x)
  BY <1>1, KeepGrows
<1>4. Cas(row'[o]) = Cas(row[o])
  BY <1>1 DEF RowsKeep
<1>5. MemoryInv(p)'
  BY <1>1, <1>4, MemoryRow DEF Effect
<1>6. StepInv(p)'
  <2>1. CASE pc = "seal"
    BY <1>1, <1>2, <2>1 DEF Effect, Moves, StepInv, Cas
  <2>2. CASE pc = "terminalize"
    <3>1. Dead(o)
      BY <1>2, <2>2, DecidedDead DEF Decided
    <3>2. Dead(o)'
      BY <1>1, <1>3, <2>2, <3>1, EffectDead
    <3> QED
      BY <1>1, <2>2, <3>2, StepDead DEF Effect
  <2>3. CASE pc = "list"
    <3>1. Cas(row[o]).response # None
      BY <1>2, <2>3, DispatchAssumption DEF Cas
    <3> QED
      BY <1>1, <2>3, <3>1, StepAnswered DEF Effect
  <2>4. CASE pc \in {"read", "recover", "unanswered"}
    BY <1>1, <2>4, StepFree DEF Effect
  <2> QED
    BY <1>2, <2>1, <2>2, <2>3, <2>4
<1>7. pc # "launch"
  BY <1>2
<1> QED
  BY <1>1, <1>3, <1>5, <1>6, <1>7, EffectInv

LEMMA ResolveInv ==
  ASSUME TypeOK, TaskInv, DispatchInv, NEW p \in Procs, Resolve(p)
  PROVE  DispatchInv'
<1>1. ASSUME NEW o \in Orders, StartResolve(p, o) PROVE DispatchInv'
  <2>1. Effect(p, "read", o, Cas(Absent)) /\ RowsKeep /\ task[p].pc = "idle"
    BY <1>1, StartEffect DEF StartResolve, Pcs, At
  <2> QED
    BY <2>1, FreshTaskInv, KeepGrows
<1>2. CASE Read(p)
  BY <1>2, ReadInv
<1>3. CASE Leave(p)
  BY <1>3, LeaveEffect, EndedInv DEF Leave, At
<1>4. CASE Unanswered(p)
  BY <1>4, UnansweredEffect, ForgetsInv DEF Unanswered, At
<1>5. CASE Terminalize(p)
  <2>1. Busy(p) /\ task[p].pc = "terminalize" /\ Dead(task[p].ord)
    BY <1>5, AtInv DEF Terminalize, StepInv
  <2> QED
    BY <1>5, <2>1, TerminalizeEffect, ForgetsInv, ToDeadInv
<1>6. CASE Rollback(p)
  <2>1. Busy(p) /\ task[p].pc = "rollback" /\ Dead(task[p].ord)
    BY <1>6, AtInv DEF Rollback, StepInv
  <2> QED
    BY <1>6, <2>1, RollbackEffect, DecideInv
<1>7. CASE CompleteFill(p)
  <2>1. Busy(p) /\ task[p].pc = "fill" /\ Dead(task[p].ord)
    BY <1>7, AtInv DEF CompleteFill, StepInv
  <2> QED
    BY <1>7, <2>1, CompleteFillEffect, DecideInv
<1>8. CASE Recover(p)
  <2>1. Busy(p) /\ task[p].pc = "recover"
    BY <1>8, AtInv DEF Recover
  <2>2. CASE Remembers(p, "fill") /\ RowsKeep /\ task[p].seen.response \in Answers
    <3>1. Dead(task[p].ord)
      BY <2>1, <2>2, AnsweredDead, DispatchAssumption
    <3> QED
      BY <2>1, <2>2, <3>1, ToDeadInv
  <2> QED
    BY <1>8, <2>1, <2>2, RecoverEffect, ForgetsInv
<1>9. CASE ListRows(p)
  <2>1. Busy(p) /\ task[p].pc = "list" /\ task[p].seen.response # None
    BY <1>9, AtInv DEF ListRows, StepInv
  <2>2. ASSUME NEW pc \in {"finished", "failed"}, Remembers(p, pc), RowsKeep
        PROVE  DispatchInv'
    <3>1. StepInv(p)'
      BY <2>1, <2>2, StepAnswered DEF Remembers, Effect
    <3> QED
      BY <2>1, <2>2, <3>1, RemembersInv
  <2> QED
    BY <1>9, <2>1, <2>2, ListRowsEffect, ForgetsInv
<1>10. CASE Finished(p)
  <2>1. Busy(p) /\ task[p].pc = "finished" /\ Dead(task[p].ord)
    BY <1>10, AtInv, AnsweredDead DEF Finished, StepInv
  <2> QED
    BY <1>10, <2>1, FinishedEffect, ForgetsInv, EndedInv, ToDeadInv
<1>11. CASE FailedRow(p)
  <2>1. Busy(p) /\ task[p].pc = "failed" /\ Dead(task[p].ord)
    BY <1>11, AtInv, AnsweredDead DEF FailedRow, StepInv
  <2> QED
    BY <1>11, <2>1, FailedRowEffect, ForgetsInv, EndedInv, ToDeadInv
<1> QED
  BY <1>1, <1>2, <1>3, <1>4, <1>5, <1>6, <1>7, <1>8, <1>9, <1>10, <1>11 DEF Resolve

\* After the quiescence rule the order of a dispose is dead, or never claimed.
LEMMA DisposeQuietInv ==
  ASSUME TypeOK, TypeOK', TaskInv, DispatchInv, NEW p \in Procs, DisposeQuiet(p)
  PROVE  DispatchInv'
<1>0. Busy(p) /\ MemoryInv(p) /\ StepInv(p) /\ task[p].pc = "d-quiet"
  BY AtInv DEF DisposeQuiet
<1>1. PICK o \in Orders : o = task[p].ord
  BY <1>0 DEF Busy
<1>2. /\ RowsKeep /\ child' = child
      /\ \A q \in Procs : inst'[q].alive = inst[q].alive /\ (Quiescent(q)' <=> Quiescent(q))
      /\ \/ Moves(p, "idle", None, Cas(Absent))
         \/ /\ Moves(p, "d-seal", o, task[p].seen)
            /\ task[p].seen.dispatch = "spawned" /\ task[p].seen.response = None
                 => Quiescent(task[p].seen.claimant)
  BY <1>1, DisposeQuietEffect
<1>3. \A x \in Orders : Grows(x)
  BY <1>2, KeepGrows
<1>4. ChildrenCalm
  BY <1>2 DEF ChildrenCalm, LiveChild
<1>5. \A x \in Orders : LiveChild(x)' => ~Quiescent(row[x].claimant)'
  <2>1. ASSUME NEW x \in Orders, LiveChild(x)'
        PROVE  ~Quiescent(row[x].claimant)'
    <3>1. LiveChild(x)
      BY <1>2, <2>1 DEF LiveChild
    <3>2. row[x].claimant \in Procs /\ ~Quiescent(row[x].claimant)
      BY <3>1 DEF DispatchInv, OrderInv
    <3>3. row'[x].claimant = row[x].claimant
      BY <1>2, CasFields DEF RowsKeep
    <3>4. PICK c \in Procs : c = row[x].claimant
      BY <3>2
    <3>5. ~Quiescent(c)'
      BY <1>2, <3>2, <3>4
    <3> QED
      BY <3>3, <3>4, <3>5 DEF Quiescent
  <2> QED
    BY <2>1
<1>6. Moved(p)
  <2>1. CASE Moves(p, "idle", None, Cas(Absent))
    BY <1>0, <2>1 DEF Moved, Moves
  <2>2. CASE /\ Moves(p, "d-seal", o, task[p].seen)
             /\ task[p].seen.dispatch = "spawned" /\ task[p].seen.response = None
                  => Quiescent(task[p].seen.claimant)
    <3> DEFINE seen == task[p].seen
    <3>1. seen.dispatch # "absent" /\ seen.dispatch \in Dispatches
      BY <1>0 DEF StepInv, TypeOK, TaskType, CasType
    <3>2. seen.dispatch # "unclaimed" => Dead(o)
      <4>1. CASE seen.response # None
        BY <1>0, <1>1, <4>1, AnsweredDead
      <4>2. CASE seen.dispatch \in {"sealed", "not-started"}
        BY <1>0, <1>1, <4>2, DecidedDead DEF MemoryInv, Decided
      <4>3. CASE seen.dispatch = "spawned" /\ seen.response = None
        <5>1. Out(o) /\ row[o].claimant = seen.claimant /\ Quiescent(seen.claimant)
          BY <1>0, <1>1, <2>2, <4>3 DEF MemoryInv
        <5>2. ~LiveChild(o)
          BY <5>1 DEF DispatchInv, OrderInv
        <5>3. ASSUME NEW q \in Procs, Launching(q, o) PROVE FALSE
          <6>1. row[o].claimant = q /\ inst[q].alive
            BY <5>3 DEF DispatchInv, StepInv, Launching, TaskInv
          <6> QED
            BY <5>1, <6>1 DEF DispatchInv
        <5> QED
          BY <5>1, <5>2, <5>3 DEF Dead
      <4> QED
        BY <3>1, <4>1, <4>2, <4>3 DEF Dispatches
    <3>3. Dead(o) => Dead(o)'
      <4>1. \A q \in Procs : task'[q] = task[q] \/ task'[q].pc # "launch"
        BY <2>2 DEF Moves
      <4> QED
        BY <1>2, <1>3, <4>1, DeadStays DEF Grows, Dead, LiveChild
    <3>4. MemoryInv(p)'
      BY <1>0, <1>1, <1>3, <2>2, MemoryStays
    <3>5. StepInv(p)'
      BY <2>2, <3>1, <3>2, <3>3 DEF StepInv, Moves
    <3> QED
      BY <1>0, <2>2, <3>4, <3>5 DEF Moved, Moves
  <2> QED
    BY <1>2, <2>1, <2>2
<1>7. \A q \in Procs : task'[q] = task[q] \/ Moved(q)
  BY <1>2, <1>6 DEF Moves
<1>8. Calm
  BY <1>2, <1>3, <1>4, <1>5, <1>7 DEF Calm, DispatchInv
<1> QED
  BY <1>8, CalmStep

LEMMA DisposeInv ==
  ASSUME TypeOK, TaskInv, DispatchInv, NEW p \in Procs, Dispose(p)
  PROVE  DispatchInv'
<1>1. ASSUME NEW o \in Orders, DisposeRead(p, o) PROVE DispatchInv'
  <2>1. /\ Effect(p, "d-fence", o, Cas(row[o])) /\ RowsKeep /\ Obligation(o)
        /\ task[p].pc = "idle"
    BY <1>1, DisposeReadEffect DEF DisposeRead, At
  <2>2. Cas(row'[o]) = Cas(row[o])
    BY <2>1 DEF RowsKeep
  <2>3. MemoryInv(p)'
    BY <2>1, <2>2, MemoryRow DEF Effect
  <2>4. StepInv(p)'
    BY <2>1 DEF Effect, Moves, StepInv, Obligation, Cas
  <2> QED
    BY <2>1, <2>3, <2>4, KeepGrows, EffectInv
<1>2. CASE DisposeFence(p)
  <2>1. Busy(p) /\ task[p].pc = "d-fence" /\ task[p].seen.dispatch # "absent"
    BY <1>2, AtInv DEF DisposeFence, StepInv
  <2>2. Remembers(p, "d-quiet") /\ RowsKeep
    BY <1>2, DisposeFenceEffect
  <2>3. StepInv(p)'
    BY <2>1, <2>2 DEF Remembers, Effect, Moves, StepInv
  <2> QED
    BY <2>1, <2>2, <2>3, RemembersInv
<1>3. CASE DisposeQuiet(p)
  <2>1. TypeOK'
    BY <1>3, DisposeQuietEffect
  <2> QED
    BY <1>3, <2>1, DisposeQuietInv
<1>4. CASE DisposeSeal(p)
  <2>1. Busy(p) /\ task[p].pc = "d-seal" /\ StepInv(p)
    BY <1>4, AtInv DEF DisposeSeal
  <2>2. CASE Ended(p) /\ RowsKeep
    BY <2>1, <2>2, EndedInv
  <2>3. CASE Remembers(p, "d-branch") /\ RowsKeep /\ task[p].seen.dispatch # "unclaimed"
    <3>1. Dead(task[p].ord)
      BY <2>1, <2>3 DEF StepInv
    <3> QED
      BY <2>1, <2>3, <3>1, ToDeadInv
  <2>4. CASE /\ Fresh(p) /\ Writes(p, ClosedCas(p, "sealed"))
             /\ Effect(p, "d-branch", task[p].ord, ClosedCas(p, "sealed"))
             /\ task[p].seen.dispatch = "unclaimed"
    <3>1. PICK o \in Orders : o = task[p].ord
      BY <2>1 DEF Busy
    <3>2. ~Live(o)
      BY <2>4, <3>1 DEF Fresh, Mine, Cas, Live
    <3>3. Quiet(o)
      BY <3>2, NotLiveQuiet
    <3> QED
      BY <2>1, <2>4, <3>1, <3>3, CloseInv
  <2> QED
    BY <1>4, <2>2, <2>3, <2>4, DisposeSealEffect
<1>5. CASE DisposeRollback(p)
  <2>1. Busy(p) /\ task[p].pc = "d-branch" /\ Dead(task[p].ord)
    BY <1>5, AtInv DEF DisposeRollback, StepInv
  <2> QED
    BY <1>5, <2>1, DisposeRollbackEffect, EndedInv, ToDeadInv
<1>6. CASE DisposePatch(p)
  <2>1. Busy(p) /\ task[p].pc = "d-patch" /\ Dead(task[p].ord)
    BY <1>6, AtInv DEF DisposePatch, StepInv
  <2> QED
    BY <1>6, <2>1, DisposePatchEffect, DecideInv
<1>7. CASE DisposeCommit(p)
  <2>1. Busy(p) /\ task[p].pc = "d-branch" /\ Dead(task[p].ord)
    BY <1>7, AtInv DEF DisposeCommit, StepInv
  <2> QED
    BY <1>7, <2>1, DisposeCommitEffect, EndedInv, ToDeadInv
<1> QED
  BY <1>1, <1>2, <1>3, <1>4, <1>5, <1>6, <1>7 DEF Dispose

-----------------------------------------------------------------------------
(* Steps of the world: processes, children, quotes.                        *)

\* Processes end and children stop; nobody's row or remaining task changes.
LEMMA EndsInv ==
  ASSUME TypeOK, TypeOK', TaskInv, DispatchInv, row' = row, ChildrenCalm,
         \A q \in Procs : /\ inst'[q].alive => inst[q].alive
                          /\ Quiescent(q)' => ~inst'[q].alive,
         \A x \in Orders, q \in Procs :
           LiveChild(x)' /\ row[x].claimant = q => ~Quiescent(q)',
         \A q \in Procs :
           task'[q] = task[q] \/ (task'[q].pc = "idle" /\ ~inst'[q].alive)
  PROVE  DispatchInv'
<1>1. \A x \in Orders : Grows(x)
  BY DEF Grows, Out, Closed, Decided, Live
<1>2. \A x \in Orders : LiveChild(x)' => ~Quiescent(row[x].claimant)'
  <2>1. ASSUME NEW x \in Orders, LiveChild(x)'
        PROVE  ~Quiescent(row[x].claimant)'
    <3>1. LiveChild(x)
      BY <2>1 DEF ChildrenCalm
    <3>2. PICK c \in Procs : c = row[x].claimant
      BY <3>1 DEF DispatchInv, OrderInv
    <3>3. ~Quiescent(c)'
      BY <2>1, <3>2
    <3> QED
      BY <3>2, <3>3 DEF Quiescent
  <2> QED
    BY <2>1
<1>3. \A q \in Procs : task'[q] = task[q] \/ Moved(q)
  BY DEF Moved
<1>4. Calm
  BY <1>1, <1>2, <1>3 DEF Calm
<1> QED
  BY <1>4, CalmStep

\* A child that may trade belongs to a claimant that is not quiescent.
LEMMA ClaimantNotQuiescent ==
  ASSUME DispatchInv, NEW x \in Orders, NEW q \in Procs, LiveChild(x), row[x].claimant = q
  PROVE  /\ ~Quiescent(q)
         /\ inst[q].alive => task[q].pc = "wait"
BY DEF DispatchInv, OrderInv

LEMMA KilledCalm ==
  ASSUME NEW p \in Procs, child' = Killed(p)
  PROVE  /\ ChildrenCalm
         /\ \A x \in Orders : LiveChild(x)' => LiveChild(x) /\ row[x].claimant # p
BY DEF Killed, ChildrenCalm, LiveChild

LEMMA ProcessInv ==
  ASSUME TypeOK, TaskInv, DispatchInv, NEW p \in Procs, Process(p)
  PROVE  DispatchInv'
<1>0. TypeOK'
  BY ProcessTypes
<1>1. CASE TaskFails(p)
  <2>1. task[p].pc = "wait" => ~LiveChild(task[p].ord)
    BY <1>1 DEF TaskFails, LiveChild
  <2> QED
    BY <1>1, <2>1, TaskFailsEffect, EndedInv
<1>2. CASE GracefulExit(p)
  <2>1. /\ row' = row /\ child' = child /\ task' = task /\ task[p].pc = "idle" /\ inst[p].alive
        /\ inst' = [inst EXCEPT ![p].alive = FALSE, ![p].retired = "exit"]
    BY <1>2 DEF GracefulExit, db, At
  <2>2. /\ ~inst'[p].alive
        /\ \A q \in Procs \ {p} : inst'[q].alive = inst[q].alive /\ (Quiescent(q)' <=> Quiescent(q))
    BY <2>1 DEF TypeOK, InstType, Quiescent
  <2>3. ChildrenCalm /\ \A x \in Orders : LiveChild(x)' <=> LiveChild(x)
    BY <2>1 DEF ChildrenCalm, LiveChild
  <2>4. \A x \in Orders : LiveChild(x) => row[x].claimant # p
    BY <2>1, ClaimantNotQuiescent
  <2>5. \A q \in Procs : /\ inst'[q].alive => inst[q].alive
                         /\ Quiescent(q)' => ~inst'[q].alive
    BY <2>2 DEF DispatchInv
  <2>6. \A x \in Orders, q \in Procs : LiveChild(x)' /\ row[x].claimant = q => ~Quiescent(q)'
    BY <2>2, <2>3, <2>4, ClaimantNotQuiescent
  <2> QED
    BY <1>0, <2>1, <2>3, <2>5, <2>6, EndsInv
<1>3. ASSUME Dies(p), ChildrenCalm, \A x \in Orders : LiveChild(x)' => LiveChild(x)
      PROVE  DispatchInv'
  <2>1. /\ row' = row /\ task' = [task EXCEPT ![p] = Idle]
        /\ inst' = [inst EXCEPT ![p].alive = FALSE]
    BY <1>3 DEF Dies, db
  <2>2. /\ ~inst'[p].alive /\ \A q \in Procs \ {p} : inst'[q].alive = inst[q].alive
        /\ \A q \in Procs : Quiescent(q)' <=> Quiescent(q)
    BY <2>1 DEF TypeOK, InstType, Quiescent
  <2>3. \A q \in Procs : task'[q] = task[q] \/ (task'[q].pc = "idle" /\ ~inst'[q].alive)
    BY <2>1, <2>2 DEF TypeOK, Idle
  <2>4. \A q \in Procs : /\ inst'[q].alive => inst[q].alive
                         /\ Quiescent(q)' => ~inst'[q].alive
    BY <2>2 DEF DispatchInv
  <2>5. \A x \in Orders, q \in Procs : LiveChild(x)' /\ row[x].claimant = q => ~Quiescent(q)'
    BY <1>3, <2>2, ClaimantNotQuiescent
  <2> QED
    BY <1>0, <1>3, <2>1, <2>3, <2>4, <2>5, EndsInv
<1>4. CASE Crash(p)
  BY <1>3, <1>4 DEF Crash, ChildrenCalm, LiveChild
<1>5. CASE HeartbeatRefused(p)
  BY <1>3, <1>5, KilledCalm DEF HeartbeatRefused
<1>6. CASE HostStops(p)
  <2>1. /\ row' = row /\ task' = task /\ ~inst[p].alive
        /\ inst' = [inst EXCEPT ![p].stopped = TRUE] /\ child' = Killed(p)
    BY <1>6 DEF HostStops, db
  <2>2. /\ \A q \in Procs : inst'[q].alive = inst[q].alive
        /\ \A q \in Procs \ {p} : Quiescent(q)' <=> Quiescent(q)
    BY <2>1 DEF TypeOK, InstType, Quiescent
  <2>3. ChildrenCalm /\ \A x \in Orders : LiveChild(x)' => LiveChild(x) /\ row[x].claimant # p
    BY <2>1, KilledCalm
  <2>4. \A q \in Procs : /\ inst'[q].alive => inst[q].alive
                         /\ Quiescent(q)' => ~inst'[q].alive
    BY <2>1, <2>2 DEF DispatchInv
  <2>5. \A x \in Orders, q \in Procs : LiveChild(x)' /\ row[x].claimant = q => ~Quiescent(q)'
    BY <2>2, <2>3, ClaimantNotQuiescent
  <2> QED
    BY <1>0, <2>1, <2>3, <2>4, <2>5, EndsInv
<1> QED
  BY <1>1, <1>2, <1>4, <1>5, <1>6 DEF Process

LEMMA ChildInv ==
  ASSUME TypeOK, TaskInv, DispatchInv, NEW o \in Orders, Child(o)
  PROVE  DispatchInv'
<1>1. TypeOK' /\ row' = row /\ inst' = inst /\ task' = task
  BY ChildTypes
<1>2. /\ \A x \in Orders \ {o} : child'[x] = child[x]
      /\ child'[o] = child[o] \/ (LiveChild(o) /\ child'[o] # "none")
  BY DEF Child, ChildRuns, ChildRefuses, ChildSends, ChildAnswers, ChildLost, TypeOK, LiveChild
<1>3. ChildrenCalm /\ \A x \in Orders : LiveChild(x)' => LiveChild(x)
  BY <1>2 DEF ChildrenCalm, LiveChild
<1>4. \A q \in Procs : /\ inst'[q].alive => inst[q].alive
                       /\ Quiescent(q)' => ~inst'[q].alive
  BY <1>1 DEF DispatchInv, Quiescent
<1>5. \A x \in Orders, q \in Procs : LiveChild(x)' /\ row[x].claimant = q => ~Quiescent(q)'
  BY <1>1, <1>3, ClaimantNotQuiescent DEF Quiescent
<1> QED
  BY <1>1, <1>3, <1>4, <1>5, EndsInv

\* No task, instance or child changes, and no compared column.
LEMMA StillInv ==
  ASSUME TypeOK, TypeOK', TaskInv, DispatchInv, RowsKeep, UNCHANGED <<inst, task, child>>
  PROVE  DispatchInv'
<1>1. \A x \in Orders : Grows(x)
  BY KeepGrows
<1>2. \A x \in Orders : LiveChild(x)' => ~Quiescent(row[x].claimant)'
  BY CasFields DEF RowsKeep, DispatchInv, OrderInv, LiveChild, Quiescent
<1>3. Calm
  BY <1>1, <1>2 DEF Calm, ChildrenCalm, LiveChild, DispatchInv, Quiescent
<1> QED
  BY <1>3, CalmStep

LEMMA DispatchStep ==
  ASSUME TypeOK, TaskInv, DispatchInv, [Next]_vars
  PROVE  DispatchInv'
<1>0. TypeOK'
  BY TypeStep
<1>1. ASSUME NEW p \in Procs, Execute(p) \/ Resolve(p) \/ Dispose(p) \/ Process(p)
      PROVE  DispatchInv'
  BY <1>1, ExecuteInv, ResolveInv, DisposeInv, ProcessInv
<1>2. ASSUME NEW o \in Orders, Child(o)
      PROVE  DispatchInv'
  BY <1>2, ChildInv
<1>3. ASSUME NEW o \in Orders, QuoteExpires(o)
      PROVE  DispatchInv'
  BY <1>0, <1>3, QuoteExpiresTypes, StillInv
<1>4. ASSUME row' = row, inst' = inst, task' = task, child' = child
      PROVE  DispatchInv'
  BY <1>0, <1>4, StillInv DEF RowsKeep
<1>5. ASSUME NEW r \in VRows, Venue(r)
      PROVE  DispatchInv'
  BY <1>4, <1>5, VenueTypes
<1>6. CASE FenceLapses
  BY <1>4, <1>6, FenceLapsesTypes
<1>7. CASE UNCHANGED vars
  BY <1>4, <1>7 DEF vars
<1> QED
  BY <1>1, <1>2, <1>3, <1>5, <1>6, <1>7 DEF Next

LEMMA DispatchInit ==
  ASSUME Init
  PROVE  DispatchInv
<1>1. \A o \in Orders : OrderInv(o) /\ ~Live(o)
  BY DispatchAssumption DEF Init, OrderInv, Absent, Out, Closed, LiveChild, Live
<1>2. \A p \in Procs : task[p].pc = "idle" /\ ~Quiescent(p)
  BY DispatchAssumption DEF Init, Idle, Quiescent
<1> QED
  BY <1>1, <1>2 DEF DispatchInv

\* The inductive invariant: a dead order stays dead, every step that closes or
\* decides an order works on a dead one, and only a claimant launches.
THEOREM DispatchInvariant == Spec => []DispatchInv
<1>1. Init => TypeOK /\ TaskInv /\ DispatchInv
  BY TypeInit, DispatchInit
<1>2. TypeOK /\ TaskInv /\ DispatchInv /\ [Next]_vars => (TypeOK /\ TaskInv /\ DispatchInv)'
  BY TypeStep, DispatchStep
<1> QED
  BY <1>1, <1>2, PTL DEF Spec

\* However workers, operators, crashes and lapsed leases interleave, at most one
\* order of the wallet is claimed and undecided, and no child trades for another.
THEOREM OneLiveDispatchAlways == Spec => []OneLiveDispatch
<1>1. DispatchInv => OneLiveDispatch
  BY DEF DispatchInv, OrderInv, OneLiveDispatch
<1> QED
  BY <1>1, DispatchInvariant, PTL
=============================================================================
