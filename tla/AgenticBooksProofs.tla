------------------------- MODULE AgenticBooksProofs -------------------------
(***************************************************************************)
(* What the books of AgenticDispatch say of an order is what became of it: *)
(* journal, row, child and venue agree, decisions are final, and the       *)
(* protocol implements AgenticSwapLedger, for every set of orders,         *)
(* processes and rows of the owner.  The invariant adds to DispatchInv     *)
(* what the elimination argument of the resolver rests on: while a worker  *)
(* holds the fence from its snapshot to its claim, every other order that  *)
(* reached the venue is in the snapshot, committed or refused there.       *)
(***************************************************************************)
EXTENDS AgenticDispatchProofs

-----------------------------------------------------------------------------
(* The invariant.                                                          *)

Final == {"COMMITTED", "ROLLED_BACK"}
Unsent == {"none", "starting", "refused"}

\* Row, journal, child and venue of an order.
OrderBooks(o) ==
  /\ row[o].dispatch = "absent" <=> jr[o].state = "none"
  /\ row[o].outcome = "committed" => row[o].tx = o /\ jr[o].state = "COMMITTED"
  /\ row[o].outcome # "committed" => row[o].tx = None
  /\ row[o].outcome = "rolled-back" => jr[o].state = "ROLLED_BACK"
  /\ jr[o].state = "COMMITTED" => jr[o].tx = o /\ venue[o].st = "finished"
  /\ jr[o].state = "ROLLED_BACK" =>
       jr[o].tx = None /\ Dead(o) /\ Untraded(o) /\ (venue[o].st = "reverted" => venue[o].listed)
  /\ row[o].outcome = "committed" /\ Breached(o, o) => entriesStopped
  /\ Closed(o) => child[o] \in {"none", "refused"}
  /\ row[o].response # None => row[o].response = child[o]

\* The child of an order and the venue.
VenueBooks ==
  /\ \A o \in Orders :
       /\ child[o] \in Unsent => venue[o].st = "none"
       /\ child[o] = "rejected" => venue[o].st = "refused"
       /\ venue[o].fill = "below" => o \in Buys
  /\ \A r \in OwnerRows : venue[r].st # "reverted"
  /\ \A r \in VRows : venue[r].listed => venue[r].st # "none"

\* Every other order the venue has got is in S, or cannot be taken for o.
Told(o, S, v, r) ==
  \A x \in Orders \ {o} : v[x].st # "none" => x \in S \/ r[x].outcome = "committed" \/ v[x].st = "refused"
Known(o, S) == Told(o, S, venue, row)

\* The venue's row that a pass has bound to its order.
Picked(o, m) ==
  /\ m \in VRows /\ venue[m].listed
  /\ m = o \/ m \in OwnerRows \/ venue[m].st = "refused" \/ row[m].outcome = "committed"

\* What a step relies on beyond StepInv.
Unread == {"idle", "snapshot", "begin", "read", "recover"}
TaskBooks(p) ==
  LET o == task[p].ord
      pc == task[p].pc
      seen == task[p].seen
      pick == task[p].pick
  IN  /\ pc \notin Unread => seen.outcome = "open"
      /\ pc \in {"rollback", "d-patch"} => jr[o].state = "ROLLED_BACK"
      /\ pc \in {"recover", "fill"} => jr[o].state = "COMMITTED"
      /\ pc = "fill" => pick = o
      /\ pc \in {"launch", "list"} => seen.dispatch = "spawned"
      /\ pc = "terminalize" => seen.dispatch \in {"sealed", "not-started"}
      /\ pc \in {"finished", "failed"} => Picked(o, pick)
      /\ seen.response # None => seen.response = child[o]
      /\ pc = "seal" => seen.dispatch \in {"unclaimed", "spawned"} /\ (seen.dispatch = "spawned" => child[o] = "none")
      /\ pc \in {"quote", "claim"} => row[o].dispatch # "absent"

\* The wallet while a worker that is about to claim still holds its fence.
Claiming == {"snapshot", "begin", "quote", "claim"}
FenceBooks(p) ==
  LET o == task[p].ord  pc == task[p].pc IN
  pc \in Claiming /\ Holds(p) =>
    /\ \A x \in Orders \ {o} : ~Live(x)
    /\ pc = "begin" => Known(o, task[p].snap)
    /\ pc \in {"quote", "claim"} => Known(o, row[o].snap)

BooksInv ==
  /\ \A o \in Orders : OrderBooks(o) /\ (Live(o) => Known(o, row[o].snap))
  /\ VenueBooks
  /\ \A p \in Procs : task[p].pc # "idle" => TaskBooks(p) /\ FenceBooks(p)
Whole == TypeOK /\ TaskInv /\ DispatchInv
-----------------------------------------------------------------------------
(* What a step may do to what others rely on.                              *)

Done == {"finished", "refused", "reverted"}
Onward ==
  /\ \A o \in Orders :
       /\ jr[o].state \in Final => jr'[o] = jr[o]
       /\ row[o].outcome # "open" => row'[o].outcome = row[o].outcome
       /\ row[o].dispatch # "absent" => row'[o].dispatch # "absent" /\ row'[o].snap = row[o].snap
       /\ child[o] \in Answers \cup {"refused"} => child'[o] = child[o]
       /\ child[o] = "none" /\ Dead(o) => child'[o] = "none"
       /\ Dead(o) => Dead(o)'
       /\ venue'[o].st # "none" => venue[o].st # "none" \/ LiveChild(o)
  /\ \A r \in VRows :
       /\ venue[r].listed => venue'[r].listed
       /\ venue[r].st \in Done => venue'[r].st = venue[r].st /\ venue'[r].fill = venue[r].fill
  /\ entriesStopped => entriesStopped'

\* What an order that reached the venue was told of stays so while no other is live.
LEMMA ToldStays ==
  ASSUME Whole, Onward, NEW o \in Orders, NEW S, Told(o, S, venue, row),
         \A x \in Orders \ {o} : ~Live(x)
  PROVE  Told(o, S, venue', row')
<1>1. SUFFICES ASSUME NEW x \in Orders \ {o}, venue'[x].st # "none"
               PROVE  x \in S \/ row'[x].outcome = "committed" \/ venue'[x].st = "refused"
  BY DEF Told
<1>2. ~LiveChild(x)
  BY DEF Whole, DispatchInv, OrderInv
<1>3. venue[x].st # "none"
  BY <1>1, <1>2 DEF Onward
<1>4. x \in S \/ row[x].outcome = "committed" \/ venue[x].st = "refused"
  BY <1>3 DEF Told
<1>5. x \in VRows
  BY DEF VRows
<1> QED
  BY <1>4, <1>5 DEF Onward, Done

\* A picked row stays what it is.
LEMMA PickedStays ==
  ASSUME Onward, NEW o, NEW m, Picked(o, m)
  PROVE  m \in VRows /\ venue'[m].listed
         /\ (m = o \/ m \in OwnerRows \/ venue'[m].st = "refused" \/ row'[m].outcome = "committed")
<1>1. CASE m = o \/ m \in OwnerRows \/ venue[m].st = "refused"
  BY <1>1 DEF Picked, Onward, Done
<1>2. CASE row[m].outcome = "committed" /\ m \notin OwnerRows
  BY <1>2 DEF Picked, Onward, VRows
<1> QED
  BY <1>1, <1>2 DEF Picked

\* A task that stands still while others go on.
LEMMA StandsTask ==
  ASSUME Whole, BooksInv, Onward, NEW q \in Procs, task'[q] = task[q], task[q].pc # "idle"
  PROVE  TaskBooks(q)'
<1> DEFINE o == task[q].ord
<1>1. o \in Orders /\ TaskBooks(q) /\ StepInv(q) /\ task[q].seen \in CasType /\ o \in VRows
  BY DEF Whole, TaskInv, BooksInv, DispatchInv, TypeOK, TaskType, VRows
<1>2. /\ jr[o].state \in Final => jr'[o] = jr[o]
      /\ row[o].dispatch # "absent" => row'[o].dispatch # "absent"
      /\ child[o] \in Answers => child'[o] = child[o]
      /\ child[o] = "none" /\ Dead(o) => child'[o] = "none"
  BY <1>1 DEF Onward
<1>3. task[q].pc \in {"finished", "failed"} => Picked(o, task[q].pick)'
  <2>1. ASSUME task[q].pc \in {"finished", "failed"} PROVE Picked(o, task[q].pick)
    BY <1>1, <2>1 DEF TaskBooks
  <2> QED
    BY <2>1, PickedStays DEF Picked
<1>4. task[q].pc = "seal" /\ task[q].seen.dispatch = "spawned" => Dead(o) /\ child[o] = "none"
  BY <1>1 DEF StepInv, TaskBooks
<1>5. task[q].seen.response # None => task[q].seen.response = child'[o]
  BY <1>1, <1>2 DEF TaskBooks, CasType
<1>6. /\ task[q].pc \in {"rollback", "d-patch"} => jr'[o].state = "ROLLED_BACK"
      /\ task[q].pc \in {"recover", "fill"} => jr'[o].state = "COMMITTED"
      /\ task[q].pc \in {"quote", "claim"} => row'[o].dispatch # "absent"
  BY <1>1, <1>2 DEF TaskBooks, Final
<1>7. /\ task[q].pc \notin Unread => task[q].seen.outcome = "open"
      /\ task[q].pc = "fill" => task[q].pick = o
      /\ task[q].pc \in {"launch", "list"} => task[q].seen.dispatch = "spawned"
      /\ task[q].pc = "terminalize" => task[q].seen.dispatch \in {"sealed", "not-started"}
      /\ task[q].pc = "seal" => task[q].seen.dispatch \in {"unclaimed", "spawned"}
  BY <1>1 DEF TaskBooks
<1> QED
  BY <1>2, <1>3, <1>4, <1>5, <1>6, <1>7 DEF TaskBooks

LEMMA StandsFence ==
  ASSUME Whole, BooksInv, Onward, NEW q \in Procs, task'[q] = task[q], task[q].pc # "idle",
         Holds(q)' => Holds(q) /\ \A x \in Orders : Live(x)' => Live(x)
  PROVE  FenceBooks(q)'
<1> DEFINE o == task[q].ord
<1>1. SUFFICES ASSUME task[q].pc \in Claiming, Holds(q)'
               PROVE  /\ \A x \in Orders \ {o} : ~Live(x)'
                      /\ task[q].pc = "begin" => Told(o, task[q].snap, venue', row')
                      /\ task[q].pc \in {"quote", "claim"} => Told(o, row'[o].snap, venue', row')
  BY DEF FenceBooks, Known, Told, Live
<1>2. o \in Orders /\ FenceBooks(q) /\ TaskBooks(q)
  BY DEF Whole, TaskInv, BooksInv
<1>3. /\ \A x \in Orders \ {o} : ~Live(x)
      /\ task[q].pc = "begin" => Told(o, task[q].snap, venue, row)
      /\ task[q].pc \in {"quote", "claim"} => Told(o, row[o].snap, venue, row)
  BY <1>1, <1>2 DEF FenceBooks, Known
<1>4. task[q].pc \in {"quote", "claim"} => row'[o].snap = row[o].snap
  BY <1>2 DEF TaskBooks, Onward
<1> HIDE DEF o
<1> QED
  BY <1>1, <1>2, <1>3, <1>4, ToldStays

\* An order nobody writes.
Even(o) == Cas(row'[o]) = Cas(row[o]) /\ row'[o].tx = row[o].tx /\ row'[o].snap = row[o].snap /\ jr'[o] = jr[o]

LEMMA StandsOrder ==
  ASSUME Whole, BooksInv, Onward, NEW o \in Orders, Even(o)
  PROVE  OrderBooks(o)'
<1>1. OrderBooks(o) /\ o \in VRows
  BY DEF BooksInv, VRows
<1>2. /\ row'[o].dispatch = row[o].dispatch /\ row'[o].claimant = row[o].claimant
      /\ row'[o].outcome = row[o].outcome /\ row'[o].response = row[o].response
      /\ row'[o].tx = row[o].tx /\ jr'[o] = jr[o]
  BY CasFields DEF Even
<1>3. jr[o].state = "COMMITTED" => venue'[o].st = "finished" /\ venue'[o].fill = venue[o].fill
  BY <1>1 DEF OrderBooks, Onward, Done
<1>4. jr[o].state = "ROLLED_BACK" =>
        Dead(o)' /\ venue'[o].st = venue[o].st /\ (venue[o].listed => venue'[o].listed)
  <2>1. SUFFICES ASSUME jr[o].state = "ROLLED_BACK"
                 PROVE  Dead(o)' /\ venue'[o].st = venue[o].st /\ (venue[o].listed => venue'[o].listed)
    OBVIOUS
  <2>2. Dead(o) /\ venue[o].st \in {"none", "refused", "reverted"}
    BY <1>1, <2>1 DEF OrderBooks, Untraded
  <2>3. ~LiveChild(o)
    BY <2>2 DEF Dead
  <2> QED
    BY <1>1, <2>2, <2>3 DEF Onward, Done
<1>5. Closed(o) => child'[o] \in {"none", "refused"}
  <2>1. Closed(o) => Dead(o)
    BY DecidedDead DEF Decided, Whole
  <2> QED
    BY <1>1, <2>1 DEF OrderBooks, Onward
<1>6. row[o].response # None => row[o].response = child'[o]
  <2>1. row[o].response \in Answers \cup {None}
    BY DEF Whole, TypeOK, RowType
  <2> QED
    BY <1>1, <2>1 DEF OrderBooks, Onward
<1>7. entriesStopped => entriesStopped'
  BY DEF Onward
<1>8. Closed(o)' <=> Closed(o)
  BY <1>2 DEF Closed
<1>9. row[o].outcome = "committed" /\ o \in Buys /\ venue'[o].fill = "below" => entriesStopped'
  BY <1>1, <1>3, <1>7 DEF OrderBooks, Breached
<1>10. jr[o].state = "ROLLED_BACK" =>
         /\ jr[o].tx = None /\ Dead(o)' /\ venue'[o].st \in {"none", "refused", "reverted"}
         /\ venue'[o].st = "reverted" => venue'[o].listed
  BY <1>1, <1>4 DEF OrderBooks, Untraded
<1>11. /\ row[o].dispatch = "absent" <=> jr[o].state = "none"
       /\ row[o].outcome = "committed" => row[o].tx = o /\ jr[o].state = "COMMITTED"
       /\ row[o].outcome # "committed" => row[o].tx = None
       /\ row[o].outcome = "rolled-back" => jr[o].state = "ROLLED_BACK"
       /\ jr[o].state = "COMMITTED" => jr[o].tx = o
  BY <1>1 DEF OrderBooks
<1> QED
  BY <1>2, <1>3, <1>5, <1>6, <1>8, <1>9, <1>10, <1>11 DEF OrderBooks, Breached, Untraded

\* Every step: what was not touched stands, and what was touched is shown.
LEMMA BooksStep ==
  ASSUME Whole, Whole', BooksInv, Onward, VenueBooks', \A o \in Orders : Even(o) \/ OrderBooks(o)',
         \A o \in Orders : Live(o)' => Live(o) \/ Known(o, row[o].snap)',
         \A q \in Procs : task'[q].pc # "idle" =>
           \/ TaskBooks(q)' /\ FenceBooks(q)'
           \/ task'[q] = task[q] /\ (Holds(q)' => Holds(q) /\ \A x \in Orders : Live(x)' => Live(x))
  PROVE  BooksInv'
<1>1. \A o \in Orders : OrderBooks(o)'
  BY StandsOrder
<1>2. ASSUME NEW o \in Orders, Live(o)', Live(o) PROVE Known(o, row[o].snap)'
  <2>1. Told(o, row[o].snap, venue, row)
    BY <1>2 DEF BooksInv, Known
  <2>2. \A x \in Orders \ {o} : ~Live(x)
    BY <1>2 DEF Whole, DispatchInv
  <2>3. row'[o].snap = row[o].snap
    BY <1>2 DEF Onward, Live
  <2>4. Told(o, row[o].snap, venue', row')
    BY <2>1, <2>2, ToldStays
  <2> QED
    BY <2>3, <2>4 DEF Known, Told
<1>3. \A q \in Procs : task'[q].pc # "idle" => TaskBooks(q)' /\ FenceBooks(q)'
  BY StandsTask, StandsFence
<1> QED
  BY <1>1, <1>2, <1>3 DEF BooksInv

-----------------------------------------------------------------------------
(* A step of one task over one order.                                      *)

Desk(p, o) ==
  /\ \A q \in Procs \ {p} : task'[q] = task[q]
  /\ \A x \in Orders \ {o} : row'[x] = row[x] /\ jr'[x] = jr[x]
  /\ child' = child /\ venue' = venue
  /\ fence' = fence \/ fence' = Released(p) \/ Acquire(p)
  /\ task'[p].pc # "launch"
  /\ entriesStopped => entriesStopped'

Advances(o) ==
  /\ jr[o].state \in Final => jr'[o] = jr[o]
  /\ row[o].outcome # "open" => row'[o].outcome = row[o].outcome
  /\ row[o].dispatch # "absent" => row'[o].dispatch # "absent" /\ row'[o].snap = row[o].snap
  /\ Out(o) => Out(o)'
  /\ Live(o)' => Live(o)

\* The fence of another process is not taken by it.
LEMMA DeskFence ==
  ASSUME Whole, NEW p \in Procs, NEW o, Desk(p, o), NEW q \in Procs \ {p}, Holds(q)'
  PROVE  Holds(q)
<1>1. fence' = fence \/ fence' = Released(p) \/ fence' = [holder |-> p, valid |-> TRUE]
  BY DEF Desk, Acquire
<1>2. fence'.holder = q /\ fence'.valid
  BY DEF Holds
<1>3. CASE fence' = Released(p)
  BY <1>2, <1>3 DEF Released, Holds, Whole, TypeOK, FenceType
<1> QED
  BY <1>1, <1>2, <1>3 DEF Holds

LEMMA DeskOnward ==
  ASSUME Whole, NEW p \in Procs, NEW o \in Orders, Desk(p, o), Advances(o)
  PROVE  Onward /\ \A x \in Orders : Live(x)' => Live(x)
<1>1. \A x \in Orders \ {o} : row'[x] = row[x] /\ jr'[x] = jr[x]
  BY DEF Desk
<1>2. child' = child /\ venue' = venue
  BY DEF Desk
<1>3. ASSUME NEW x \in Orders, Dead(x) PROVE Dead(x)'
  <2>1. Out(x)'
    BY <1>1, <1>3 DEF Dead, Out, Advances
  <2>2. LiveChild(x)' => LiveChild(x)
    BY <1>2 DEF LiveChild
  <2>3. \A q \in Procs : task'[q] = task[q] \/ task'[q].pc # "launch"
    BY DEF Desk
  <2> QED
    BY <1>3, <2>1, <2>2, <2>3, DeadStays
<1>4. \A x \in Orders : Live(x)' => Live(x)
  BY <1>1 DEF Live, Advances
<1>5. \A x \in Orders :
       /\ jr[x].state \in Final => jr'[x] = jr[x]
       /\ row[x].outcome # "open" => row'[x].outcome = row[x].outcome
       /\ row[x].dispatch # "absent" => row'[x].dispatch # "absent" /\ row'[x].snap = row[x].snap
  BY <1>1 DEF Advances
<1>6. entriesStopped => entriesStopped'
  BY DEF Desk
<1> QED
  BY <1>2, <1>3, <1>4, <1>5, <1>6 DEF Onward

\* A step of one task keeps the books if what it writes and where it arrives are shown.
LEMMA DeskStep ==
  ASSUME Whole, Whole', BooksInv, NEW p \in Procs, NEW o \in Orders, Desk(p, o), Advances(o),
         Even(o) \/ OrderBooks(o)', task'[p].pc # "idle" => TaskBooks(p)' /\ FenceBooks(p)'
  PROVE  BooksInv'
<1>1. Onward /\ \A x \in Orders : Live(x)' => Live(x)
  BY DeskOnward
<1>2. VenueBooks'
  BY DEF BooksInv, VenueBooks, Desk
<1>3. \A x \in Orders : Even(x) \/ OrderBooks(x)'
  BY DEF Desk, Even, Cas
<1>4. ASSUME NEW q \in Procs \ {p}
      PROVE  task'[q] = task[q] /\ (Holds(q)' => Holds(q) /\ \A x \in Orders : Live(x)' => Live(x))
  BY <1>1, DeskFence DEF Desk
<1> QED
  BY <1>1, <1>2, <1>3, <1>4, BooksStep

\* A task that ends, or goes to read again, remembers nothing.
LEMMA RestBooks ==
  ASSUME NEW p \in Procs, NEW o, Moves(p, "read", o, Cas(Absent))
  PROVE  TaskBooks(p)' /\ FenceBooks(p)'
BY DEF Moves, TaskBooks, FenceBooks, Unread, Claiming, Cas, Absent

Resting(p) == Moves(p, "idle", None, Cas(Absent)) \/ Moves(p, "read", task[p].ord, Cas(Absent))

LEMMA RestStep ==
  ASSUME Whole, Whole', BooksInv, NEW p \in Procs, NEW o \in Orders, Desk(p, o), Advances(o),
         Even(o) \/ OrderBooks(o)', Resting(p)
  PROVE  BooksInv'
<1>1. task'[p].pc # "idle" => TaskBooks(p)' /\ FenceBooks(p)'
  BY RestBooks DEF Resting, Moves
<1> QED
  BY <1>1, DeskStep

\* Nothing that the books speak of is written.
LEMMA EvenAdvances ==
  ASSUME NEW o \in Orders, Even(o)
  PROVE  Advances(o)
<1>1. /\ row'[o].dispatch = row[o].dispatch /\ row'[o].outcome = row[o].outcome
      /\ row'[o].snap = row[o].snap /\ jr'[o] = jr[o]
  BY CasFields DEF Even
<1> QED
  BY <1>1 DEF Advances, Out, Live

LEMMA EvenRest ==
  ASSUME Whole, Whole', BooksInv, NEW p \in Procs, NEW o \in Orders, Desk(p, o), Even(o), Resting(p)
  PROVE  BooksInv'
BY EvenAdvances, RestStep

LEMMA EvenStep ==
  ASSUME Whole, Whole', BooksInv, NEW p \in Procs, NEW o \in Orders, Desk(p, o), Even(o),
         task'[p].pc # "idle" => TaskBooks(p)' /\ FenceBooks(p)'
  PROVE  BooksInv'
BY EvenAdvances, DeskStep
-----------------------------------------------------------------------------
(* The steps that only hold, pass, wait or end.                            *)

LEMMA HoldBooks ==
  ASSUME Whole, Whole', BooksInv, NEW p \in Procs, Busy(p), NEW v \in BOOLEAN, Hold(p, v)
  PROVE  BooksInv'
<1> DEFINE o == task[p].ord
           new == [row[o] EXCEPT !.held = v]
<1>1. o \in Orders /\ row[o] \in RowType
  BY RowTyped DEF Busy, Whole
<1>2. Moves(p, "read", o, Cas(Absent))
  BY HoldEffect DEF Whole, Forgets, Effect
<1>3. row' = [row EXCEPT ![o] = new] \/ row' = row
  BY DEF Hold
<1>4. UNCHANGED <<fence, jr, entriesStopped, child, venue>>
  BY DEF Hold, world
<1>5. Cas(new) = Cas(row[o]) /\ new.tx = row[o].tx /\ new.snap = row[o].snap
  BY <1>1, HeldRow DEF RowType
<1>6. row \in [Orders -> RowType]
  BY DEF Whole, TypeOK
<1> HIDE DEF new
<1>7. Even(o) /\ \A x \in Orders \ {o} : row'[x] = row[x]
  BY <1>1, <1>3, <1>4, <1>5, <1>6 DEF Even
<1>8. Desk(p, o)
  BY <1>2, <1>4, <1>7 DEF Desk, Moves
<1> QED
  BY <1>1, <1>2, <1>7, <1>8, EvenRest DEF Resting

\* No row changes, and the task ends or goes to read.
LEMMA StillBooks ==
  ASSUME Whole, Whole', BooksInv, NEW p \in Procs, NEW o \in Orders,
         UNCHANGED <<row, jr, entriesStopped, child, venue>>,
         fence' = fence \/ fence' = Released(p) \/ Acquire(p), Resting(p)
  PROVE  BooksInv'
<1>1. Desk(p, o)
  BY DEF Desk, Resting, Moves
<1>2. Even(o)
  BY DEF Even
<1> QED
  BY <1>1, <1>2, EvenRest

LEMMA PassBooks ==
  ASSUME Whole, Whole', BooksInv, NEW p \in Procs, Busy(p), Pass(p)
  PROVE  BooksInv'
<1>1. Moves(p, "read", task[p].ord, Cas(Absent))
  BY PassEffect DEF Whole, Forgets, Effect
<1> QED
  BY <1>1, StillBooks DEF Pass, db, world, Resting, Busy

LEMMA EndBooks ==
  ASSUME Whole, Whole', BooksInv, NEW p \in Procs, Busy(p), End(p), UNCHANGED <<db, child, venue>>
  PROVE  BooksInv'
<1>1. Moves(p, "idle", None, Cas(Absent))
  BY EndMoves DEF Whole
<1> QED
  BY <1>1, StillBooks DEF End, db, Resting, Busy

LEMMA ThrowsBooks ==
  ASSUME Whole, Whole', BooksInv, NEW p \in Procs, Busy(p), Throws(p)
  PROVE  BooksInv'
BY EndBooks DEF Throws, world

\* The task goes on, remembers what it did, and writes nothing.
LEMMA GoesBooks ==
  ASSUME Whole, Whole', BooksInv, NEW p \in Procs, Busy(p), NEW pc, NEW seen,
         Moves(p, pc, task[p].ord, seen), pc # "launch",
         UNCHANGED <<row, jr, entriesStopped, child, venue>>,
         fence' = fence \/ fence' = Released(p) \/ Acquire(p),
         pc # "idle" => TaskBooks(p)' /\ FenceBooks(p)'
  PROVE  BooksInv'
<1>1. Desk(p, task[p].ord)
  BY DEF Desk, Moves
<1>2. Even(task[p].ord)
  BY DEF Even
<1> QED
  BY <1>1, <1>2, EvenStep DEF Busy, Moves

-----------------------------------------------------------------------------
(* executeAgenticTrade.                                                    *)

\* No obligation of another order, so none is live.
LEMMA NoOtherLive ==
  ASSUME NEW o, ~OtherObligation(o)
  PROVE  \A x \in Orders \ {o} : ~Live(x)
BY DEF OtherObligation, Obligation, Live

LEMMA StartExecuteBooks ==
  ASSUME Whole, Whole', BooksInv, NEW p \in Procs, NEW o \in Orders, StartExecute(p, o)
  PROVE  BooksInv'
<1>1. /\ UNCHANGED <<row, jr, entriesStopped, child, venue>> /\ Acquire(p)
      /\ ~OtherObligation(o) /\ Begun(p, "snapshot", o)
  BY DEF StartExecute, db, world
<1>2. Moves(p, "snapshot", o, Cas(Absent))
  BY <1>1, BegunMoves DEF Whole, Pcs
<1>3. TaskBooks(p)'
  BY <1>2 DEF Moves, TaskBooks, Unread, Cas, Absent
<1>4. FenceBooks(p)'
  BY <1>1, <1>2, NoOtherLive DEF Moves, FenceBooks, Live
<1>5. Desk(p, o)
  BY <1>1, <1>2 DEF Desk, Moves
<1>6. Even(o)
  BY <1>1 DEF Even
<1> QED
  BY <1>3, <1>4, <1>5, <1>6, EvenStep

\* What reached the venue and is not live is decided: listed, committed or refused.
LEMMA SnapshotKnows ==
  ASSUME Whole, BooksInv, NEW o \in Orders, \A x \in Orders \ {o} : ~Live(x)
  PROVE  Known(o, {r \in VRows : venue[r].listed})
<1>1. SUFFICES ASSUME NEW x \in Orders \ {o}, venue[x].st # "none"
               PROVE  \/ venue[x].listed \/ row[x].outcome = "committed"
                      \/ venue[x].st = "refused"
  BY DEF Known, Told, VRows
<1>2. OrderBooks(x) /\ OrderInv(x) /\ VenueBooks /\ row[x] \in RowType
  BY DEF BooksInv, Whole, DispatchInv, TypeOK
<1>3. child[x] \notin Unsent
  BY <1>1, <1>2 DEF VenueBooks
<1>4. Out(x) /\ ~Closed(x)
  BY <1>2, <1>3 DEF OrderInv, OrderBooks, Unsent
<1>5. row[x].dispatch = "spawned"
  BY <1>2, <1>4 DEF RowType, Dispatches, Out, Closed
<1>6. row[x].outcome # "open"
  BY <1>5 DEF Live
<1>7. CASE row[x].outcome = "rolled-back"
  BY <1>1, <1>2, <1>7 DEF OrderBooks, Untraded
<1> QED
  BY <1>2, <1>6, <1>7 DEF RowType, Outcomes

LEMMA SnapshotBooks ==
  ASSUME Whole, Whole', BooksInv, NEW p \in Procs, Snapshot(p)
  PROVE  BooksInv'
<1> DEFINE o == task[p].ord
<1>1. Busy(p) /\ task[p].pc = "snapshot" /\ Holds(p)
  BY AtBusy DEF Snapshot, Whole
<1>2. UNCHANGED <<fence, row, jr, entriesStopped, child, venue>>
  BY DEF Snapshot, db, world
<1>3. Moves(p, "begin", o, task[p].seen)
  BY SnapshotEffect DEF Whole, Remembers, Effect
<1>4. task'[p].snap = {r \in VRows : venue[r].listed}
  BY DEF Snapshot, Whole, TypeOK, TaskType
<1>5. o \in Orders /\ TaskBooks(p) /\ FenceBooks(p)
  BY <1>1 DEF Busy, BooksInv
<1>6. \A x \in Orders \ {o} : ~Live(x)
  BY <1>1, <1>5 DEF FenceBooks, Claiming
<1>7. Known(o, task'[p].snap)
  BY <1>4, <1>5, <1>6, SnapshotKnows
<1>8. TaskBooks(p)'
  BY <1>1, <1>2, <1>3, <1>5 DEF Moves, TaskBooks, Unread
<1>9. FenceBooks(p)'
  BY <1>2, <1>3, <1>6, <1>7 DEF Moves, FenceBooks, Live, Known
<1> QED
  BY <1>1, <1>2, <1>3, <1>8, <1>9, GoesBooks

LEMMA BeginBooks ==
  ASSUME Whole, Whole', BooksInv, NEW p \in Procs, Begin(p)
  PROVE  BooksInv'
<1>0. PICK o \in Orders : o = task[p].ord
  BY AtBusy DEF Begin, Whole, Busy
<1> DEFINE new == [Absent EXCEPT !.dispatch = "unclaimed", !.snap = task[p].snap]
<1>1. Busy(p) /\ task[p].pc = "begin" /\ row[o].dispatch = "absent"
  BY <1>0, AtBusy DEF Begin, Whole
<1>2. /\ UNCHANGED <<fence, entriesStopped, child, venue>> /\ row' = [row EXCEPT ![o] = new]
      /\ jr' = [jr EXCEPT ![o] = [state |-> "PENDING", tx |-> None]]
  BY <1>0 DEF Begin, world, Journal
<1>3. Moves(p, "quote", o, BegunCas)
  BY <1>0, BeginEffect DEF Whole, Effect
<1>4. o \in Orders /\ OrderBooks(o) /\ OrderInv(o) /\ FenceBooks(p)
  BY <1>0, <1>1 DEF Busy, BooksInv, Whole, DispatchInv
<1>5. /\ new.dispatch = "unclaimed" /\ new.outcome = "open" /\ new.response = None
      /\ new.tx = None /\ new.snap = task[p].snap
  BY DEF Absent
<1>6. /\ row'[o] = new /\ \A x \in Orders \ {o} : row'[x] = row[x] /\ jr'[x] = jr[x]
      /\ jr'[o] = [state |-> "PENDING", tx |-> None] /\ jr[o].state = "none"
  BY <1>1, <1>2, <1>4 DEF Whole, TypeOK, OrderBooks
<1> HIDE DEF new
<1>7. ~Out(o) /\ row[o].outcome = "open"
  BY <1>1, <1>4 DEF Out, OrderInv, Dead
<1>8. Desk(p, o)
  BY <1>2, <1>3, <1>6 DEF Desk, Moves
<1>9. Advances(o)
  BY <1>1, <1>5, <1>6, <1>7 DEF Advances, Final, Live
<1>10. OrderBooks(o)'
  BY <1>5, <1>6 DEF OrderBooks, Closed
<1>11. TaskBooks(p)'
  BY <1>3, <1>5, <1>6 DEF Moves, TaskBooks, Unread, BegunCas
<1>12. FenceBooks(p)'
  <2>1. ASSUME Holds(p)' PROVE (\A x \in Orders \ {o} : ~Live(x)) /\ Told(o, task[p].snap, venue, row)
    BY <1>1, <1>2, <1>0, <1>4, <2>1 DEF FenceBooks, Claiming, Holds, Known
  <2>2. ASSUME Holds(p)' PROVE (\A x \in Orders \ {o} : ~Live(x)') /\ Told(o, row'[o].snap, venue', row')
    BY <1>2, <1>5, <1>6, <2>1, <2>2 DEF Live, Told
  <2> QED
    BY <1>3, <2>2 DEF FenceBooks, Moves, Live, Known, Told
<1> QED
  BY <1>4, <1>8, <1>9, <1>10, <1>11, <1>12, DeskStep

LEMMA DenyBooks ==
  ASSUME Whole, Whole', BooksInv, NEW p \in Procs, Deny(p)
  PROVE  BooksInv'
<1>1. Busy(p) /\ End(p) /\ UNCHANGED <<db, child, venue>>
  BY AtBusy DEF Deny, Whole, world
<1> QED
  BY <1>1, EndBooks

\* A write of the columns the books do not speak of.
LEMMA QuotedRow ==
  ASSUME NEW r \in RowType
  PROVE  LET new == [r EXCEPT !.quoted = TRUE]
         IN  Cas(new) = Cas(r) /\ new.tx = r.tx /\ new.snap = r.snap
BY DEF RowType, Cas

LEMMA QuoteBooks ==
  ASSUME Whole, Whole', BooksInv, NEW p \in Procs, Quote(p)
  PROVE  BooksInv'
<1> DEFINE o == task[p].ord
           new == [row[o] EXCEPT !.quoted = TRUE]
<1>1. Busy(p) /\ task[p].pc = "quote" /\ o \in Orders
  BY AtBusy DEF Quote, Whole, Busy
<1>2. UNCHANGED <<jr, entriesStopped, child, venue>>
  BY DEF Quote, world
<1>3. CASE ~Fresh(p)
  BY <1>1, <1>2, <1>3, EndBooks DEF Quote, db
<1>4. CASE Fresh(p)
  <2>1. row' = [row EXCEPT ![o] = new] /\ fence' = fence
    BY <1>4 DEF Quote, Patch, Mine
  <2>2. Cas(new) = Cas(row[o]) /\ new.tx = row[o].tx /\ new.snap = row[o].snap
    BY <1>1, QuotedRow, RowTyped DEF Whole
  <2> HIDE DEF new
  <2>3. row'[o] = new /\ \A x \in Orders \ {o} : row'[x] = row[x]
    BY <1>1, <2>1 DEF Whole, TypeOK
  <2>4. Even(o)
    BY <1>2, <2>2, <2>3 DEF Even
  <2>5. task'[p].pc # "idle"
    BY <1>4 DEF Quote, Patch, Whole, TypeOK, TaskType
  <2>6. Moves(p, "claim", o, task[p].seen)
    <3>1. Ended(p) \/ Remembers(p, "claim")
      BY QuoteEffect DEF Whole
    <3> QED
      BY <2>5, <3>1 DEF Ended, Remembers, Effect, Moves
  <2>7. Desk(p, o)
    BY <1>2, <2>1, <2>3, <2>6 DEF Desk, Moves
  <2>8. TaskBooks(p) /\ FenceBooks(p)
    BY <1>1 DEF BooksInv
  <2>9. /\ row'[o].dispatch = row[o].dispatch /\ row'[o].snap = row[o].snap
        /\ \A x \in Orders \ {o} : row'[x] = row[x]
    BY <2>2, <2>3 DEF Cas
  <2>10. TaskBooks(p)'
    BY <1>1, <1>2, <2>6, <2>8, <2>9 DEF Moves, TaskBooks, Unread
  <2>11. FenceBooks(p)'
    <3>1. ASSUME Holds(p)' PROVE (\A x \in Orders \ {o} : ~Live(x)) /\ Told(o, row[o].snap, venue, row)
      BY <1>1, <2>1, <2>8, <3>1 DEF FenceBooks, Claiming, Holds, Known
    <3>2. ASSUME Holds(p)' PROVE (\A x \in Orders \ {o} : ~Live(x)') /\ Told(o, row'[o].snap, venue', row')
      BY <1>2, <2>9, <3>1, <3>2 DEF Live, Told
    <3> QED
      BY <2>6, <3>2 DEF FenceBooks, Moves, Live, Known, Told
  <2> QED
    BY <1>1, <2>4, <2>7, <2>10, <2>11, EvenStep
<1> QED
  BY <1>3, <1>4

LEMMA RefuseBooks ==
  ASSUME Whole, Whole', BooksInv, NEW p \in Procs, Refuse(p)
  PROVE  BooksInv'
<1> DEFINE o == task[p].ord
<1>1. Busy(p) /\ task[p].pc \in {"quote", "claim", "launch"}
  BY AtBusy DEF Refuse, Whole
<1>2. UNCHANGED <<fence, row, jr, entriesStopped, child, venue>>
  BY DEF Refuse, db, world
<1>3. Moves(p, "seal", o, task[p].seen)
  BY RefuseEffect DEF Whole, Remembers, Effect
<1>4. TaskBooks(p) /\ StepInv(p)
  BY <1>1 DEF Busy, BooksInv, Whole, DispatchInv
<1>5. TaskBooks(p)'
  BY <1>1, <1>2, <1>3, <1>4 DEF Moves, TaskBooks, Unread, StepInv
<1>6. FenceBooks(p)'
  BY <1>3 DEF Moves, FenceBooks, Claiming
<1> QED
  BY <1>1, <1>2, <1>3, <1>5, <1>6, GoesBooks

\* A row is closed when no child of it has started.
LEMMA CloseBooks ==
  ASSUME Whole, Whole', BooksInv, NEW p \in Procs, NEW o \in Orders, o = task[p].ord,
         Busy(p), Fresh(p), NEW d \in {"sealed", "not-started"}, NEW pc \in {"terminalize", "d-branch"},
         Patch(p, [Mine(p) EXCEPT !.dispatch = d], pc), UNCHANGED <<fence, jr, entriesStopped, world>>,
         row[o].outcome = "open", row[o].dispatch # "absent", child[o] \in {"none", "refused"}
  PROVE  BooksInv'
<1> DEFINE new == [row[o] EXCEPT !.dispatch = d]
<1>1. row[o] \in RowType /\ OrderBooks(o) /\ child' = child /\ venue' = venue /\ jr' = jr
  BY DEF Whole, TypeOK, BooksInv, world
<1>2. /\ new.dispatch = d /\ new.outcome = "open" /\ new.response = row[o].response
      /\ new.tx = row[o].tx /\ new.snap = row[o].snap
  BY <1>1 DEF RowType
<1>3. row' = [row EXCEPT ![o] = new]
  BY DEF Patch, Mine
<1> HIDE DEF new
<1>4. row'[o] = new /\ \A x \in Orders \ {o} : row'[x] = row[x]
  BY <1>3 DEF Whole, TypeOK
<1>5. Moves(p, pc, o, ClosedCas(p, d))
  BY CloseEffect DEF Whole, Effect, Pcs, Dispatches
<1>6. task[p].seen = Cas(row[o])
  BY DEF Fresh, Mine
<1>7. ClosedCas(p, d).outcome = "open" /\ ClosedCas(p, d).response = row[o].response /\ ClosedCas(p, d).dispatch = d
  BY <1>6 DEF ClosedCas, Cas
<1>8. Desk(p, o)
  BY <1>1, <1>4, <1>5 DEF Desk, Moves
<1>9. Advances(o)
  BY <1>1, <1>2, <1>4 DEF Advances, Out, Live
<1>10. OrderBooks(o)'
  <2>1. Dead(o) => Dead(o)'
    BY <1>8, <1>9, DeskOnward DEF Onward
  <2> QED
    BY <1>1, <1>2, <1>4, <2>1 DEF OrderBooks, Closed, Untraded
<1>11. TaskBooks(p)'
  BY <1>1, <1>5, <1>7 DEF Moves, TaskBooks, Unread, OrderBooks
<1>12. FenceBooks(p)'
  BY <1>5 DEF Moves, FenceBooks, Claiming
<1> QED
  BY <1>8, <1>9, <1>10, <1>11, <1>12, DeskStep

\* What the compare-and-set makes sure of.
LEMMA FreshFields ==
  ASSUME NEW p, Fresh(p)
  PROVE  LET r == row[task[p].ord]  seen == task[p].seen
         IN  /\ r.dispatch = seen.dispatch /\ r.claimant = seen.claimant
             /\ r.outcome = seen.outcome /\ r.response = seen.response
BY DEF Fresh, Mine, Cas

LEMMA SealBooks ==
  ASSUME Whole, Whole', BooksInv, NEW p \in Procs, Seal(p)
  PROVE  BooksInv'
<1>0. PICK o \in Orders : o = task[p].ord
  BY AtBusy DEF Seal, Whole, Busy
<1>1. Busy(p) /\ task[p].pc = "seal"
  BY AtBusy DEF Seal, Whole
<1>2. UNCHANGED <<jr, entriesStopped, world>>
  BY DEF Seal
<1>3. CASE ~Fresh(p)
  BY <1>1, <1>2, <1>3, EndBooks DEF Seal, db, world
<1>4. CASE Fresh(p)
  <2>1. TaskBooks(p) /\ OrderInv(o)
    BY <1>1 DEF BooksInv, Whole, DispatchInv
  <2>2. row[o].outcome = "open" /\ row[o].dispatch = task[p].seen.dispatch
    BY <1>0, <1>1, <1>4, <2>1, FreshFields DEF TaskBooks, Unread
  <2>3. row[o].dispatch # "absent" /\ child[o] = "none"
    BY <1>0, <1>1, <2>1, <2>2 DEF TaskBooks, OrderInv, Out
  <2> QED
    BY <1>0, <1>1, <1>2, <1>4, <2>2, <2>3, CloseBooks DEF Seal
<1> QED
  BY <1>3, <1>4

LEMMA ClaimBooks ==
  ASSUME Whole, Whole', BooksInv, NEW p \in Procs, Claim(p)
  PROVE  BooksInv'
<1>0. PICK o \in Orders : o = task[p].ord
  BY AtBusy DEF Claim, Whole, Busy
<1> DEFINE new == [row[o] EXCEPT !.dispatch = "spawned", !.claimant = p]
<1>1. Busy(p) /\ task[p].pc = "claim" /\ Holds(p) /\ row[o].dispatch = "unclaimed" /\ row[o].outcome = "open"
  BY <1>0, AtBusy DEF Claim, ClaimAllowed, Whole
<1>2. UNCHANGED <<fence, jr, entriesStopped, child, venue>>
  BY DEF Claim, world
<1>3. row' = [row EXCEPT ![o] = new]
  BY <1>0 DEF Claim, Patch
<1>4. row[o] \in RowType /\ OrderBooks(o) /\ OrderInv(o) /\ TaskBooks(p) /\ FenceBooks(p)
  BY <1>1 DEF Whole, TypeOK, BooksInv, DispatchInv
<1>5. /\ new.dispatch = "spawned" /\ new.outcome = "open" /\ new.response = row[o].response
      /\ new.tx = row[o].tx /\ new.snap = row[o].snap
  BY <1>1, <1>4 DEF RowType
<1> HIDE DEF new
<1>6. row'[o] = new /\ \A x \in Orders \ {o} : row'[x] = row[x]
  BY <1>3 DEF Whole, TypeOK
<1>7. Moves(p, "launch", o, ClaimedCas(p))
  BY <1>0, ClaimEffect DEF Whole, Effect
<1>8. ~Out(o) /\ row[o].response = None
  BY <1>1, <1>4 DEF Out, OrderInv, Dead
<1>9. Onward
  <2>1. ASSUME NEW x \in Orders, Dead(x) PROVE Dead(x)'
    <3>1. x # o
      BY <1>8, <2>1 DEF Dead
    <3> QED
      BY <1>2, <1>6, <1>7, <2>1, <3>1 DEF Dead, Out, LiveChild, Launching, Moves
  <2> QED
    BY <1>1, <1>2, <1>5, <1>6, <2>1 DEF Onward
<1>10. OrderBooks(o)'
  <2>1. jr[o].state # "ROLLED_BACK"
    BY <1>4, <1>8 DEF OrderBooks, Dead
  <2> QED
    BY <1>1, <1>2, <1>4, <1>5, <1>6, <1>8, <2>1 DEF OrderBooks, Closed
<1>11. TaskBooks(p)'
  BY <1>0, <1>7, <1>8 DEF Moves, TaskBooks, Unread, ClaimedCas
<1>12. FenceBooks(p)'
  BY <1>7 DEF Moves, FenceBooks, Claiming
<1>13. VenueBooks'
  BY <1>2 DEF BooksInv, VenueBooks
<1>14. \A x \in Orders : Even(x) \/ OrderBooks(x)'
  BY <1>2, <1>6, <1>10 DEF Even
<1>15. \A x \in Orders : Live(x)' => Live(x) \/ Known(x, row[x].snap)'
  <2>1. Told(o, row[o].snap, venue, row)
    BY <1>0, <1>1, <1>4 DEF FenceBooks, Claiming, Known
  <2>2. Known(o, row[o].snap)'
    BY <1>2, <1>5, <1>6, <2>1 DEF Known, Told
  <2> QED
    BY <1>6, <2>2 DEF Live
<1>16. \A q \in Procs \ {p} : task'[q] = task[q] /\ ~Holds(q)'
  BY <1>1, <1>2, <1>7 DEF Moves, Holds
<1> QED
  BY <1>9, <1>11, <1>12, <1>13, <1>14, <1>15, <1>16, BooksStep

LEMMA LaunchBooks ==
  ASSUME Whole, Whole', BooksInv, NEW p \in Procs, Launch(p)
  PROVE  BooksInv'
<1>0. PICK o \in Orders : o = task[p].ord
  BY AtBusy DEF Launch, Whole, Busy
<1>1. Busy(p) /\ task[p].pc = "launch"
  BY AtBusy DEF Launch, Whole
<1>2. UNCHANGED <<fence, row, jr, entriesStopped, venue>> /\ child' = [child EXCEPT ![o] = "starting"]
  BY <1>0 DEF Launch, db
<1>3. TaskBooks(p) /\ MemoryInv(p) /\ StepInv(p) /\ VenueBooks
  BY <1>1 DEF BooksInv, Whole, DispatchInv
<1>4. child[o] = "none" /\ Launching(p, o) /\ Live(o)
  BY <1>0, <1>1, <1>3 DEF StepInv, Launching
<1>5. Moves(p, "wait", o, task[p].seen)
  BY <1>0, LaunchEffect DEF Whole
<1>6. child'[o] = "starting" /\ \A x \in Orders \ {o} : child'[x] = child[x]
  BY <1>2 DEF Whole, TypeOK
<1>7. ~Dead(o) /\ row[o].response = None
  <2>1. ~Dead(o)
    BY <1>4 DEF Dead
  <2> QED
    BY <2>1, DecidedDead DEF Decided, Whole
<1>8. Onward
  <2>1. ASSUME NEW x \in Orders, Dead(x) PROVE Dead(x)'
    <3>1. x # o
      BY <1>7, <2>1
    <3> QED
      BY <1>2, <1>5, <1>6, <2>1, <3>1 DEF Dead, Out, LiveChild, Launching, Moves
  <2>2. child[o] \notin Answers \cup {"refused"}
    BY <1>4 DEF Answers
  <2> QED
    BY <1>2, <1>6, <1>7, <2>1, <2>2 DEF Onward
<1>9. VenueBooks'
  BY <1>2, <1>3, <1>4, <1>6 DEF VenueBooks, Unsent
<1>10. \A x \in Orders : Even(x)
  BY <1>2 DEF Even
<1>11. TaskBooks(p)'
  BY <1>0, <1>1, <1>3, <1>5, <1>7 DEF Moves, TaskBooks, MemoryInv, Unread
<1>12. FenceBooks(p)'
  BY <1>5 DEF Moves, FenceBooks, Claiming
<1>13. \A x \in Orders : Live(x)' => Live(x)
  BY <1>2 DEF Live
<1>14. \A q \in Procs \ {p} : task'[q] = task[q] /\ (Holds(q)' => Holds(q))
  BY <1>2, <1>5 DEF Moves, Holds
<1> QED
  BY <1>8, <1>9, <1>10, <1>11, <1>12, <1>13, <1>14, BooksStep

LEMMA RecordBooks ==
  ASSUME Whole, Whole', BooksInv, NEW p \in Procs, Record(p)
  PROVE  BooksInv'
<1>0. PICK o \in Orders : o = task[p].ord
  BY AtBusy DEF Record, Whole, Busy
<1>1. Busy(p) /\ task[p].pc = "wait" /\ child[o] \in Answers \cup {"refused"}
  BY <1>0, AtBusy DEF Record, Whole
<1>2. UNCHANGED <<jr, entriesStopped, world>>
  BY DEF Record
<1>3. TaskBooks(p) /\ StepInv(p) /\ OrderBooks(o) /\ row[o] \in RowType
  BY <1>1 DEF BooksInv, Whole, DispatchInv, TypeOK
<1>4. CASE ~Fresh(p)
  BY <1>1, <1>2, <1>4, EndBooks DEF Record, db, world
<1>5. ASSUME Fresh(p) PROVE row[o].outcome = "open" /\ Out(o)
  BY <1>0, <1>1, <1>3, <1>5, FreshFields DEF TaskBooks, StepInv, Unread
<1>6. CASE Fresh(p) /\ child[o] = "refused"
  <2>1. Patch(p, [Mine(p) EXCEPT !.dispatch = "not-started"], "terminalize") /\ UNCHANGED fence
    BY <1>0, <1>6 DEF Record
  <2> QED
    BY <1>0, <1>1, <1>2, <1>5, <1>6, <2>1, CloseBooks DEF Out
<1>7. CASE Fresh(p) /\ child[o] # "refused"
  <2> DEFINE new == [row[o] EXCEPT !.response = child[o], !.held = (child[o] = "no-response")]
  <2>1. row' = [row EXCEPT ![o] = new] /\ fence' = fence /\ child[o] \in Answers
    BY <1>0, <1>1, <1>7 DEF Record, Patch, Mine
  <2>2. /\ new.dispatch = row[o].dispatch /\ new.outcome = row[o].outcome /\ new.response = child[o]
        /\ new.tx = row[o].tx /\ new.snap = row[o].snap
    BY <1>3 DEF RowType
  <2> HIDE DEF new
  <2>3. row'[o] = new /\ \A x \in Orders \ {o} : row'[x] = row[x]
    BY <2>1 DEF Whole, TypeOK
  <2>4. child' = child /\ venue' = venue /\ jr' = jr
    BY <1>2 DEF world
  <2>5. task'[p].pc # "terminalize" /\ task'[p].pc # "idle"
    BY <1>0, <1>7 DEF Record, Patch, Whole, TypeOK, TaskType
  <2>6. Moves(p, "mark", o, AnsweredCas(p))
    BY <1>0, <2>5, RecordEffect DEF Whole, Effect, Moves, Ended
  <2>7. AnsweredCas(p).outcome = "open" /\ AnsweredCas(p).response = child[o]
    <3>1. task[p].seen = Cas(row[o])
      BY <1>0, <1>7 DEF Fresh, Mine
    <3> QED
      BY <1>0, <1>5, <1>7, <3>1 DEF AnsweredCas, Cas
  <2>8. Desk(p, o)
    BY <1>2, <2>1, <2>3, <2>4, <2>6 DEF Desk, Moves
  <2>9. Advances(o)
    BY <2>2, <2>3, <2>4 DEF Advances, Out, Live
  <2>10. OrderBooks(o)'
    <3>1. Dead(o) => Dead(o)'
      BY <2>8, <2>9, DeskOnward DEF Onward
    <3> QED
      BY <1>3, <1>5, <1>7, <2>2, <2>3, <2>4, <3>1 DEF OrderBooks, Closed, Untraded
  <2>11. TaskBooks(p)'
    BY <2>4, <2>6, <2>7 DEF Moves, TaskBooks, Unread
  <2>12. FenceBooks(p)'
    BY <2>6 DEF Moves, FenceBooks, Claiming
  <2> QED
    BY <2>8, <2>9, <2>10, <2>11, <2>12, DeskStep
<1> QED
  BY <1>4, <1>6, <1>7

LEMMA MarkBooks ==
  ASSUME Whole, Whole', BooksInv, NEW p \in Procs, Mark(p)
  PROVE  BooksInv'
<1>0. PICK o \in Orders : o = task[p].ord
  BY AtBusy DEF Mark, Whole, Busy
<1> DEFINE s == IF task[p].seen.response = "accepted" THEN "IN_PROGRESS" ELSE "UNKNOWN"
<1>1. Busy(p) /\ UNCHANGED <<row, entriesStopped, child, venue>>
  BY AtBusy DEF Mark, Whole, world
<1>2. jr' = jr \/ (jr[o].state = "PENDING" /\ jr' = [jr EXCEPT ![o] = [state |-> s, tx |-> None]])
  BY <1>0 DEF Mark, Journal
<1>3. s \notin Final \cup {"none"}
  BY DEF Final
<1> HIDE DEF s
<1>4. \/ jr' = jr
      \/ /\ jr[o].state = "PENDING" /\ jr'[o].state = s
         /\ \A x \in Orders \ {o} : jr'[x] = jr[x]
  BY <1>2 DEF Whole, TypeOK
<1>5. OrderBooks(o)
  BY DEF BooksInv
<1>6. Resting(p)
  BY MarkEffect DEF Whole, Ended, Forgets, Effect, Resting
<1>7. Desk(p, o)
  <2>1. fence' = fence \/ fence' = Released(p)
    BY DEF Mark, End
  <2> QED
    BY <1>1, <1>4, <1>6, <2>1 DEF Desk, Resting, Moves
<1>8. Advances(o)
  BY <1>1, <1>3, <1>4 DEF Advances, Final, Out, Live
<1>9. Even(o) \/ OrderBooks(o)'
  <2>1. CASE jr' = jr
    BY <1>1, <2>1 DEF Even
  <2>2. CASE jr[o].state = "PENDING" /\ jr'[o].state = s
    BY <1>1, <1>3, <1>5, <2>2 DEF OrderBooks, Closed, Final
  <2> QED
    BY <1>4, <2>1, <2>2
<1> QED
  BY <1>6, <1>7, <1>8, <1>9, RestStep
-----------------------------------------------------------------------------
(* resolveAgenticOrder.                                                    *)

LEMMA StartResolveBooks ==
  ASSUME Whole, Whole', BooksInv, NEW p \in Procs, NEW o \in Orders, StartResolve(p, o)
  PROVE  BooksInv'
<1>1. UNCHANGED <<row, jr, entriesStopped, child, venue>> /\ Acquire(p) /\ Begun(p, "read", o)
  BY DEF StartResolve, db, world
<1>2. Moves(p, "read", o, Cas(Absent))
  BY <1>1, BegunMoves DEF Whole, Pcs
<1>3. TaskBooks(p)' /\ FenceBooks(p)'
  BY <1>2, RestBooks
<1>4. Desk(p, o)
  BY <1>1, <1>2 DEF Desk, Moves
<1>5. Even(o)
  BY <1>1 DEF Even
<1> QED
  BY <1>3, <1>4, <1>5, EvenStep

LEMMA ReadBooks ==
  ASSUME Whole, Whole', BooksInv, NEW p \in Procs, Read(p)
  PROVE  BooksInv'
<1>0. PICK o \in Orders : o = task[p].ord
  BY AtBusy DEF Read, Whole, Busy
<1> DEFINE pc == NextOf(row[o], jr[o])
<1>1. Busy(p) /\ UNCHANGED <<fence, row, jr, entriesStopped, child, venue>>
  BY AtBusy DEF Read, Whole, db, world
<1>2. Moves(p, pc, o, Cas(row[o]))
  BY <1>0, ReadEffect DEF Whole, Effect
<1>3. OrderBooks(o) /\ OrderInv(o) /\ row[o] \in RowType
  BY DEF BooksInv, Whole, DispatchInv, TypeOK
<1>4. row[o].dispatch \in {"absent", "unclaimed"} => row[o].outcome = "open" /\ row[o].response = None
  BY <1>3 DEF OrderInv, Dead, Out
<1>5. /\ pc \in {"seal", "terminalize", "read", "recover", "unanswered", "list"}
      /\ pc \notin {"read", "recover"} => row[o].outcome = "open"
      /\ pc = "recover" => jr[o].state = "COMMITTED"
      /\ pc = "terminalize" => row[o].dispatch \in {"sealed", "not-started"}
      /\ pc = "seal" => row[o].dispatch = "unclaimed"
      /\ pc = "list" => row[o].dispatch = "spawned"
  <2>1. row[o].outcome = "committed" => jr[o].state = "COMMITTED"
    BY <1>3 DEF OrderBooks
  <2>2. row[o].response \in {"accepted", "rejected"} => row[o].response # None
    BY DispatchAssumption DEF Answers
  <2> QED
    BY <1>3, <1>4, <2>1, <2>2 DEF NextOf, RowType, Outcomes, Dispatches
<1> HIDE DEF pc
<1>6. /\ Cas(row[o]).outcome = row[o].outcome /\ Cas(row[o]).dispatch = row[o].dispatch
      /\ Cas(row[o]).response = row[o].response
  BY DEF Cas
<1>7. TaskBooks(p)'
  BY <1>1, <1>2, <1>3, <1>5, <1>6 DEF Moves, TaskBooks, Unread, OrderBooks
<1>8. FenceBooks(p)'
  BY <1>2, <1>5 DEF Moves, FenceBooks, Claiming
<1> QED
  BY <1>0, <1>1, <1>2, <1>5, <1>7, <1>8, GoesBooks

LEMMA LeaveBooks ==
  ASSUME Whole, Whole', BooksInv, NEW p \in Procs, Leave(p)
  PROVE  BooksInv'
<1>1. Busy(p) /\ End(p) /\ UNCHANGED <<db, child, venue>>
  BY AtBusy DEF Leave, Whole, world
<1> QED
  BY <1>1, EndBooks

LEMMA UnansweredBooks ==
  ASSUME Whole, Whole', BooksInv, NEW p \in Procs, Unanswered(p)
  PROVE  BooksInv'
<1>1. At(p, "unanswered") /\ Hold(p, TRUE)
  BY DEF Unanswered
<1>2. Busy(p)
  BY <1>1, AtBusy DEF Whole
<1> QED
  BY <1>1, <1>2, HoldBooks

\* The journal is rolled back for a dead order that did not trade.
LEMMA RollJournalBooks ==
  ASSUME Whole, Whole', BooksInv, NEW p \in Procs, Busy(p), NEW o \in Orders, o = task[p].ord,
         NEW pc \in {"rollback", "d-patch"}, RollBackJournal(p, pc), task[p].pc \notin Unread,
         jr[o].state # "COMMITTED", Dead(o), Untraded(o), venue[o].st = "reverted" => venue[o].listed
  PROVE  BooksInv'
<1>1. /\ UNCHANGED <<fence, row, entriesStopped, child, venue>>
      /\ jr' = [jr EXCEPT ![o] = [state |-> "ROLLED_BACK", tx |-> None]]
  BY DEF RollBackJournal, Journal, world
<1>2. OrderBooks(o) /\ TaskBooks(p) /\ jr[o] \in JournalType
  BY DEF BooksInv, Whole, TypeOK, Busy
<1>3. jr'[o] = [state |-> "ROLLED_BACK", tx |-> None] /\ \A x \in Orders \ {o} : jr'[x] = jr[x]
  BY <1>1 DEF Whole, TypeOK
<1>4. Moves(p, pc, o, task[p].seen)
  BY RollBackEffect DEF Whole, Remembers, Effect, Pcs
<1>5. Desk(p, o)
  BY <1>1, <1>3, <1>4 DEF Desk, Moves
<1>6. Advances(o)
  <2>1. jr[o].state = "ROLLED_BACK" => jr'[o] = jr[o]
    BY <1>2, <1>3 DEF OrderBooks, JournalType
  <2> QED
    BY <1>1, <2>1 DEF Advances, Final, Out, Live
<1>7. OrderBooks(o)'
  <2>1. Dead(o)'
    BY <1>5, <1>6, DeskOnward DEF Onward
  <2>2. row[o].dispatch # "absent"
    BY DEF Dead, Out
  <2> QED
    BY <1>1, <1>2, <1>3, <2>1, <2>2 DEF OrderBooks, Closed, Untraded
<1>8. TaskBooks(p)'
  BY <1>1, <1>2, <1>3, <1>4 DEF Moves, TaskBooks, Unread
<1>9. FenceBooks(p)'
  BY <1>4 DEF Moves, FenceBooks, Claiming
<1> QED
  BY <1>5, <1>6, <1>7, <1>8, <1>9, DeskStep

LEMMA TerminalizeBooks ==
  ASSUME Whole, Whole', BooksInv, NEW p \in Procs, Terminalize(p)
  PROVE  BooksInv'
<1>0. PICK o \in Orders : o = task[p].ord
  BY AtBusy DEF Terminalize, Whole, Busy
<1>1. Busy(p) /\ task[p].pc = "terminalize"
  BY AtBusy DEF Terminalize, Whole
<1>2. CASE Hold(p, TRUE)
  BY <1>1, <1>2, HoldBooks
<1>3. CASE jr[o].state # "COMMITTED" /\ RollBackJournal(p, "rollback")
  <2>1. TaskBooks(p) /\ MemoryInv(p) /\ StepInv(p) /\ OrderBooks(o) /\ VenueBooks
    BY <1>1 DEF BooksInv, Whole, DispatchInv
  <2>2. Dead(o) /\ Closed(o)
    BY <1>0, <1>1, <2>1 DEF TaskBooks, MemoryInv, StepInv
  <2>3. venue[o].st = "none"
    BY <2>1, <2>2 DEF OrderBooks, VenueBooks, Unsent
  <2> QED
    BY <1>0, <1>1, <1>3, <2>2, <2>3, RollJournalBooks DEF Untraded, Unread
<1> QED
  BY <1>0, <1>2, <1>3 DEF Terminalize

\* The row is decided after its journal.
LEMMA RolledBackBooks ==
  ASSUME Whole, Whole', BooksInv, NEW p \in Procs, Busy(p), NEW o \in Orders, o = task[p].ord,
         task[p].pc \in {"rollback", "d-patch"}, Fresh(p), NEW new, row' = [row EXCEPT ![o] = new],
         new.dispatch = row[o].dispatch, new.outcome = "rolled-back", new.response = row[o].response,
         new.tx = row[o].tx, new.snap = row[o].snap, UNCHANGED <<fence, jr, entriesStopped, world>>,
         Moves(p, "read", o, Cas(Absent))
  PROVE  BooksInv'
<1>1. OrderBooks(o) /\ TaskBooks(p) /\ child' = child /\ venue' = venue /\ jr' = jr
  BY DEF BooksInv, Busy, world
<1>2. row'[o] = new /\ \A x \in Orders \ {o} : row'[x] = row[x]
  BY DEF Whole, TypeOK
<1>3. row[o].outcome = "open" /\ jr[o].state = "ROLLED_BACK"
  BY <1>1, FreshFields DEF TaskBooks, Unread
<1>4. Desk(p, o)
  BY <1>1, <1>2 DEF Desk, Moves
<1>5. Advances(o)
  BY <1>1, <1>2, <1>3 DEF Advances, Out, Live
<1>6. OrderBooks(o)'
  <2>1. Dead(o) => Dead(o)'
    BY <1>4, <1>5, DeskOnward DEF Onward
  <2> QED
    BY <1>1, <1>2, <1>3, <2>1 DEF OrderBooks, Closed, Untraded
<1> QED
  BY <1>4, <1>5, <1>6, RestStep DEF Resting

LEMMA RollbackBooks ==
  ASSUME Whole, Whole', BooksInv, NEW p \in Procs, Rollback(p)
  PROVE  BooksInv'
<1>0. PICK o \in Orders : o = task[p].ord
  BY AtBusy DEF Rollback, Whole, Busy
<1> DEFINE new == [row[o] EXCEPT !.outcome = "rolled-back"]
<1>1. Busy(p) /\ task[p].pc = "rollback" /\ UNCHANGED <<fence, jr, entriesStopped, world>>
  BY AtBusy DEF Rollback, Whole
<1>2. Moves(p, "read", o, Cas(Absent))
  BY <1>0, RollbackEffect DEF Whole, Forgets, Effect
<1>3. row' = IF Fresh(p) THEN [row EXCEPT ![o] = new] ELSE row
  BY <1>0 DEF Rollback
<1>4. /\ new.dispatch = row[o].dispatch /\ new.outcome = "rolled-back" /\ new.response = row[o].response
      /\ new.tx = row[o].tx /\ new.snap = row[o].snap
  BY DEF Whole, TypeOK, RowType
<1> HIDE DEF new
<1>5. CASE Fresh(p)
  BY <1>0, <1>1, <1>2, <1>3, <1>4, <1>5, RolledBackBooks
<1>6. CASE ~Fresh(p)
  BY <1>0, <1>1, <1>2, <1>3, <1>6, StillBooks DEF Resting, world
<1> QED
  BY <1>5, <1>6

LEMMA CompleteFillBooks ==
  ASSUME Whole, Whole', BooksInv, NEW p \in Procs, CompleteFill(p)
  PROVE  BooksInv'
<1>0. PICK o \in Orders : o = task[p].ord
  BY AtBusy DEF CompleteFill, Whole, Busy
<1> DEFINE new == [row[o] EXCEPT !.outcome = "committed", !.tx = task[p].pick, !.held = FALSE]
           won == /\ Cas(row[o]) = [task[p].seen EXCEPT !.response = row[o].response]
                  /\ ~TxTaken(o, task[p].pick)
<1>1. Busy(p) /\ task[p].pc = "fill" /\ UNCHANGED <<fence, jr, child, venue>>
  BY AtBusy DEF CompleteFill, Whole, world
<1>2. Moves(p, "read", o, Cas(Absent))
  BY <1>0, CompleteFillEffect DEF Whole, Forgets, Effect
<1>3. /\ row' = IF won THEN [row EXCEPT ![o] = new] ELSE row
      /\ entriesStopped' = (entriesStopped \/ (won /\ Breached(o, task[p].pick)))
  BY <1>0 DEF CompleteFill
<1>4. TaskBooks(p) /\ StepInv(p) /\ OrderBooks(o) /\ row[o] \in RowType /\ task[p].seen \in CasType
  BY <1>1 DEF BooksInv, Whole, DispatchInv, TypeOK, TaskType, Busy
<1>5. /\ task[p].pick = o /\ jr[o].state = "COMMITTED" /\ jr[o].tx = o /\ Dead(o)
      /\ task[p].seen.outcome = "open"
  BY <1>0, <1>1, <1>4 DEF TaskBooks, StepInv, OrderBooks, Unread
<1>6. /\ new.dispatch = row[o].dispatch /\ new.outcome = "committed" /\ new.response = row[o].response
      /\ new.tx = o /\ new.snap = row[o].snap
  BY <1>4, <1>5 DEF RowType
<1>7. won => row[o].outcome = "open"
  <2>1. [task[p].seen EXCEPT !.response = row[o].response].outcome = "open"
    BY <1>4, <1>5 DEF CasType
  <2> QED
    BY <2>1 DEF Cas
<1> HIDE DEF new, won
<1>8. CASE ~won
  <2>1. row' = row /\ (entriesStopped => entriesStopped')
    BY <1>3, <1>8
  <2>2. Desk(p, o)
    BY <1>1, <1>2, <2>1 DEF Desk, Moves
  <2>3. Even(o)
    BY <1>1, <2>1 DEF Even
  <2> QED
    BY <1>0, <1>2, <2>2, <2>3, EvenRest DEF Resting
<1>9. CASE won
  <2>1. row'[o] = new /\ \A x \in Orders \ {o} : row'[x] = row[x]
    BY <1>3, <1>9 DEF Whole, TypeOK
  <2>2. (entriesStopped => entriesStopped') /\ (Breached(o, o) => entriesStopped')
    BY <1>3, <1>5, <1>9
  <2>3. Desk(p, o)
    BY <1>1, <1>2, <2>1, <2>2 DEF Desk, Moves
  <2>4. Advances(o)
    BY <1>1, <1>6, <1>7, <1>9, <2>1 DEF Advances, Out, Live
  <2>5. OrderBooks(o)'
    BY <1>1, <1>4, <1>5, <1>6, <2>1, <2>2 DEF OrderBooks, Closed, Breached
  <2> QED
    BY <1>0, <1>2, <2>3, <2>4, <2>5, RestStep DEF Resting
<1> QED
  BY <1>8, <1>9

LEMMA RecoverBooks ==
  ASSUME Whole, Whole', BooksInv, NEW p \in Procs, Recover(p)
  PROVE  BooksInv'
<1>0. PICK o \in Orders : o = task[p].ord
  BY AtBusy DEF Recover, Whole, Busy
<1> DEFINE tx == IF row[o].tx # None THEN row[o].tx ELSE jr[o].tx
<1>1. Busy(p) /\ task[p].pc = "recover"
  BY AtBusy DEF Recover, Whole
<1>2. TaskBooks(p) /\ OrderBooks(o)
  BY <1>1 DEF BooksInv
<1>3. tx = o /\ jr[o].state = "COMMITTED"
  BY <1>0, <1>1, <1>2 DEF TaskBooks, OrderBooks
<1>4. \/ Hold(p, TRUE) \/ Pass(p)
      \/ /\ task[p].seen.outcome = "open" /\ UNCHANGED <<fence, db, world>>
         /\ task' = [task EXCEPT ![p].pc = "fill", ![p].pick = tx]
  BY <1>0 DEF Recover
<1>5. CASE Hold(p, TRUE)
  BY <1>1, <1>5, HoldBooks
<1>6. CASE Pass(p)
  BY <1>1, <1>6, PassBooks
<1> HIDE DEF tx
<1>7. CASE /\ task[p].seen.outcome = "open" /\ UNCHANGED <<fence, db, world>>
           /\ task' = [task EXCEPT ![p].pc = "fill", ![p].pick = tx]
  <2>1. task'[p].pc = "fill" /\ task'[p].pick = o
    BY <1>3, <1>7 DEF Whole, TypeOK, TaskType
  <2>2. Moves(p, "fill", o, task[p].seen)
    BY <1>0, <2>1, RecoverEffect DEF Whole, Forgets, Remembers, Effect, Moves
  <2>3. UNCHANGED <<fence, row, jr, entriesStopped, child, venue>>
    BY <1>7 DEF db, world
  <2>4. TaskBooks(p)'
    BY <1>2, <1>3, <1>7, <1>0, <2>1, <2>2, <2>3 DEF Moves, TaskBooks, Unread
  <2>5. FenceBooks(p)'
    BY <2>2 DEF Moves, FenceBooks, Claiming
  <2> QED
    BY <1>0, <1>1, <2>2, <2>3, <2>4, <2>5, GoesBooks
<1> QED
  BY <1>4, <1>5, <1>6, <1>7

\* A row bound to an order is its own, the owner's, or not to be taken for it.
LEMMA CandidatePicked ==
  ASSUME Whole, BooksInv, NEW o \in Orders, Live(o), NEW m \in VRows, m \in Candidates(o)
  PROVE  Picked(o, m)
<1>1. venue[m].listed /\ m \notin row[o].snap /\ venue[m].st # "none"
  BY DEF Candidates, BooksInv, VenueBooks
<1>2. Told(o, row[o].snap, venue, row)
  BY DEF BooksInv, Known
<1>3. CASE m \in Orders \ {o}
  BY <1>1, <1>2, <1>3 DEF Told, Picked
<1> QED
  BY <1>1, <1>3 DEF Picked, VRows

LEMMA BindBooks ==
  ASSUME Whole, Whole', BooksInv, NEW p \in Procs, Busy(p), task[p].pc = "list",
         NEW m \in VRows, Bind(p, m)
  PROVE  BooksInv'
<1>0. PICK o \in Orders : o = task[p].ord
  BY DEF Busy
<1> DEFINE new == [row[o] EXCEPT !.listed = m, !.held = FALSE]
<1>1. row[o] \in RowType /\ TaskBooks(p)
  BY DEF BooksInv, Whole, TypeOK, Busy
<1>2. Fresh(p) /\ row' = [row EXCEPT ![o] = new] /\ UNCHANGED <<fence, jr, entriesStopped, child, venue>>
  BY <1>0 DEF Bind, world
<1>3. Cas(new) = Cas(row[o]) /\ new.tx = row[o].tx /\ new.snap = row[o].snap
  BY <1>1, BoundRow DEF RowType
<1> HIDE DEF new
<1>4. row'[o] = new /\ \A x \in Orders \ {o} : row'[x] = row[x]
  BY <1>2 DEF Whole, TypeOK
<1>5. Live(o)
  BY <1>0, <1>1, <1>2, FreshFields DEF TaskBooks, Unread, Live
<1>6. Picked(o, m)
  BY <1>0, <1>5, CandidatePicked DEF Bind
<1>7. \/ Forgets(p, "read") \/ Remembers(p, "finished") \/ Remembers(p, "failed")
  BY BindEffect DEF Whole
<1>8. Desk(p, o)
  BY <1>2, <1>4, <1>7 DEF Desk, Forgets, Remembers, Effect, Moves
<1>9. Even(o)
  BY <1>2, <1>3, <1>4 DEF Even
<1>10. CASE Forgets(p, "read")
  BY <1>0, <1>8, <1>9, <1>10, EvenRest DEF Resting, Forgets, Effect
<1>11. CASE Remembers(p, "finished") \/ Remembers(p, "failed")
  <2>1. PICK pc \in {"finished", "failed"} : Moves(p, pc, o, task[p].seen)
    BY <1>0, <1>11 DEF Remembers, Effect
  <2>2. task'[p].pick = m
    <3>1. task'[p].pc # "read"
      BY <2>1 DEF Moves
    <3>2. ~Rests(p)
      BY <3>1 DEF Rests, Begun, Whole, TypeOK, Idle
    <3> QED
      BY <3>2 DEF Bind, Whole, TypeOK, TaskType
  <2>3. row'[m] = row[m] \/ m \notin Orders \/ m = o
    BY <1>4
  <2>4. TaskBooks(p)'
    <3>1. /\ task'[p].pc = pc /\ task'[p].ord = o /\ task'[p].seen = task[p].seen
      BY <2>1 DEF Moves
    <3>2. /\ task[p].seen.outcome = "open"
          /\ task[p].seen.response # None => task[p].seen.response = child[o]
      BY <1>0, <1>1 DEF TaskBooks, Unread
    <3>3. Picked(o, m)'
      BY <1>2, <1>4, <1>6, <2>3 DEF Picked, VRows
    <3>4. child' = child
      BY <1>2
    <3>5. Picked(task[p].ord, task[p].pick)'
      BY <2>2, <3>1, <3>3 DEF Picked
    <3> QED
      BY <3>1, <3>2, <3>4, <3>5 DEF TaskBooks
  <2>5. FenceBooks(p)'
    BY <2>1 DEF Moves, FenceBooks, Claiming
  <2> QED
    BY <1>8, <1>9, <2>4, <2>5, EvenStep
<1> QED
  BY <1>7, <1>10, <1>11

LEMMA ListRowsBooks ==
  ASSUME Whole, Whole', BooksInv, NEW p \in Procs, ListRows(p)
  PROVE  BooksInv'
<1>1. Busy(p) /\ task[p].pc = "list"
  BY AtBusy DEF ListRows, Whole
<1>2. Pass(p) \/ Hold(p, FALSE) \/ Hold(p, TRUE) \/ \E m \in VRows : Bind(p, m)
  BY DEF ListRows
<1>3. CASE Pass(p)
  BY <1>1, <1>3, PassBooks
<1>4. CASE Hold(p, FALSE) \/ Hold(p, TRUE)
  BY <1>1, <1>4, HoldBooks
<1>5. CASE \E m \in VRows : Bind(p, m)
  BY <1>1, <1>5, BindBooks
<1> QED
  BY <1>2, <1>3, <1>4, <1>5

\* The journal is committed for an order with its own landed swap.
LEMMA CommitBooks ==
  ASSUME Whole, Whole', BooksInv, NEW p \in Procs, Busy(p), NEW o \in Orders, o = task[p].ord,
         CommitJournal(p, o), task[p].pc \notin Unread, jr[o].state # "ROLLED_BACK",
         venue[o].st = "finished", row[o].dispatch # "absent"
  PROVE  BooksInv'
<1>1. /\ UNCHANGED <<fence, row, entriesStopped, child, venue>>
      /\ jr' = IF jr[o].state = "COMMITTED" THEN jr
               ELSE [jr EXCEPT ![o] = [state |-> "COMMITTED", tx |-> o]]
      /\ task' = [task EXCEPT ![p].pc = "fill", ![p].pick = o]
  BY DEF CommitJournal, Journal, world
<1>2. OrderBooks(o) /\ TaskBooks(p) /\ o \in VRows
  BY DEF BooksInv, Busy, VRows
<1>3. jr'[o].state = "COMMITTED" /\ jr'[o].tx = o /\ \A x \in Orders \ {o} : jr'[x] = jr[x]
  BY <1>1, <1>2 DEF Whole, TypeOK, OrderBooks
<1>4. Moves(p, "fill", o, task[p].seen)
  BY <1>2, CommitEffect DEF Whole, Remembers, Effect
<1>5. Desk(p, o)
  BY <1>1, <1>3, <1>4 DEF Desk, Moves
<1>6. Advances(o)
  BY <1>1 DEF Advances, Final, Out, Live
<1>7. OrderBooks(o)'
  BY <1>1, <1>2, <1>3 DEF OrderBooks, Closed, Breached
<1>8. task'[p].pick = o
  BY <1>1 DEF Whole, TypeOK, TaskType
<1>9. TaskBooks(p)'
  BY <1>1, <1>2, <1>3, <1>4, <1>8 DEF Moves, TaskBooks, Unread
<1>10. FenceBooks(p)'
  BY <1>4 DEF Moves, FenceBooks, Claiming
<1> QED
  BY <1>5, <1>6, <1>7, <1>9, <1>10, DeskStep

LEMMA FinishedBooks ==
  ASSUME Whole, Whole', BooksInv, NEW p \in Procs, Finished(p)
  PROVE  BooksInv'
<1>0. PICK o \in Orders : o = task[p].ord
  BY AtBusy DEF Finished, Whole, Busy
<1> DEFINE m == task[p].pick
<1>1. Busy(p) /\ task[p].pc = "finished"
  BY AtBusy DEF Finished, Whole
<1>2. \/ Pass(p) \/ Hold(p, FALSE) \/ Hold(p, TRUE) \/ Throws(p)
      \/ ~TxTaken(o, m) /\ Verifies(o, m, FALSE) /\ jr[o].state # "ROLLED_BACK" /\ CommitJournal(p, m)
  BY <1>0 DEF Finished
<1>3. CASE Pass(p)
  BY <1>1, <1>3, PassBooks
<1>4. CASE Hold(p, FALSE) \/ Hold(p, TRUE)
  BY <1>1, <1>4, HoldBooks
<1>5. CASE Throws(p)
  BY <1>1, <1>5, ThrowsBooks
<1>6. CASE ~TxTaken(o, m) /\ Verifies(o, m, FALSE) /\ jr[o].state # "ROLLED_BACK" /\ CommitJournal(p, m)
  <2>1. TaskBooks(p) /\ StepInv(p) /\ MemoryInv(p) /\ \A x \in Orders : OrderBooks(x)
    BY <1>1 DEF BooksInv, Whole, DispatchInv
  <2>2. m \in Orders /\ venue[m].st = "finished" /\ Picked(o, m)
    BY <1>0, <1>1, <1>6, <2>1 DEF Verifies, TaskBooks
  <2>3. m = o
    <3>1. m \notin OwnerRows
      BY <2>2, DispatchAssumption
    <3>2. row[m].outcome = "committed" => row[m].tx = m
      BY <2>1, <2>2 DEF OrderBooks
    <3> QED
      BY <1>6, <2>2, <3>1, <3>2 DEF Picked, TxTaken
  <2>4. row[o].dispatch # "absent"
    <3>1. row[o].response # None
      BY <1>0, <1>1, <2>1 DEF StepInv, MemoryInv
    <3> QED
      BY <3>1, DecidedDead DEF Whole, Decided, Dead, Out
  <2> QED
    BY <1>0, <1>1, <1>6, <2>2, <2>3, <2>4, CommitBooks DEF Unread
<1> QED
  BY <1>2, <1>3, <1>4, <1>5, <1>6

LEMMA FailedRowBooks ==
  ASSUME Whole, Whole', BooksInv, NEW p \in Procs, FailedRow(p)
  PROVE  BooksInv'
<1>0. PICK o \in Orders : o = task[p].ord
  BY AtBusy DEF FailedRow, Whole, Busy
<1> DEFINE m == task[p].pick
<1>1. Busy(p) /\ task[p].pc = "failed"
  BY AtBusy DEF FailedRow, Whole
<1>2. \/ Pass(p) \/ Hold(p, FALSE) \/ Hold(p, TRUE) \/ Throws(p)
      \/ /\ venue[m].st = "reverted" \/ task[p].seen.response = "rejected"
         /\ jr[o].state # "COMMITTED" /\ RollBackJournal(p, "rollback")
  BY <1>0 DEF FailedRow
<1>3. CASE Pass(p)
  BY <1>1, <1>3, PassBooks
<1>4. CASE Hold(p, FALSE) \/ Hold(p, TRUE)
  BY <1>1, <1>4, HoldBooks
<1>5. CASE Throws(p)
  BY <1>1, <1>5, ThrowsBooks
<1>6. CASE /\ venue[m].st = "reverted" \/ task[p].seen.response = "rejected"
           /\ jr[o].state # "COMMITTED" /\ RollBackJournal(p, "rollback")
  <2>1. /\ TaskBooks(p) /\ StepInv(p) /\ MemoryInv(p) /\ VenueBooks
        /\ \A x \in Orders : OrderBooks(x)
    BY <1>1 DEF BooksInv, Whole, DispatchInv
  <2>2. Dead(o)
    <3>1. row[o].response # None
      BY <1>0, <1>1, <2>1 DEF StepInv, MemoryInv
    <3> QED
      BY <3>1, DecidedDead DEF Whole, Decided
  <2>3. CASE venue[m].st = "reverted"
    <3>1. Picked(o, m)
      BY <1>0, <1>1, <2>1 DEF TaskBooks
    <3>2. m \notin OwnerRows
      BY <2>1, <2>3 DEF VenueBooks
    <3>3. m \in Orders /\ row[m].outcome # "committed"
      BY <2>1, <2>3, <3>1, <3>2 DEF Picked, VRows, OrderBooks
    <3>4. m = o /\ venue[o].listed
      BY <2>3, <3>1, <3>2, <3>3 DEF Picked
    <3> QED
      BY <1>0, <1>1, <1>6, <2>2, <2>3, <3>4, RollJournalBooks DEF Untraded, Unread
  <2>4. CASE task[p].seen.response = "rejected"
    <3>1. child[o] = "rejected"
      <4>1. "rejected" # None
        BY DispatchAssumption DEF Answers
      <4> QED
        BY <1>0, <2>1, <2>4, <4>1 DEF TaskBooks
    <3>2. venue[o].st = "refused"
      BY <2>1, <3>1 DEF VenueBooks
    <3> QED
      BY <1>0, <1>1, <1>6, <2>2, <3>2, RollJournalBooks DEF Untraded, Unread
  <2> QED
    BY <1>6, <2>3, <2>4
<1> QED
  BY <1>2, <1>3, <1>4, <1>5, <1>6

-----------------------------------------------------------------------------
(* The operator's dispose command.                                         *)

LEMMA DisposeReadBooks ==
  ASSUME Whole, Whole', BooksInv, NEW p \in Procs, NEW o \in Orders, DisposeRead(p, o)
  PROVE  BooksInv'
<1>1. UNCHANGED <<fence, row, jr, entriesStopped, child, venue>>
  BY DEF DisposeRead, db, world
<1>2. Moves(p, "d-fence", o, Cas(row[o])) /\ Obligation(o)
  BY DisposeReadEffect DEF Whole, Effect
<1>3. OrderBooks(o)
  BY DEF BooksInv
<1>4. Cas(row[o]).outcome = "open" /\ Cas(row[o]).response = row[o].response
  BY <1>2 DEF Obligation, Cas
<1>5. TaskBooks(p)'
  BY <1>1, <1>2, <1>3, <1>4 DEF Moves, TaskBooks, Unread, OrderBooks
<1>6. FenceBooks(p)'
  BY <1>2 DEF Moves, FenceBooks, Claiming
<1>7. Desk(p, o)
  BY <1>1, <1>2 DEF Desk, Moves
<1>8. Even(o)
  BY <1>1 DEF Even
<1> QED
  BY <1>5, <1>6, <1>7, <1>8, EvenStep

\* A step that only goes on to the next question of dispose.
LEMMA DisposeGoes ==
  ASSUME Whole, Whole', BooksInv, NEW p \in Procs, Busy(p), task[p].pc \in {"d-fence", "d-quiet", "d-seal"},
         NEW pc \in {"d-quiet", "d-seal", "d-branch"}, Moves(p, pc, task[p].ord, task[p].seen),
         UNCHANGED <<db, child, venue>>, fence' = fence \/ Acquire(p)
  PROVE  BooksInv'
<1>1. TaskBooks(p) /\ child' = child
  BY DEF Busy, BooksInv
<1>2. TaskBooks(p)'
  BY <1>1 DEF Moves, TaskBooks, Unread
<1>3. FenceBooks(p)'
  BY DEF Moves, FenceBooks, Claiming
<1> QED
  BY <1>2, <1>3, GoesBooks DEF db

LEMMA DisposeFenceBooks ==
  ASSUME Whole, Whole', BooksInv, NEW p \in Procs, DisposeFence(p)
  PROVE  BooksInv'
<1>1. Busy(p) /\ task[p].pc = "d-fence" /\ UNCHANGED <<db, child, venue>> /\ Acquire(p)
  BY AtBusy DEF DisposeFence, Whole, world
<1>2. Moves(p, "d-quiet", task[p].ord, task[p].seen)
  BY DisposeFenceEffect DEF Whole, Remembers, Effect
<1> QED
  BY <1>1, <1>2, DisposeGoes

LEMMA DisposeQuietBooks ==
  ASSUME Whole, Whole', BooksInv, NEW p \in Procs, DisposeQuiet(p)
  PROVE  BooksInv'
<1>1. Busy(p) /\ task[p].pc = "d-quiet" /\ UNCHANGED <<db, child, venue>>
  BY AtBusy DEF DisposeQuiet, Whole
<1>2. CASE End(p)
  BY <1>1, <1>2, EndBooks
<1>3. CASE Goto(p, "d-seal") /\ UNCHANGED fence
  <2>1. Moves(p, "d-seal", task[p].ord, task[p].seen)
    BY <1>3, GotoMoves DEF Whole, Pcs
  <2> QED
    BY <1>1, <1>3, <2>1, DisposeGoes
<1> QED
  BY <1>2, <1>3 DEF DisposeQuiet

LEMMA DisposeSealBooks ==
  ASSUME Whole, Whole', BooksInv, NEW p \in Procs, DisposeSeal(p)
  PROVE  BooksInv'
<1>0. PICK o \in Orders : o = task[p].ord
  BY AtBusy DEF DisposeSeal, Whole, Busy
<1>1. Busy(p) /\ task[p].pc = "d-seal" /\ UNCHANGED <<jr, entriesStopped, world>>
  BY AtBusy DEF DisposeSeal, Whole
<1>2. CASE task[p].seen.dispatch # "unclaimed"
  <2>1. Goto(p, "d-branch") /\ UNCHANGED <<fence, row>>
    BY <1>2 DEF DisposeSeal
  <2>2. Moves(p, "d-branch", task[p].ord, task[p].seen)
    BY <2>1, GotoMoves DEF Whole, Pcs
  <2> QED
    BY <1>1, <2>1, <2>2, DisposeGoes DEF db, world
<1>3. CASE task[p].seen.dispatch = "unclaimed" /\ Fresh(p)
  <2>1. TaskBooks(p) /\ OrderInv(o)
    BY <1>1 DEF BooksInv, Whole, DispatchInv
  <2>2. row[o].outcome = "open" /\ row[o].dispatch = "unclaimed"
    BY <1>0, <1>1, <1>3, <2>1, FreshFields DEF TaskBooks, Unread
  <2>3. child[o] = "none"
    BY <2>1, <2>2 DEF OrderInv, Out
  <2>4. Patch(p, [Mine(p) EXCEPT !.dispatch = "sealed"], "d-branch") /\ UNCHANGED fence
    BY <1>3 DEF DisposeSeal
  <2> QED
    BY <1>0, <1>1, <1>3, <2>2, <2>3, <2>4, CloseBooks
<1>4. CASE task[p].seen.dispatch = "unclaimed" /\ ~Fresh(p)
  BY <1>1, <1>4, EndBooks DEF DisposeSeal, db, world
<1> QED
  BY <1>2, <1>3, <1>4

LEMMA DisposeRollbackBooks ==
  ASSUME Whole, Whole', BooksInv, NEW p \in Procs, DisposeRollback(p)
  PROVE  BooksInv'
<1>0. PICK o \in Orders : o = task[p].ord
  BY AtBusy DEF DisposeRollback, Whole, Busy
<1>1. Busy(p) /\ task[p].pc = "d-branch" /\ Attested(o)
  BY <1>0, AtBusy DEF DisposeRollback, Whole
<1>2. CASE Throws(p)
  BY <1>1, <1>2, ThrowsBooks
<1>3. CASE jr[o].state # "COMMITTED" /\ RollBackJournal(p, "d-patch")
  <2>1. Dead(o)
    BY <1>0, <1>1 DEF Whole, DispatchInv, StepInv
  <2> QED
    BY <1>0, <1>1, <1>3, <2>1, RollJournalBooks DEF Attested, Unread
<1> QED
  BY <1>0, <1>2, <1>3 DEF DisposeRollback

LEMMA DisposePatchBooks ==
  ASSUME Whole, Whole', BooksInv, NEW p \in Procs, DisposePatch(p)
  PROVE  BooksInv'
<1>0. PICK o \in Orders : o = task[p].ord
  BY AtBusy DEF DisposePatch, Whole, Busy
<1> DEFINE new == [row[o] EXCEPT !.outcome = "rolled-back", !.held = FALSE]
<1>1. Busy(p) /\ task[p].pc = "d-patch" /\ UNCHANGED <<fence, jr, entriesStopped, world>>
  BY AtBusy DEF DisposePatch, Whole
<1>2. Moves(p, "read", o, Cas(Absent))
  BY <1>0, DisposePatchEffect DEF Whole, Forgets, Effect
<1>3. row' = IF Fresh(p) THEN [row EXCEPT ![o] = new] ELSE row
  BY <1>0 DEF DisposePatch
<1>4. /\ new.dispatch = row[o].dispatch /\ new.outcome = "rolled-back" /\ new.response = row[o].response
      /\ new.tx = row[o].tx /\ new.snap = row[o].snap
  BY DEF Whole, TypeOK, RowType
<1> HIDE DEF new
<1>5. CASE Fresh(p)
  BY <1>0, <1>1, <1>2, <1>3, <1>4, <1>5, RolledBackBooks
<1>6. CASE ~Fresh(p)
  BY <1>0, <1>1, <1>2, <1>3, <1>6, StillBooks DEF Resting, world
<1> QED
  BY <1>5, <1>6

LEMMA DisposeCommitBooks ==
  ASSUME Whole, Whole', BooksInv, NEW p \in Procs, DisposeCommit(p)
  PROVE  BooksInv'
<1>0. PICK o \in Orders : o = task[p].ord
  BY AtBusy DEF DisposeCommit, Whole, Busy
<1>1. Busy(p) /\ task[p].pc = "d-branch" /\ venue[o].st = "finished"
  BY <1>0, AtBusy DEF DisposeCommit, Whole, Verifies
<1>2. CASE Throws(p)
  BY <1>1, <1>2, ThrowsBooks
<1>3. CASE jr[o].state # "ROLLED_BACK" /\ CommitJournal(p, o)
  <2>1. row[o].dispatch # "absent"
    BY <1>0, <1>1 DEF Whole, DispatchInv, StepInv, Dead, Out
  <2> QED
    BY <1>0, <1>1, <1>3, <2>1, CommitBooks DEF Unread
<1> QED
  BY <1>0, <1>2, <1>3 DEF DisposeCommit

-----------------------------------------------------------------------------
(* Children, processes, leases, the venue.                                 *)

\* Nobody writes rows or the journal; tasks stand still or are gone.
LEMMA WorldStep ==
  ASSUME Whole, Whole', BooksInv, Onward, VenueBooks', \A o \in Orders : Even(o),
         \A q \in Procs : task'[q] = task[q] \/ task'[q].pc = "idle",
         fence' = fence \/ ~fence'.valid
  PROVE  BooksInv'
<1>1. \A x \in Orders : Live(x)' => Live(x)
  BY CasFields DEF Even, Live
<1>2. \A q \in Procs : Holds(q)' => Holds(q)
  BY DEF Holds
<1> QED
  BY <1>1, <1>2, BooksStep

\* Children only move on.
LEMMA WorldOnward ==
  ASSUME Whole, UNCHANGED <<row, jr, entriesStopped>>,
         \A q \in Procs : task'[q] = task[q] \/ task'[q].pc = "idle",
         \A o \in Orders : /\ child'[o] = child[o] \/ LiveChild(o)
                           /\ LiveChild(o)' => LiveChild(o)
                           /\ venue'[o].st # "none" => venue[o].st # "none" \/ LiveChild(o),
         \A r \in VRows : /\ venue[r].listed => venue'[r].listed
                          /\ venue[r].st \in Done =>
                               venue'[r].st = venue[r].st /\ venue'[r].fill = venue[r].fill
  PROVE  Onward /\ \A o \in Orders : Even(o)
<1>1. ASSUME NEW o \in Orders, Dead(o) PROVE Dead(o)'
  <2>1. Out(o)'
    BY <1>1 DEF Dead, Out
  <2>2. \A q \in Procs : task'[q] = task[q] \/ task'[q].pc # "launch"
    OBVIOUS
  <2> QED
    BY <1>1, <2>1, <2>2, DeadStays
<1>2. \A o \in Orders : /\ child[o] \in Answers \cup {"refused"} => child'[o] = child[o]
                        /\ child[o] = "none" /\ Dead(o) => child'[o] = "none"
  BY DEF LiveChild, Answers
<1>3. \A o \in Orders : Even(o)
  BY DEF Even
<1> QED
  BY <1>1, <1>2, <1>3 DEF Onward

LEMMA ChildBooks ==
  ASSUME Whole, Whole', BooksInv, NEW o \in Orders, Child(o)
  PROVE  BooksInv'
<1>1. UNCHANGED <<fence, row, jr, entriesStopped, task>>
  BY DEF Child, ChildRuns, ChildRefuses, ChildSends, ChildAnswers, ChildLost, db
<1>2. LiveChild(o) /\ \A x \in Orders \ {o} : child'[x] = child[x]
  BY DEF Child, ChildRuns, ChildRefuses, ChildSends, ChildAnswers, ChildLost, LiveChild, Whole, TypeOK
<1>3. \A r \in VRows : venue'[r] = venue[r] \/ (r = o /\ venue'[r] = [venue[r] EXCEPT !.st = "sent"]
                                               /\ venue[r].st = "none" /\ child[o] = "running" /\ child' = child)
  BY DEF Child, ChildRuns, ChildRefuses, ChildSends, ChildAnswers, ChildLost, Whole, TypeOK
<1>4. VenueBooks /\ venue \in [VRows -> VenueType] /\ o \in VRows
  BY DEF BooksInv, Whole, TypeOK, VRows
<1>5. \A r \in VRows : /\ venue'[r] = venue[r] \/ (r = o /\ venue[o].st = "none" /\ child[o] = "running" /\ child' = child)
                       /\ venue'[r].listed = venue[r].listed /\ venue'[r].fill = venue[r].fill
                       /\ venue'[r].st = venue[r].st \/ (venue[r].st = "none" /\ venue'[r].st = "sent" /\ r = o)
  BY <1>3, <1>4 DEF VenueType
<1>6. child'[o] = child[o] \/ (venue' = venue /\ child'[o] \in {"running", "refused", "accepted", "rejected", "no-response"})
  BY DEF Child, ChildRuns, ChildRefuses, ChildSends, ChildAnswers, ChildLost, Whole, TypeOK
<1>7. /\ child'[o] = "rejected" => venue[o].st = "refused" /\ venue' = venue
      /\ child'[o] = "refused" => child[o] = "starting" /\ venue' = venue
  BY <1>2 DEF Child, ChildRuns, ChildRefuses, ChildSends, ChildAnswers, ChildLost, LiveChild, Whole, TypeOK
<1>8. VenueBooks'
  <2>1. ASSUME NEW x \in Orders
        PROVE  /\ child'[x] \in Unsent => venue'[x].st = "none"
               /\ child'[x] = "rejected" => venue'[x].st = "refused"
               /\ venue'[x].fill = "below" => x \in Buys
    <3>0. x \in VRows
      BY DEF VRows
    <3>1. CASE x # o
      BY <1>2, <1>4, <1>5, <3>0, <3>1 DEF VenueBooks
    <3>2. CASE x = o
      BY <1>4, <1>5, <1>6, <1>7, <3>0, <3>2 DEF VenueBooks, Unsent
    <3> QED
      BY <3>1, <3>2
  <2>2. \A r \in OwnerRows : venue'[r].st # "reverted"
    BY <1>4, <1>5 DEF VenueBooks, VRows
  <2>3. \A r \in VRows : venue'[r].listed => venue'[r].st # "none"
    BY <1>4, <1>5 DEF VenueBooks
  <2> QED
    BY <2>1, <2>2, <2>3 DEF VenueBooks
<1>9. Onward /\ \A x \in Orders : Even(x)
  <2>1. \A x \in Orders : /\ child'[x] = child[x] \/ LiveChild(x)
                          /\ LiveChild(x)' => LiveChild(x)
                          /\ venue'[x].st # "none" => venue[x].st # "none" \/ LiveChild(x)
    BY <1>2, <1>5 DEF LiveChild, VRows
  <2>2. \A r \in VRows : /\ venue[r].listed => venue'[r].listed
                         /\ venue[r].st \in Done =>
                              venue'[r].st = venue[r].st /\ venue'[r].fill = venue[r].fill
    BY <1>5 DEF Done
  <2> QED
    BY <1>1, <2>1, <2>2, WorldOnward
<1> QED
  BY <1>1, <1>8, <1>9, WorldStep

LEMMA VenueRowBooks ==
  ASSUME Whole, Whole', BooksInv, NEW r \in VRows, Venue(r)
  PROVE  BooksInv'
<1>1. UNCHANGED <<fence, row, jr, entriesStopped, task, child>>
  BY DEF Venue, VenuePlaces, VenueSettles, VenueLists, db
<1>2. VenueBooks /\ venue \in [VRows -> VenueType]
  BY DEF BooksInv, Whole, TypeOK
<1>3. \A s \in VRows \ {r} : venue'[s] = venue[s]
  BY <1>2 DEF Venue, VenuePlaces, VenueSettles, VenueLists
<1>4. /\ venue'[r].st # "none" /\ (venue[r].listed => venue'[r].listed)
      /\ \/ venue'[r].st = venue[r].st /\ venue'[r].fill = venue[r].fill
         \/ /\ venue[r].st = IF r \in OwnerRows THEN "none" ELSE "sent"
            /\ venue'[r].st = "pending" /\ venue'[r].fill = venue[r].fill
         \/ /\ venue[r].st = "pending" /\ venue'[r].st \in Ends(r) /\ venue'[r].fill \in Fills(r)
  <2>1. CASE VenuePlaces(r)
    BY <1>2, <2>1 DEF VenuePlaces, VenueType
  <2>2. CASE VenueSettles(r)
    <3>1. PICK st \in Ends(r), fill \in Fills(r) : venue' = [venue EXCEPT ![r].st = st, ![r].fill = fill]
      BY <2>2 DEF VenueSettles
    <3>2. venue'[r].st = st /\ venue'[r].fill = fill /\ venue'[r].listed = venue[r].listed
      BY <1>2, <3>1 DEF VenueType
    <3>3. st # "none"
      BY DispatchAssumption DEF Ends
    <3> QED
      BY <2>2, <3>2, <3>3 DEF VenueSettles
  <2>3. CASE VenueLists(r)
    BY <1>2, <2>3 DEF VenueLists, VenueType
  <2> QED
    BY <2>1, <2>2, <2>3 DEF Venue
<1>5. /\ r \in OwnerRows => venue'[r].st # "reverted"
      /\ r \in Orders /\ venue'[r].fill = "below" => r \in Buys
      /\ r \in Orders => venue[r].st # "none"
  <2>1. r \in Orders => r \notin OwnerRows /\ (venue[r].fill = "below" => r \in Buys)
    BY <1>2, DispatchAssumption DEF VenueBooks
  <2>2. Fills(r) \subseteq {"ok", "below", "partial"} /\ ("below" \in Fills(r) => r \in Buys)
    BY DEF Fills
  <2>3. r \in OwnerRows => venue[r].st # "reverted" /\ "reverted" \notin Ends(r)
    BY <1>2, DispatchAssumption DEF VenueBooks, Ends
  <2> QED
    BY <1>4, <2>1, <2>2, <2>3
<1>6. VenueBooks'
  <2>1. ASSUME NEW x \in Orders
        PROVE  /\ child'[x] \in Unsent => venue'[x].st = "none"
               /\ child'[x] = "rejected" => venue'[x].st = "refused"
               /\ venue'[x].fill = "below" => x \in Buys
    <3>0. x \in VRows /\ child'[x] = child[x] /\ (x = r => r \notin OwnerRows)
      BY <1>1, DispatchAssumption DEF VRows
    <3>1. CASE x # r
      BY <1>2, <1>3, <3>0, <3>1 DEF VenueBooks
    <3>2. CASE x = r
      <4>1. venue[r].st # "none" /\ venue[r].st \in {"refused"} => venue'[r].st = venue[r].st
        BY <1>4, <3>0, <3>2
      <4> QED
        BY <1>2, <1>5, <3>0, <3>2, <4>1 DEF VenueBooks
    <3> QED
      BY <3>1, <3>2
  <2>2. \A s \in OwnerRows : venue'[s].st # "reverted"
    BY <1>2, <1>3, <1>5 DEF VenueBooks, VRows
  <2>3. \A s \in VRows : venue'[s].listed => venue'[s].st # "none"
    BY <1>2, <1>3, <1>4 DEF VenueBooks
  <2> QED
    BY <2>1, <2>2, <2>3 DEF VenueBooks
<1>7. Onward /\ \A x \in Orders : Even(x)
  <2>1. \A x \in Orders : /\ child'[x] = child[x] \/ LiveChild(x)
                          /\ LiveChild(x)' => LiveChild(x)
                          /\ venue'[x].st # "none" => venue[x].st # "none" \/ LiveChild(x)
    BY <1>1, <1>3, <1>5 DEF LiveChild, VRows
  <2>2. \A s \in VRows : /\ venue[s].listed => venue'[s].listed
                         /\ venue[s].st \in Done =>
                              venue'[s].st = venue[s].st /\ venue'[s].fill = venue[s].fill
    BY <1>3, <1>4 DEF Done
  <2> QED
    BY <1>1, <2>1, <2>2, WorldOnward
<1> QED
  BY <1>1, <1>6, <1>7, WorldStep

LEMMA QuoteExpiresBooks ==
  ASSUME Whole, Whole', BooksInv, NEW o \in Orders, QuoteExpires(o)
  PROVE  BooksInv'
<1> DEFINE new == [row[o] EXCEPT !.quoted = FALSE]
<1>1. UNCHANGED <<fence, jr, entriesStopped, task, child, venue>>
  BY DEF QuoteExpires, world
<1>2. row' = [row EXCEPT ![o] = new]
  BY DEF QuoteExpires
<1>3. Cas(new) = Cas(row[o]) /\ new.tx = row[o].tx /\ new.snap = row[o].snap
  BY DEF Whole, TypeOK, RowType, Cas
<1> HIDE DEF new
<1>4. \A x \in Orders : Even(x) /\ row'[x].snap = row[x].snap
  BY <1>1, <1>2, <1>3 DEF Even, Whole, TypeOK
<1>5. \A x \in Orders : /\ row'[x].dispatch = row[x].dispatch
                        /\ row'[x].outcome = row[x].outcome
  BY <1>4, CasFields DEF Even
<1>6. ASSUME NEW x \in Orders, Dead(x) PROVE Dead(x)'
  BY <1>1, <1>5, <1>6 DEF Dead, Out, LiveChild, Launching
<1>7. Onward
  BY <1>1, <1>4, <1>5, <1>6 DEF Onward
<1>8. VenueBooks'
  BY <1>1 DEF BooksInv, VenueBooks
<1> QED
  BY <1>1, <1>4, <1>7, <1>8, WorldStep

\* A process ends, with or without its children.
LEMMA GoneBooks ==
  ASSUME Whole, Whole', BooksInv, UNCHANGED <<fence, row, jr, entriesStopped, venue>>,
         \A q \in Procs : task'[q] = task[q] \/ task'[q].pc = "idle",
         \A o \in Orders : child'[o] = child[o] \/ (LiveChild(o) /\ child'[o] = "no-response")
  PROVE  BooksInv'
<1>1. VenueBooks'
  BY DEF BooksInv, VenueBooks, Unsent
<1>2. Onward /\ \A o \in Orders : Even(o)
  <2>1. \A x \in Orders : /\ child'[x] = child[x] \/ LiveChild(x)
                          /\ LiveChild(x)' => LiveChild(x)
                          /\ venue'[x].st # "none" => venue[x].st # "none" \/ LiveChild(x)
    BY DEF LiveChild
  <2> QED
    BY <2>1, WorldOnward
<1> QED
  BY <1>1, <1>2, WorldStep

LEMMA ProcessBooks ==
  ASSUME Whole, Whole', BooksInv, NEW p \in Procs, Process(p)
  PROVE  BooksInv'
<1>1. CASE TaskFails(p)
  BY <1>1, EndBooks DEF TaskFails, world, Whole, TaskInv, Busy
<1>2. ASSUME Dies(p) PROVE /\ UNCHANGED <<fence, row, jr, entriesStopped, venue>>
                           /\ \A q \in Procs : task'[q] = task[q] \/ task'[q].pc = "idle"
  BY <1>2 DEF Dies, db, Idle, Whole, TypeOK
<1>3. ASSUME child' = Killed(p)
      PROVE  \A o \in Orders : child'[o] = child[o] \/ (LiveChild(o) /\ child'[o] = "no-response")
  BY <1>3 DEF Killed, LiveChild
<1>4. CASE GracefulExit(p)
  BY <1>4, GoneBooks DEF GracefulExit, db
<1>5. CASE Crash(p)
  BY <1>2, <1>5, GoneBooks DEF Crash
<1>6. CASE HeartbeatRefused(p)
  BY <1>2, <1>3, <1>6, GoneBooks DEF HeartbeatRefused
<1>7. CASE HostStops(p)
  BY <1>3, <1>7, GoneBooks DEF HostStops, db
<1> QED
  BY <1>1, <1>4, <1>5, <1>6, <1>7 DEF Process

LEMMA IdleBooks ==
  ASSUME Whole, Whole', BooksInv, UNCHANGED <<row, jr, entriesStopped, venue, task, child>>,
         fence' = fence \/ ~fence'.valid
  PROVE  BooksInv'
<1>1. VenueBooks'
  BY DEF BooksInv, VenueBooks
<1>2. Onward /\ \A o \in Orders : Even(o)
  BY WorldOnward DEF LiveChild
<1> QED
  BY <1>1, <1>2, WorldStep

-----------------------------------------------------------------------------
(* The theorem.                                                            *)

LEMMA ExecuteBooks ==
  ASSUME Whole, Whole', BooksInv, NEW p \in Procs, Execute(p)
  PROVE  BooksInv'
BY StartExecuteBooks, SnapshotBooks, BeginBooks, DenyBooks, QuoteBooks, RefuseBooks, SealBooks,
   ClaimBooks, LaunchBooks, RecordBooks, MarkBooks DEF Execute

LEMMA ResolveBooks ==
  ASSUME Whole, Whole', BooksInv, NEW p \in Procs, Resolve(p)
  PROVE  BooksInv'
BY StartResolveBooks, ReadBooks, LeaveBooks, UnansweredBooks, TerminalizeBooks, RollbackBooks,
   CompleteFillBooks, RecoverBooks, ListRowsBooks, FinishedBooks, FailedRowBooks DEF Resolve

LEMMA DisposeBooks ==
  ASSUME Whole, Whole', BooksInv, NEW p \in Procs, Dispose(p)
  PROVE  BooksInv'
BY DisposeReadBooks, DisposeFenceBooks, DisposeQuietBooks, DisposeSealBooks,
   DisposeRollbackBooks, DisposePatchBooks, DisposeCommitBooks DEF Dispose

LEMMA BooksNext ==
  ASSUME Whole, Whole', BooksInv, [Next]_vars
  PROVE  BooksInv'
<1>1. CASE FenceLapses
  <2>1. ~fence'.valid
    BY <1>1 DEF FenceLapses, Whole, TypeOK, FenceType
  <2> QED
    BY <1>1, <2>1, IdleBooks DEF FenceLapses, db, world
<1>2. CASE UNCHANGED vars
  BY <1>2, IdleBooks DEF vars
<1> QED
  BY <1>1, <1>2, ExecuteBooks, ResolveBooks, DisposeBooks, ProcessBooks, ChildBooks,
     QuoteExpiresBooks, VenueRowBooks DEF Next

LEMMA BooksInit ==
  ASSUME Init
  PROVE  BooksInv
<1>1. \A o \in Orders : OrderBooks(o) /\ ~Live(o)
  BY DispatchAssumption DEF Init, OrderBooks, Absent, Closed, Live
<1>2. VenueBooks
  BY DEF Init, VenueBooks, VRows
<1>3. \A p \in Procs : task[p].pc = "idle"
  BY DEF Init, Idle
<1> QED
  BY <1>1, <1>2, <1>3 DEF BooksInv

LEMMA WholeAlways == Spec => []Whole
BY DispatchTypeCorrect, DispatchInvariant, PTL DEF Whole

\* The books of every order agree with its child and the venue, and a worker that
\* is about to claim, or has claimed, knows every other order the venue has got.
THEOREM BooksInvariant == Spec => []BooksInv
<1>1. Init => BooksInv
  BY BooksInit
<1>2. Whole /\ Whole' /\ BooksInv /\ [Next]_vars => BooksInv'
  BY BooksNext
<1> QED
  BY <1>1, <1>2, WholeAlways, PTL DEF Spec

\* An order that was rolled back, by whatever pass or operator and however late,
\* did not trade, and has no child that could still send it.
THEOREM RolledBackNeverTradedAlways == Spec => []RolledBackNeverTraded
<1>1. BooksInv => RolledBackNeverTraded
  BY DEF BooksInv, OrderBooks, RolledBackNeverTraded, Dead
<1> QED
  BY <1>1, BooksInvariant, PTL

\* A committed order is bound to its own landed swap: the rows that were there
\* before it, or are other orders', or the owner's, are never taken for it.
THEOREM CommittedIsOwnSwapAlways == Spec => []CommittedIsOwnSwap
<1>1. BooksInv => CommittedIsOwnSwap
  BY DEF BooksInv, OrderBooks, CommittedIsOwnSwap
<1> QED
  BY <1>1, BooksInvariant, PTL

\* The order row never runs ahead of the execution journal, whatever crash comes
\* between the two writes.
THEOREM JournalAgreementAlways == Spec => []JournalAgreement
<1>1. BooksInv => JournalAgreement
  BY DEF BooksInv, OrderBooks, JournalAgreement
<1> QED
  BY <1>1, BooksInvariant, PTL

-----------------------------------------------------------------------------
(* The ledger: what each step is there.                                    *)

\* The phase and the trade of an order as the ledger sees them, before and after.
Stays(x) == Phase(x)' = Phase(x) /\ (venue'[x].st = "finished" <=> venue[x].st = "finished")
Same == \A x \in Orders : Stays(x)
Turns(o, from, to) ==
  /\ Phase(o) \in from /\ Phase(o)' = to
  /\ venue'[o].st = "finished" <=> venue[o].st = "finished"
  /\ \A x \in Orders \ {o} : Stays(x)

Opens(o) == Turns(o, {"absent"}, "open")
Closes(o) == venue[o].st # "finished" /\ Turns(o, {"open", "dispatched"}, "closed")
Commits(o) == venue[o].st = "finished" /\ Turns(o, {"dispatched"}, "committed")
RollsBack(o) == venue[o].st # "finished" /\ Turns(o, {"closed", "dispatched"}, "rolled-back")
Trades(o) ==
  /\ Phase(o) = "dispatched" /\ Phase(o)' = "dispatched"
  /\ venue[o].st # "finished" /\ venue'[o].st = "finished"
  /\ \A x \in Orders \ {o} : Stays(x)
Enters(o) == Opens(o) \/ Closes(o) \/ Commits(o) \/ RollsBack(o) \/ Trades(o)

LEMMA PhaseKept ==
  ASSUME NEW x, Cas(row'[x]) = Cas(row[x])
  PROVE  Phase(x)' = Phase(x)
BY CasFields DEF Phase

\* A step that changes no compared column, and nothing at the venue.
LEMMA KeepsSame ==
  ASSUME RowsKeep, venue' = venue
  PROVE  Same
BY PhaseKept DEF RowsKeep, Same, Stays

\* A step that writes the compared columns of one row.
LEMMA WriteTurns ==
  ASSUME NEW p, NEW o, o = task[p].ord, NEW c, Writes(p, c), venue' = venue, NEW from, NEW to,
         Phase(o) \in from, Phase(o)' = to
  PROVE  Turns(o, from, to)
BY PhaseKept DEF Writes, Turns, Stays

\* What reached the venue and is claimed is not closed.
LEMMA ClosedUntraded ==
  ASSUME BooksInv, NEW o \in Orders, child[o] \in {"none", "refused"}
  PROVE  venue[o].st # "finished"
BY DEF BooksInv, VenueBooks, Unsent

LEMMA BeginOpens ==
  ASSUME Whole, BooksInv, NEW p \in Procs, Begin(p)
  PROVE  \E o \in Orders : Enters(o)
<1>0. PICK o \in Orders : o = task[p].ord
  BY AtBusy DEF Begin, Whole, Busy
<1>1. Writes(p, BegunCas) /\ row[o].dispatch = "absent" /\ venue' = venue
  BY <1>0, BeginEffect DEF Whole, Begin, world
<1>2. OrderInv(o)
  BY DEF Whole, DispatchInv
<1>3. row[o].outcome = "open"
  BY <1>1, <1>2 DEF OrderInv, Dead, Out
<1>4. row'[o].dispatch = "unclaimed" /\ row'[o].outcome = "open"
  BY <1>0, <1>1 DEF Writes, Cas, BegunCas
<1>5. Phase(o) = "absent" /\ Phase(o)' = "open"
  BY <1>1, <1>3, <1>4 DEF Phase
<1> QED
  BY <1>0, <1>1, <1>5, WriteTurns DEF Opens, Enters

\* A row closed by a compare-and-set, of a decision nothing was started for.
LEMMA CloseCloses ==
  ASSUME Whole, BooksInv, NEW p \in Procs, NEW o \in Orders, o = task[p].ord,
         Fresh(p), NEW d \in {"sealed", "not-started"}, Writes(p, ClosedCas(p, d)), venue' = venue,
         row[o].outcome = "open", row[o].dispatch \in {"unclaimed", "spawned"},
         child[o] \in {"none", "refused"}
  PROVE  Enters(o)
<1>1. task[p].seen = Cas(row[o])
  BY DEF Fresh, Mine
<1>2. Cas(row'[o]).dispatch = d /\ Cas(row'[o]).outcome = "open"
  BY <1>1 DEF Writes, ClosedCas, Cas
<1>3. row'[o].dispatch = d /\ row'[o].outcome = "open"
  BY <1>2 DEF Cas
<1>4. Phase(o) \in {"open", "dispatched"} /\ Phase(o)' = "closed"
  BY <1>3 DEF Phase
<1> QED
  BY <1>4, WriteTurns, ClosedUntraded DEF Closes, Enters

LEMMA SealCloses ==
  ASSUME Whole, BooksInv, NEW p \in Procs, Seal(p)
  PROVE  Same \/ \E o \in Orders : Enters(o)
<1>0. PICK o \in Orders : o = task[p].ord
  BY AtBusy DEF Seal, Whole, Busy
<1>1. Busy(p) /\ task[p].pc = "seal" /\ venue' = venue
  BY AtBusy DEF Seal, Whole, world
<1>2. CASE RowsKeep
  BY <1>1, <1>2, KeepsSame
<1>3. CASE Fresh(p) /\ Writes(p, ClosedCas(p, "sealed"))
  <2>1. TaskBooks(p) /\ OrderInv(o)
    BY <1>1 DEF BooksInv, Whole, DispatchInv, Busy
  <2>2. row[o].outcome = "open" /\ row[o].dispatch \in {"unclaimed", "spawned"}
    BY <1>0, <1>1, <1>3, <2>1, FreshFields DEF TaskBooks, Unread
  <2>3. child[o] = "none"
    BY <1>0, <1>1, <1>3, <2>1, <2>2, FreshFields DEF TaskBooks, OrderInv, Out
  <2> QED
    BY <1>0, <1>1, <1>3, <2>2, <2>3, CloseCloses
<1> QED
  BY <1>2, <1>3, SealEffect DEF Whole

LEMMA DisposeSealCloses ==
  ASSUME Whole, BooksInv, NEW p \in Procs, DisposeSeal(p)
  PROVE  Same \/ \E o \in Orders : Enters(o)
<1>0. PICK o \in Orders : o = task[p].ord
  BY AtBusy DEF DisposeSeal, Whole, Busy
<1>1. Busy(p) /\ task[p].pc = "d-seal" /\ venue' = venue
  BY AtBusy DEF DisposeSeal, Whole, world
<1>2. CASE RowsKeep
  BY <1>1, <1>2, KeepsSame
<1>3. CASE Fresh(p) /\ Writes(p, ClosedCas(p, "sealed")) /\ task[p].seen.dispatch = "unclaimed"
  <2>1. TaskBooks(p) /\ OrderInv(o)
    BY <1>1 DEF BooksInv, Whole, DispatchInv, Busy
  <2>2. row[o].outcome = "open" /\ row[o].dispatch = "unclaimed"
    BY <1>0, <1>1, <1>3, <2>1, FreshFields DEF TaskBooks, Unread
  <2>3. child[o] = "none"
    BY <2>1, <2>2 DEF OrderInv, Out
  <2> QED
    BY <1>0, <1>1, <1>3, <2>2, <2>3, CloseCloses
<1> QED
  BY <1>2, <1>3, DisposeSealEffect DEF Whole

LEMMA RecordCloses ==
  ASSUME Whole, BooksInv, NEW p \in Procs, Record(p)
  PROVE  Same \/ \E o \in Orders : Enters(o)
<1>0. PICK o \in Orders : o = task[p].ord
  BY AtBusy DEF Record, Whole, Busy
<1>1. Busy(p) /\ task[p].pc = "wait" /\ child[o] \in Answers \cup {"refused"} /\ venue' = venue
  BY <1>0, AtBusy DEF Record, Whole, world
<1>2. CASE RowsKeep
  BY <1>1, <1>2, KeepsSame
<1>3. CASE Fresh(p) /\ Writes(p, AnsweredCas(p))
  <2>1. task[p].seen = Cas(row[o])
    BY <1>0, <1>3 DEF Fresh, Mine
  <2>2. Cas(row'[o]).dispatch = row[o].dispatch /\ Cas(row'[o]).outcome = row[o].outcome
    BY <1>0, <1>3, <2>1 DEF Writes, AnsweredCas, Cas
  <2>3. row'[o].dispatch = row[o].dispatch /\ row'[o].outcome = row[o].outcome
    BY <2>2 DEF Cas
  <2>4. Phase(o)' = Phase(o)
    BY <2>3 DEF Phase
  <2> QED
    BY <1>0, <1>1, <1>3, <2>4, PhaseKept DEF Writes, Same, Stays
<1>4. CASE Fresh(p) /\ Writes(p, ClosedCas(p, "not-started")) /\ child[o] = "refused"
  <2>1. TaskBooks(p) /\ StepInv(p) /\ row[o] \in RowType /\ OrderInv(o)
    BY <1>1 DEF BooksInv, Whole, DispatchInv, TypeOK, Busy
  <2>2. row[o].outcome = "open" /\ Out(o)
    BY <1>0, <1>1, <1>4, <2>1, FreshFields DEF TaskBooks, StepInv, Unread
  <2>3. CASE Closed(o)
    <3>1. task[p].seen = Cas(row[o])
      BY <1>0, <1>4 DEF Fresh, Mine
    <3>2. Cas(row'[o]).dispatch = "not-started" /\ Cas(row'[o]).outcome = row[o].outcome
      BY <1>0, <1>4, <3>1 DEF Writes, ClosedCas, Cas
    <3>3. row'[o].dispatch = "not-started" /\ row'[o].outcome = row[o].outcome
      BY <3>2 DEF Cas
    <3>4. Phase(o)' = Phase(o)
      BY <2>2, <2>3, <3>3 DEF Phase, Closed
    <3> QED
      BY <1>0, <1>1, <1>4, <3>4, PhaseKept DEF Writes, Same, Stays
  <2>4. CASE ~Closed(o)
    <3>1. row[o].dispatch = "spawned"
      BY <2>1, <2>2, <2>4 DEF Out, Closed, RowType, Dispatches
    <3> QED
      BY <1>0, <1>1, <1>4, <2>2, <3>1, CloseCloses
  <2> QED
    BY <2>3, <2>4
<1>5. Fresh(p) /\ Writes(p, ClosedCas(p, "not-started")) /\ ~RowsKeep => child[o] = "refused" \/ Writes(p, AnsweredCas(p))
  <2>1. CASE Fresh(p) /\ child[o] # "refused"
    <3>1. task'[p].pc # "terminalize" /\ task'[p].pc # "idle"
      BY <1>0, <2>1 DEF Record, Patch, Whole, TypeOK, TaskType
    <3> QED
      BY <3>1, RecordEffect DEF Whole, Effect, Ended, Moves
  <2> QED
    BY <2>1
<1> QED
  BY <1>2, <1>3, <1>4, <1>5, RecordEffect DEF Whole

\* A decision written on an open order that is past its claim.
LEMMA OutPhase ==
  ASSUME Whole, NEW o \in Orders, Dead(o), row[o].outcome = "open"
  PROVE  Phase(o) \in {"closed", "dispatched"} /\ (~Closed(o) => Phase(o) = "dispatched")
<1>1. row[o].dispatch \in {"spawned", "sealed", "not-started"}
  BY DEF Whole, TypeOK, RowType, Dispatches, Dead, Out
<1> QED
  BY <1>1 DEF Phase, Closed

LEMMA DecidedPhase ==
  ASSUME NEW p, NEW o, o = task[p].ord, NEW outcome \in Outcomes \ {"open"},
         Writes(p, DecidedCas(p, outcome))
  PROVE  Phase(o)' = outcome
<1>1. Cas(row'[o]).outcome = outcome
  BY DEF Writes, DecidedCas, Cas
<1>2. row'[o].outcome = outcome
  BY <1>1 DEF Cas
<1> QED
  BY <1>2 DEF Phase

LEMMA RollbackRolls ==
  ASSUME Whole, BooksInv, NEW p \in Procs, Rollback(p) \/ DisposePatch(p)
  PROVE  Same \/ \E o \in Orders : Enters(o)
<1>0. PICK o \in Orders : o = task[p].ord
  BY AtBusy DEF Rollback, DisposePatch, Whole, Busy
<1>1. Busy(p) /\ task[p].pc \in {"rollback", "d-patch"} /\ venue' = venue
  BY AtBusy DEF Rollback, DisposePatch, Whole, world
<1>2. CASE RowsKeep
  BY <1>1, <1>2, KeepsSame
<1>3. CASE ~Fresh(p)
  <2>1. RowsKeep
    BY <1>3 DEF Rollback, DisposePatch, RowsKeep
  <2> QED
    BY <1>1, <2>1, KeepsSame
<1>4. CASE Fresh(p) /\ Writes(p, DecidedCas(p, "rolled-back"))
  <2>1. TaskBooks(p) /\ StepInv(p) /\ OrderBooks(o)
    BY <1>1 DEF BooksInv, Whole, DispatchInv, Busy
  <2>2. row[o].outcome = "open" /\ Dead(o) /\ jr[o].state = "ROLLED_BACK"
    BY <1>0, <1>1, <1>4, <2>1, FreshFields DEF TaskBooks, StepInv, Unread
  <2>3. venue[o].st # "finished"
    BY <2>1, <2>2 DEF OrderBooks, Untraded
  <2>4. Phase(o)' = "rolled-back"
    BY <1>0, <1>4, DecidedPhase DEF Outcomes
  <2>5. Turns(o, {"closed", "dispatched"}, "rolled-back")
    BY <1>0, <1>1, <1>4, <2>2, <2>4, OutPhase, WriteTurns
  <2> QED
    BY <2>3, <2>5 DEF RollsBack, Enters
<1> QED
  BY <1>2, <1>3, <1>4, RollbackEffect, DisposePatchEffect DEF Whole

LEMMA FillCommits ==
  ASSUME Whole, BooksInv, NEW p \in Procs, CompleteFill(p)
  PROVE  Same \/ \E o \in Orders : Enters(o)
<1>0. PICK o \in Orders : o = task[p].ord
  BY AtBusy DEF CompleteFill, Whole, Busy
<1>1. Busy(p) /\ task[p].pc = "fill" /\ venue' = venue
  BY AtBusy DEF CompleteFill, Whole, world
<1>2. TaskBooks(p) /\ StepInv(p) /\ OrderBooks(o) /\ VenueBooks /\ task[p].seen \in CasType
  BY <1>1 DEF BooksInv, Whole, DispatchInv, Busy, TypeOK, TaskType
<1>3. /\ jr[o].state = "COMMITTED" /\ venue[o].st = "finished" /\ Dead(o)
      /\ task[p].seen.outcome = "open"
  BY <1>0, <1>1, <1>2 DEF TaskBooks, StepInv, OrderBooks, Unread
<1>4. CASE RowsKeep
  BY <1>1, <1>4, KeepsSame
<1>5. CASE row[o].outcome = "open" /\ Writes(p, DecidedCas(p, "committed"))
  <2>1. ~Closed(o)
    BY <1>2, <1>3 DEF OrderBooks, VenueBooks, Unsent
  <2>2. Phase(o) = "dispatched"
    BY <1>3, <1>5, <2>1, OutPhase
  <2>3. Phase(o)' = "committed"
    BY <1>0, <1>5, DecidedPhase DEF Outcomes
  <2>4. Turns(o, {"dispatched"}, "committed")
    BY <1>0, <1>1, <1>5, <2>2, <2>3, WriteTurns
  <2> QED
    BY <1>3, <2>4 DEF Commits, Enters
<1>6. row[o].outcome # "open" => RowsKeep
  <2>1. [task[p].seen EXCEPT !.response = row[o].response].outcome = "open"
    BY <1>2, <1>3 DEF CasType
  <2>2. Cas(row[o]) = [task[p].seen EXCEPT !.response = row[o].response] => row[o].outcome = "open"
    BY <2>1 DEF Cas
  <2> QED
    BY <1>0, <2>2 DEF CompleteFill, RowsKeep
<1> QED
  BY <1>4, <1>5, <1>6, CompleteFillEffect DEF Whole

\* What the venue has pending was dispatched, and nothing decides it before it ends.
LEMMA PendingLive ==
  ASSUME Whole, BooksInv, NEW o \in Orders, venue[o].st = "pending"
  PROVE  Phase(o) = "dispatched"
<1>1. OrderBooks(o) /\ OrderInv(o) /\ VenueBooks /\ row[o] \in RowType
  BY DEF BooksInv, Whole, DispatchInv, TypeOK
<1>2. child[o] \notin Unsent
  BY <1>1 DEF VenueBooks
<1>3. Out(o) /\ ~Closed(o)
  BY <1>1, <1>2 DEF OrderInv, OrderBooks, Unsent
<1>4. row[o].dispatch = "spawned"
  BY <1>1, <1>3 DEF RowType, Dispatches, Out, Closed
<1>5. row[o].outcome = "open"
  BY <1>1 DEF OrderBooks, Untraded, RowType, Outcomes
<1> QED
  BY <1>4, <1>5 DEF Phase

LEMMA VenueTrades ==
  ASSUME Whole, BooksInv, NEW r \in VRows, Venue(r)
  PROVE  Same \/ \E o \in Orders : Enters(o)
<1>1. row' = row /\ venue \in [VRows -> VenueType]
  BY DEF Venue, VenuePlaces, VenueSettles, VenueLists, db, Whole, TypeOK
<1>2. \A x \in Orders : Phase(x)' = Phase(x)
  BY <1>1, PhaseKept
<1>3. \A s \in VRows \ {r} : venue'[s] = venue[s]
  BY <1>1 DEF Venue, VenuePlaces, VenueSettles, VenueLists
<1>4. CASE r \in Orders /\ venue[r].st = "pending" /\ venue'[r].st = "finished"
  <2>1. Phase(r) = "dispatched"
    BY <1>4, PendingLive
  <2>2. Trades(r)
    BY <1>2, <1>3, <1>4, <2>1 DEF Trades, Stays, VRows
  <2> QED
    BY <1>4, <2>2 DEF Enters
<1>5. CASE r \in Orders => (venue'[r].st = "finished" <=> venue[r].st = "finished")
  BY <1>2, <1>3, <1>5 DEF Same, Stays, VRows
<1>6. \/ venue[r].st = "pending" /\ venue'[r].st = "finished"
      \/ venue'[r].st = "finished" <=> venue[r].st = "finished"
  BY <1>1 DEF Venue, VenuePlaces, VenueSettles, VenueLists, VenueType
<1> QED
  BY <1>4, <1>5, <1>6

\* Every step but a claim: nothing for the ledger, or one of its entries.
LEMMA EntersNext ==
  ASSUME Whole, BooksInv, [Next]_vars, \A p \in Procs : ~Claim(p)
  PROVE  Same \/ \E o \in Orders : Enters(o)
<1>1. ASSUME NEW p \in Procs, Execute(p) PROVE Same \/ \E o \in Orders : Enters(o)
  <2>1. CASE \E o \in Orders : StartExecute(p, o)
    BY <2>1, KeepsSame DEF StartExecute, RowsKeep, db, world
  <2>2. CASE Snapshot(p) \/ Deny(p) \/ Refuse(p) \/ Launch(p)
    BY <2>2, KeepsSame DEF Snapshot, Deny, Refuse, Launch, RowsKeep, db, world
  <2>3. CASE Quote(p)
    BY <2>3, KeepsSame, QuoteEffect DEF Whole, Quote, world
  <2>4. CASE Mark(p)
    BY <2>4, KeepsSame, MarkEffect DEF Whole, Mark, world
  <2> QED
    BY <1>1, <2>1, <2>2, <2>3, <2>4, BeginOpens, SealCloses, RecordCloses DEF Execute
<1>2. ASSUME NEW p \in Procs, Resolve(p) PROVE Same \/ \E o \in Orders : Enters(o)
  <2>1. CASE \E o \in Orders : StartResolve(p, o)
    BY <2>1, KeepsSame DEF StartResolve, RowsKeep, db, world
  <2>2. CASE Read(p) \/ Leave(p)
    BY <2>2, KeepsSame DEF Read, Leave, RowsKeep, db, world
  <2>3. CASE Unanswered(p) \/ Terminalize(p) \/ Recover(p) \/ ListRows(p) \/ Finished(p) \/ FailedRow(p)
    <3>1. RowsKeep
      BY <2>3, UnansweredEffect, TerminalizeEffect, RecoverEffect, ListRowsEffect, FinishedEffect,
         FailedRowEffect DEF Whole
    <3>2. venue' = venue
      BY <2>3 DEF Unanswered, Terminalize, Recover, ListRows, Finished, FailedRow, Hold, Pass, Throws,
         Bind, CommitJournal, RollBackJournal, world
    <3> QED
      BY <3>1, <3>2, KeepsSame
  <2> QED
    BY <1>2, <2>1, <2>2, <2>3, RollbackRolls, FillCommits DEF Resolve
<1>3. ASSUME NEW p \in Procs, Dispose(p) PROVE Same \/ \E o \in Orders : Enters(o)
  <2>1. CASE \E o \in Orders : DisposeRead(p, o)
    BY <2>1, KeepsSame DEF DisposeRead, RowsKeep, db, world
  <2>2. CASE DisposeFence(p) \/ DisposeQuiet(p)
    BY <2>2, KeepsSame DEF DisposeFence, DisposeQuiet, RowsKeep, db, world
  <2>3. CASE DisposeRollback(p) \/ DisposeCommit(p)
    BY <2>3, KeepsSame, DisposeRollbackEffect, DisposeCommitEffect DEF Whole, DisposeRollback,
       DisposeCommit, Throws, CommitJournal, RollBackJournal, world
  <2> QED
    BY <1>3, <2>1, <2>2, <2>3, DisposeSealCloses, RollbackRolls DEF Dispose
<1>4. ASSUME NEW p \in Procs, Process(p) PROVE Same
  <2>1. row' = row /\ venue' = venue
    BY <1>4 DEF Process, TaskFails, GracefulExit, Crash, HeartbeatRefused, HostStops, Dies, db, world
  <2> QED
    BY <2>1, KeepsSame DEF RowsKeep
<1>5. ASSUME NEW o \in Orders, Child(o) PROVE Same
  <2>1. row' = row
    BY <1>5 DEF Child, ChildRuns, ChildRefuses, ChildSends, ChildAnswers, ChildLost, db
  <2>2. venue' = venue \/ (venue[o].st = "none" /\ venue' = [venue EXCEPT ![o].st = "sent"])
    BY <1>5 DEF Child, ChildRuns, ChildRefuses, ChildSends, ChildAnswers, ChildLost
  <2>3. \A x \in Orders : venue'[x].st = "finished" <=> venue[x].st = "finished"
    BY <2>2 DEF Whole, TypeOK, VenueType, VRows
  <2> QED
    BY <2>1, <2>3, PhaseKept DEF Same, Stays
<1>6. ASSUME NEW o \in Orders, QuoteExpires(o) PROVE Same
  BY <1>6, KeepsSame, QuoteExpiresTypes DEF Whole, QuoteExpires, world
<1>7. CASE FenceLapses \/ UNCHANGED vars
  BY <1>7, KeepsSame DEF FenceLapses, RowsKeep, vars, db, world
<1> QED
  BY <1>1, <1>2, <1>3, <1>4, <1>5, <1>6, <1>7, VenueTrades DEF Next

LEMMA ClaimDispatches ==
  ASSUME Whole, BooksInv, NEW p \in Procs, Claim(p)
  PROVE  \E o \in Orders : Turns(o, {"open"}, "dispatched") /\ \A x \in Orders : Phase(x) # "dispatched"
<1>0. PICK o \in Orders : o = task[p].ord
  BY AtBusy DEF Claim, Whole, Busy
<1>1. /\ Writes(p, ClaimedCas(p)) /\ venue' = venue /\ ~OtherObligation(o)
      /\ row[o].dispatch = "unclaimed" /\ row[o].outcome = "open"
  BY <1>0, ClaimEffect DEF Whole, Claim, world
<1>2. row'[o].dispatch = "spawned" /\ row'[o].outcome = "open"
  BY <1>0, <1>1 DEF Writes, Cas, ClaimedCas
<1>3. Phase(o) = "open" /\ Phase(o)' = "dispatched"
  BY <1>1, <1>2 DEF Phase
<1>4. ASSUME NEW x \in Orders PROVE Phase(x) # "dispatched"
  <2>1. CASE x = o
    BY <1>3, <2>1
  <2>2. CASE x # o
    <3>1. /\ row[x].dispatch = "absent" \/ row[x].outcome # "open"
          /\ row[x].outcome \in Outcomes
      BY <1>1, <2>2 DEF OtherObligation, Obligation, Whole, TypeOK, RowType
    <3> QED
      BY <3>1 DEF Phase, Outcomes
  <2> QED
    BY <2>1, <2>2
<1> QED
  BY <1>0, <1>1, <1>3, <1>4, WriteTurns

-----------------------------------------------------------------------------
(* The ledger is implemented.                                              *)

\* The entries in the ledger's own terms.
LEMMA LedgerEntry ==
  ASSUME NEW o \in Orders, Enters(o)
  PROVE  Ledger!Open(o) \/ Ledger!Close(o) \/ Ledger!Trade(o) \/ Ledger!Commit(o) \/ Ledger!RollBack(o)
<1> DEFINE phase == [x \in Orders |-> Phase(x)]
           traded == {x \in Orders : venue[x].st = "finished"}
<1>1. ASSUME NEW from, NEW to, Turns(o, from, to) PROVE Ledger!Step(o, from, to)
  <2>1. phase' = [phase EXCEPT ![o] = to]
    BY <1>1 DEF Turns, Stays
  <2>2. traded' = traded
    BY <1>1 DEF Turns, Stays
  <2>3. phase[o] \in from
    BY <1>1 DEF Turns
  <2> QED
    BY <2>1, <2>2, <2>3 DEF Ledger!Step
<1>2. CASE Opens(o)
  BY <1>1, <1>2 DEF Opens, Ledger!Open
<1>3. CASE Closes(o)
  BY <1>1, <1>3 DEF Closes, Ledger!Close
<1>4. CASE Commits(o)
  BY <1>1, <1>4 DEF Commits, Ledger!Commit
<1>5. CASE RollsBack(o)
  BY <1>1, <1>5 DEF RollsBack, Ledger!RollBack
<1>6. CASE Trades(o)
  <2>1. phase' = phase
    BY <1>6 DEF Trades, Stays
  <2>2. traded' = traded \cup {o}
    BY <1>6 DEF Trades, Stays
  <2>3. phase[o] = "dispatched" /\ o \notin traded
    BY <1>6 DEF Trades
  <2> QED
    BY <2>1, <2>2, <2>3 DEF Ledger!Trade
<1> QED
  BY <1>2, <1>3, <1>4, <1>5, <1>6 DEF Enters

LEMMA LedgerDispatch ==
  ASSUME NEW o \in Orders, Turns(o, {"open"}, "dispatched"), \A x \in Orders : Phase(x) # "dispatched"
  PROVE  Ledger!Dispatch(o)
<1> DEFINE phase == [x \in Orders |-> Phase(x)]
           traded == {x \in Orders : venue[x].st = "finished"}
<1>1. phase' = [phase EXCEPT ![o] = "dispatched"]
  BY DEF Turns, Stays
<1>2. traded' = traded
  BY DEF Turns, Stays
<1>3. phase[o] = "open" /\ \A x \in Orders : phase[x] # "dispatched"
  BY DEF Turns
<1> QED
  BY <1>1, <1>2, <1>3 DEF Ledger!Dispatch, Ledger!Step

LEMMA LedgerNext ==
  ASSUME Whole, BooksInv, [Next]_vars
  PROVE  [Ledger!Next]_<<[o \in Orders |-> Phase(o)], {o \in Orders : venue[o].st = "finished"}>>
<1>1. CASE \E p \in Procs : Claim(p)
  BY <1>1, ClaimDispatches, LedgerDispatch DEF Ledger!Next
<1>2. CASE \E o \in Orders : Enters(o)
  BY <1>2, LedgerEntry DEF Ledger!Next
<1>3. CASE Same
  <2>1. [o \in Orders |-> Phase(o)]' = [o \in Orders |-> Phase(o)]
    BY <1>3 DEF Same, Stays
  <2>2. {o \in Orders : venue[o].st = "finished"}' = {o \in Orders : venue[o].st = "finished"}
    BY <1>3 DEF Same, Stays
  <2> QED
    BY <2>1, <2>2
<1> QED
  BY <1>1, <1>2, <1>3, EntersNext

\* From any state the protocol reaches its steps are the ledger's: a late listing,
\* an operator's rollback and the wallet's next order never cross.
THEOREM LedgerStepsAlways == Spec => LedgerSteps
<1>1. Whole /\ BooksInv /\ [Next]_vars
        => [Ledger!Next]_<<[o \in Orders |-> Phase(o)], {o \in Orders : venue[o].st = "finished"}>>
  BY LedgerNext
<1> QED
  BY <1>1, WholeAlways, BooksInvariant, PTL DEF Spec, LedgerSteps, Ledger!Steps

\* The dispatch protocol implements the ledger: one decision out at a time, each
\* executed at most once, and booked as what happened to it.
THEOREM DispatchImplementsLedger == Spec => ImplementsLedger
<1>1. Init => Ledger!Init
  <2>1. SUFFICES ASSUME Init PROVE Ledger!Init
    OBVIOUS
  <2>2. \A o \in Orders : row[o].dispatch = "absent" /\ row[o].outcome = "open" /\ venue[o].st = "none"
    BY <2>1 DEF Init, Absent, VRows
  <2>3. \A o \in Orders : Phase(o) = "absent" /\ venue[o].st # "finished"
    BY <2>2 DEF Phase
  <2> QED
    BY <2>3 DEF Ledger!Init
<1> QED
  BY <1>1, LedgerStepsAlways, PTL DEF Spec, LedgerSteps, ImplementsLedger, Ledger!Spec

-----------------------------------------------------------------------------
(* The action properties.                                                  *)

LEMMA BreachStop ==
  ASSUME Whole, BooksInv, [Next]_vars, NEW o \in Buys,
         row[o].dispatch = "unclaimed", row'[o].dispatch = "spawned",
         NEW x \in Orders, row[x].outcome = "committed"
  PROVE  venue[row[x].tx].fill # "below"
<1>1. o \in Orders /\ OrderInv(o)
  BY DispatchAssumption DEF Whole, DispatchInv
<1>2. Phase(o) = "open"
  BY <1>1 DEF OrderInv, Dead, Out, Phase
<1>3. Phase(o)' # "open" /\ Phase(o)' # "closed"
  <2>1. Whole'
    BY TypeStep, DispatchStep DEF Whole
  <2>2. row'[o].outcome \in Outcomes
    BY <1>1, <2>1 DEF Whole, TypeOK, RowType
  <2> QED
    BY <2>2 DEF Phase, Outcomes
<1>4. \E p \in Procs : Claim(p)
  BY <1>1, <1>2, <1>3, EntersNext DEF Same, Stays, Enters, Opens, Closes, Commits, RollsBack, Trades, Turns
<1>5. PICK p \in Procs : Claim(p)
  BY <1>4
<1>6. task[p].ord = o
  <2>1. Writes(p, ClaimedCas(p))
    BY <1>5, ClaimEffect DEF Whole
  <2> QED
    BY <1>1, <2>1, CasFields DEF Writes
<1>7. ~entriesStopped
  BY <1>5, <1>6 DEF Claim, ClaimAllowed
<1>8. row[x].tx = x /\ ~Breached(x, x)
  BY <1>7 DEF BooksInv, OrderBooks
<1> QED
  BY <1>8 DEF BooksInv, VenueBooks, Breached

\* After a buy that filled below its minimum no further buy is claimed, by
\* whatever process and whatever it read before.
THEOREM NoBuyAfterBreachAlways == Spec => NoBuyAfterBreach
<1>1. Whole /\ BooksInv /\ [Next]_vars
        => [\A o \in Buys :
              row[o].dispatch = "unclaimed" /\ row'[o].dispatch = "spawned"
                => \A x \in Orders : row[x].outcome = "committed" => venue[row[x].tx].fill # "below"]_vars
  BY BreachStop
<1> QED
  BY <1>1, WholeAlways, BooksInvariant, PTL DEF Spec, NoBuyAfterBreach

\* A task that has read its order, and whose compare-and-set succeeds, writes an open one.
LEMMA FreshOpen ==
  ASSUME BooksInv, NEW p \in Procs, Busy(p), task[p].pc \notin Unread, Fresh(p)
  PROVE  row[task[p].ord].outcome = "open"
BY FreshFields DEF BooksInv, TaskBooks, Busy

\* No hash is bound to another order.
LEMMA NotTaken ==
  ASSUME BooksInv, NEW o \in Orders
  PROVE  ~TxTaken(o, o)
BY DispatchAssumption DEF BooksInv, OrderBooks, TxTaken

WritesOne(p) == \E new : row' = [row EXCEPT ![task[p].ord] = new]
OpenOnly(p) == row' = row \/ (WritesOne(p) /\ row[task[p].ord].outcome = "open")

LEMMA ExecuteOpen ==
  ASSUME Whole, BooksInv, NEW p \in Procs, Execute(p)
  PROVE  OpenOnly(p)
<1>1. CASE Begin(p)
  <2>0. Busy(p)
    BY <1>1, AtBusy DEF Begin, Whole
  <2>1. OrderInv(task[p].ord) /\ row[task[p].ord].dispatch = "absent"
    BY <1>1, <2>0 DEF Begin, Whole, DispatchInv, Busy
  <2>2. row[task[p].ord].outcome = "open"
    BY <2>1 DEF OrderInv, Dead, Out
  <2> QED
    BY <1>1, <2>2 DEF Begin, OpenOnly, WritesOne
<1>2. CASE Claim(p)
  BY <1>2 DEF Claim, ClaimAllowed, Patch, OpenOnly, WritesOne
<1>3. CASE Quote(p) \/ Seal(p) \/ Record(p)
  <2>1. Busy(p) /\ task[p].pc \notin Unread
    BY <1>3, AtBusy DEF Quote, Seal, Record, Whole, Unread
  <2>2. row' = row \/ (Fresh(p) /\ WritesOne(p))
    BY <1>3 DEF Quote, Seal, Record, Patch, WritesOne
  <2> QED
    BY <2>1, <2>2, FreshOpen DEF OpenOnly
<1>4. CASE \/ \E o \in Orders : StartExecute(p, o)
           \/ Snapshot(p) \/ Deny(p) \/ Refuse(p) \/ Launch(p) \/ Mark(p)
  BY <1>4 DEF StartExecute, Snapshot, Deny, Refuse, Launch, Mark, db, OpenOnly
<1> QED
  BY <1>1, <1>2, <1>3, <1>4 DEF Execute

LEMMA RecoverOpen ==
  ASSUME Whole, BooksInv, NEW p \in Procs, Recover(p)
  PROVE  OpenOnly(p)
<1>0. PICK o \in Orders : o = task[p].ord
  BY AtBusy DEF Recover, Whole, Busy
<1> DEFINE tx == IF row[o].tx # None THEN row[o].tx ELSE jr[o].tx
<1>1. Busy(p) /\ task[p].pc = "recover"
  BY AtBusy DEF Recover, Whole
<1>2. TaskBooks(p) /\ OrderBooks(o)
  BY <1>1 DEF BooksInv
<1>3. tx = o
  BY <1>0, <1>1, <1>2 DEF TaskBooks, OrderBooks
<1>4. ~TxTaken(o, tx)
  BY <1>3, NotTaken
<1>5. row' = row \/ (task[p].seen.outcome = "open" /\ Hold(p, TRUE))
  BY <1>0, <1>4 DEF Recover, Pass, db
<1>6. row' = row \/ (task[p].seen.outcome = "open" /\ Fresh(p) /\ WritesOne(p))
  BY <1>5 DEF Hold, WritesOne
<1> QED
  BY <1>6, FreshFields DEF OpenOnly

LEMMA ResolveOpen ==
  ASSUME Whole, BooksInv, NEW p \in Procs, Resolve(p)
  PROVE  OpenOnly(p)
<1>1. CASE \E o \in Orders : StartResolve(p, o)
  BY <1>1 DEF StartResolve, db, OpenOnly
<1>2. CASE Read(p) \/ Leave(p)
  BY <1>2 DEF Read, Leave, db, OpenOnly
<1>3. CASE Unanswered(p) \/ Terminalize(p) \/ ListRows(p) \/ Finished(p) \/ FailedRow(p) \/ Rollback(p)
  <2>0. \E pc \in {"unanswered", "terminalize", "list", "finished", "failed", "rollback"} : At(p, pc)
    BY <1>3 DEF Unanswered, Terminalize, ListRows, Finished, FailedRow, Rollback
  <2>1. Busy(p) /\ task[p].pc \notin Unread
    BY <2>0, AtBusy DEF Whole, Unread
  <2>2. row' = row \/ (Fresh(p) /\ WritesOne(p))
    BY <1>3 DEF Unanswered, Terminalize, ListRows, Finished, FailedRow, Rollback, Hold, Pass, Throws,
       Bind, CommitJournal, RollBackJournal, db, WritesOne
  <2> QED
    BY <2>1, <2>2, FreshOpen DEF OpenOnly
<1>4. CASE CompleteFill(p)
  <2> DEFINE o == task[p].ord
  <2>1. Busy(p) /\ task[p].pc = "fill"
    BY <1>4, AtBusy DEF CompleteFill, Whole
  <2>2. TaskBooks(p) /\ task[p].seen \in CasType
    BY <2>1 DEF BooksInv, Busy, Whole, TypeOK, TaskType
  <2>3. [task[p].seen EXCEPT !.response = row[o].response].outcome = "open"
    BY <2>1, <2>2 DEF TaskBooks, Unread, CasType
  <2>4. Cas(row[o]) = [task[p].seen EXCEPT !.response = row[o].response] => row[o].outcome = "open"
    BY <2>3 DEF Cas
  <2> QED
    BY <1>4, <2>4 DEF CompleteFill, OpenOnly, WritesOne
<1> QED
  BY <1>1, <1>2, <1>3, <1>4, RecoverOpen DEF Resolve

LEMMA DisposeOpen ==
  ASSUME Whole, BooksInv, NEW p \in Procs, Dispose(p)
  PROVE  OpenOnly(p)
<1>1. CASE \E o \in Orders : DisposeRead(p, o)
  BY <1>1 DEF DisposeRead, db, OpenOnly
<1>2. CASE DisposeFence(p) \/ DisposeQuiet(p)
  BY <1>2 DEF DisposeFence, DisposeQuiet, db, OpenOnly
<1>3. CASE DisposeRollback(p) \/ DisposeCommit(p)
  BY <1>3 DEF DisposeRollback, DisposeCommit, Throws, CommitJournal, RollBackJournal, db, OpenOnly
<1>4. CASE DisposeSeal(p) \/ DisposePatch(p)
  <2>1. Busy(p) /\ task[p].pc \notin Unread
    BY <1>4, AtBusy DEF DisposeSeal, DisposePatch, Whole, Unread
  <2>2. row' = row \/ (Fresh(p) /\ WritesOne(p))
    BY <1>4 DEF DisposeSeal, DisposePatch, Patch, WritesOne
  <2> QED
    BY <2>1, <2>2, FreshOpen DEF OpenOnly
<1> QED
  BY <1>1, <1>2, <1>3, <1>4 DEF Dispose

LEMMA RowFinal ==
  ASSUME Whole, BooksInv, [Next]_vars, NEW o \in Orders, row[o].outcome # "open"
  PROVE  row'[o] = row[o]
<1>1. ASSUME NEW p \in Procs, OpenOnly(p) PROVE row'[o] = row[o]
  BY <1>1 DEF OpenOnly, WritesOne, Whole, TypeOK
<1>2. ASSUME NEW x \in Orders, QuoteExpires(x) PROVE row'[o] = row[o]
  <2>1. OrderInv(x) /\ row[x].dispatch = "unclaimed"
    BY <1>2 DEF Whole, DispatchInv, QuoteExpires
  <2>2. x # o
    BY <2>1 DEF OrderInv, Dead, Out
  <2> QED
    BY <1>2, <2>2 DEF QuoteExpires, Whole, TypeOK
<1>3. ASSUME NEW p \in Procs, Process(p) PROVE row' = row
  BY <1>3 DEF Process, TaskFails, GracefulExit, Crash, HeartbeatRefused, HostStops, Dies, db
<1>4. ASSUME NEW x \in Orders, Child(x) PROVE row' = row
  BY <1>4 DEF Child, ChildRuns, ChildRefuses, ChildSends, ChildAnswers, ChildLost, db
<1>5. ASSUME NEW r \in VRows, Venue(r) PROVE row' = row
  BY <1>5 DEF Venue, VenuePlaces, VenueSettles, VenueLists, db
<1>6. CASE FenceLapses \/ UNCHANGED vars
  BY <1>6 DEF FenceLapses, vars, db
<1> QED
  BY <1>1, <1>2, <1>3, <1>4, <1>5, <1>6, ExecuteOpen, ResolveOpen, DisposeOpen DEF Next

\* What a step may write of the journal.
JournalMoves(p) ==
  \/ jr' = jr
  \/ \E s, tx : /\ Journal(task[p].ord, s, tx)
                /\ \/ jr[task[p].ord].state \notin Final
                   \/ jr[task[p].ord].state = s /\ s = "ROLLED_BACK" /\ tx = None

LEMMA RollBackMoves ==
  ASSUME NEW p, NEW pc, RollBackJournal(p, pc), jr[task[p].ord].state # "COMMITTED"
  PROVE  JournalMoves(p)
BY DEF RollBackJournal, JournalMoves, Final

LEMMA CommitMoves ==
  ASSUME NEW p, NEW tx, CommitJournal(p, tx), jr[task[p].ord].state # "ROLLED_BACK"
  PROVE  JournalMoves(p)
BY DEF CommitJournal, JournalMoves, Final

LEMMA TaskJournal ==
  ASSUME Whole, BooksInv, NEW p \in Procs, Execute(p) \/ Resolve(p) \/ Dispose(p) \/ Process(p)
  PROVE  JournalMoves(p)
<1>1. CASE Execute(p)
  <2>1. CASE Begin(p)
    <3>1. Busy(p) /\ row[task[p].ord].dispatch = "absent"
      BY <2>1, AtBusy DEF Begin, Whole
    <3>2. jr[task[p].ord].state = "none"
      BY <3>1 DEF BooksInv, OrderBooks, Busy
    <3>3. Journal(task[p].ord, "PENDING", None)
      BY <2>1 DEF Begin
    <3> QED
      BY <3>2, <3>3 DEF JournalMoves, Final
  <2>2. CASE Mark(p)
    <3>1. \/ jr' = jr
          \/ /\ jr[task[p].ord].state = "PENDING"
             /\ Journal(task[p].ord, "IN_PROGRESS", None) \/ Journal(task[p].ord, "UNKNOWN", None)
      BY <2>2 DEF Mark
    <3> QED
      BY <3>1 DEF JournalMoves, Final
  <2>3. CASE ~Begin(p) /\ ~Mark(p)
    <3>1. jr' = jr
      BY <1>1, <2>3 DEF Execute, StartExecute, Snapshot, Deny, Quote, Refuse, Seal, Claim, Launch, Record, db
    <3> QED
      BY <3>1 DEF JournalMoves
  <2> QED
    BY <2>1, <2>2, <2>3
<1>2. CASE Resolve(p)
  <2>1. CASE \E o \in Orders : StartResolve(p, o)
    BY <2>1 DEF StartResolve, JournalMoves, db
  <2>2. CASE Read(p) \/ Leave(p) \/ Unanswered(p) \/ Rollback(p) \/ CompleteFill(p) \/ Recover(p) \/ ListRows(p)
    <3>1. jr' = jr
      BY <2>2 DEF Read, Leave, Unanswered, Rollback, CompleteFill, Recover, ListRows, Hold, Pass, Bind, db
    <3> QED
      BY <3>1 DEF JournalMoves
  <2>3. CASE Terminalize(p) \/ Finished(p) \/ FailedRow(p)
    <3>1. \/ jr' = jr
          \/ jr[task[p].ord].state # "COMMITTED" /\ RollBackJournal(p, "rollback")
          \/ jr[task[p].ord].state # "ROLLED_BACK" /\ CommitJournal(p, task[p].pick)
      BY <2>3 DEF Terminalize, Finished, FailedRow, Hold, Pass, Throws, db
    <3>2. CASE jr' = jr
      BY <3>2 DEF JournalMoves
    <3> QED
      BY <3>1, <3>2, RollBackMoves, CommitMoves
  <2> QED
    BY <1>2, <2>1, <2>2, <2>3 DEF Resolve
<1>3. CASE Dispose(p)
  <2>1. CASE \E o \in Orders : DisposeRead(p, o)
    BY <2>1 DEF DisposeRead, JournalMoves, db
  <2>2. CASE DisposeFence(p) \/ DisposeQuiet(p) \/ DisposeSeal(p) \/ DisposePatch(p)
    BY <2>2 DEF DisposeFence, DisposeQuiet, DisposeSeal, DisposePatch, JournalMoves, db
  <2>3. CASE DisposeRollback(p) \/ DisposeCommit(p)
    <3>1. \/ jr' = jr
          \/ jr[task[p].ord].state # "COMMITTED" /\ RollBackJournal(p, "d-patch")
          \/ jr[task[p].ord].state # "ROLLED_BACK" /\ CommitJournal(p, task[p].ord)
      BY <2>3 DEF DisposeRollback, DisposeCommit, Throws, db
    <3>2. CASE jr' = jr
      BY <3>2 DEF JournalMoves
    <3> QED
      BY <3>1, <3>2, RollBackMoves, CommitMoves
  <2> QED
    BY <1>3, <2>1, <2>2, <2>3 DEF Dispose
<1>4. CASE Process(p)
  BY <1>4 DEF Process, TaskFails, GracefulExit, Crash, HeartbeatRefused, HostStops, Dies, JournalMoves, db
<1> QED
  BY <1>1, <1>2, <1>3, <1>4

LEMMA JournalFinal ==
  ASSUME Whole, BooksInv, [Next]_vars, NEW o \in Orders, jr[o].state \in Final
  PROVE  jr'[o] = jr[o]
<1>1. ASSUME NEW p \in Procs, JournalMoves(p) PROVE jr'[o] = jr[o]
  <2>1. SUFFICES ASSUME NEW s, NEW tx, Journal(task[p].ord, s, tx), o = task[p].ord,
                        jr[o].state = s, s = "ROLLED_BACK", tx = None
                 PROVE  jr'[o] = jr[o]
    BY <1>1 DEF JournalMoves, Journal, Whole, TypeOK
  <2>2. jr[o].tx = None /\ jr[o] \in JournalType
    BY <2>1 DEF BooksInv, OrderBooks, Whole, TypeOK
  <2>3. jr'[o] = [state |-> "ROLLED_BACK", tx |-> None]
    BY <2>1 DEF Journal, Whole, TypeOK
  <2> QED
    BY <2>1, <2>2, <2>3 DEF JournalType
<1>2. ASSUME NEW x \in Orders, Child(x) \/ QuoteExpires(x) PROVE jr' = jr
  BY <1>2 DEF Child, ChildRuns, ChildRefuses, ChildSends, ChildAnswers, ChildLost, QuoteExpires, db
<1>3. ASSUME NEW r \in VRows, Venue(r) PROVE jr' = jr
  BY <1>3 DEF Venue, VenuePlaces, VenueSettles, VenueLists, db
<1>4. CASE FenceLapses \/ UNCHANGED vars
  BY <1>4 DEF FenceLapses, vars, db
<1> QED
  BY <1>1, <1>2, <1>3, <1>4, TaskJournal DEF Next

\* A decision is final: no late answer, late pass or operator changes a decided row,
\* or a journal row that is COMMITTED or ROLLED_BACK.
THEOREM DecidedIsFinalAlways == Spec => DecidedIsFinal
<1>1. Whole /\ BooksInv /\ [Next]_vars
        => [\A o \in Orders :
              /\ row[o].outcome # "open" => row'[o] = row[o]
              /\ jr[o].state \in {"COMMITTED", "ROLLED_BACK"} => jr'[o] = jr[o]]_vars
  BY RowFinal, JournalFinal DEF Final
<1> QED
  BY <1>1, WholeAlways, BooksInvariant, PTL DEF Spec, DecidedIsFinal
=============================================================================
