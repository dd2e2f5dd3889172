------------------------- MODULE AgenticHireProofs -------------------------
(***************************************************************************)
(* The safety properties of AgenticHire hold in every run, for every set   *)
(* of pairings, wallets and tasks.  The invariant says what a stored row   *)
(* implies of the world, and what the copy of a row that a task has read   *)
(* still implies of the stored one, wherever the task is.  The last part   *)
(* proves that AgenticHire implements WalletHires.                         *)
(***************************************************************************)
EXTENDS AgenticHire, TLAPS

-----------------------------------------------------------------------------
(* The invariant.                                                          *)

Unpaired == {"waiting", "failed", "expired"}
Over == {"cleaning", "failed", "expired"}
Leaving == {"ending", "ended"}
Verifying == {"signin", "scan", "admit", "reread", "store", "undo"}
Full == {"settings", "exits"}

\* What the columns of a row imply of each other.
RowOK(r) ==
  /\ r.st \notin {"waiting"} \cup Terminal => r.w # None /\ r.session
  /\ r.hired => r.st \notin {"waiting", "verified", "paired"}
  /\ r.facts => r.hired /\ r.st \in Active \cup {"ended"}
  /\ r.st \in Active \cup {"ended"} => r.hired
  /\ r.st \in {"bound", "ending", "ended"} => r.facts
  /\ r.u => r.facts
  /\ r.why \in {"owner-signed-out", "term-ended"} => r.st = "ended"

\* What a row implies of the pairing's age, agent and drain, and of its session at Binance.
Sound(r, years, status, told, session, wrong) ==
  /\ RowOK(r)
  /\ ~r.hired => years <= 1
  /\ status = "armed" => r.facts
  /\ r.drain => told = Full
  /\ r.sell /\ r.st \in Leaving /\ r.why \in {None, "term-ended"} => told = Full
  /\ session = "live" =>
       /\ years < 4
       /\ r.u => wrong >= 1
       /\ r.st = "ended" => wrong >= (IF r.why = "owner-signed-out" THEN 2 ELSE 1)
RowTrue(p) == Sound(row[p], age[p], agent[p], drained[p], binance[p], flakes)
RowsInv == \A p \in Live : RowTrue(p)

\* What has no row has no agent either.
NoRowsInv == \A p \in Pairings \ Live : age[p] = 0 /\ agent[p] # "armed"

\* A row comes after another: what a copy says of the stored one.
Follows(r, s) ==
  /\ r.facts => s.facts
  /\ r.st \in Over => s.st \in Over
  /\ r.st \in Leaving => s.st \in Leaving

\* The copy a task has read, by the place where it is.
Fits(pc, r) ==
  /\ pc \in {"admit", "reread", "store"} => r.w \in Wallets
  /\ pc = "code" => r.st \in {"waiting", "verified"} /\ r.att < Attempts
  /\ pc = "facts" => r.st \in {"verified", "paired"}
  /\ pc = "accept" => r.st = "paired"
  /\ pc \in {"gate", "gated", "refuse"} => r.st = "hiring" /\ ~r.facts
  /\ pc \in {"arm", "staged", "bind"} => r.facts
  /\ pc = "clean" => r.st \in {"verified", "paired", "cleaning"}
  /\ pc \in {"cleaning", "signout", "cleaned"} => r.st = "cleaning"
  /\ pc \in {"end", "leave", "logout", "record", "verify"} => r.st = "ending"

\* Only the verifier of a pairing changes the wallet of its copy.
Matches(pc, r, s) == r = [s EXCEPT !.w = r.w] /\ (pc \notin {"admit", "reread", "store", "undo"} => r = s)

\* What a task knows of the stored row, and of what the pairing was told or has ordered.
Knows(k, s) == Follows(k.row, s) /\ (k.fresh => Matches(k.at, k.row, s))
Placed(k, told, state, years) ==
  /\ k.row.drain => told = Full
  /\ k.at = "exits" => "settings" \in told
  /\ k.at = "mark" => told = Full
  /\ k.at = "term" /\ k.row.st = "bound" /\ k.row.sell /\ k.age >= 2 => told = Full
  /\ k.at \in {"leave", "logout"} => state # "spawned" \/ years >= 3
VerifierOf(t, p, k, s) == k.at \in Verifying => t \in Pairings /\ p = t /\ s.st \in Unpaired /\ ~s.hired

TaskTrue(t) ==
  LET k == task[t]  p == task[t].p IN
  /\ p \in Live /\ k.row \in RowType /\ RowOK(k.row) /\ Fits(k.at, k.row)
  /\ Knows(k, row[p]) /\ Placed(k, drained[p], order[p], age[p]) /\ VerifierOf(t, p, k, row[p])
  /\ t \notin Api => k.row.facts
TasksInv == \A t \in Tasks : task[t] \in {Idle, Off} \/ (task[t].at \notin {"idle", "off"} /\ TaskTrue(t))

\* The types of what is neither a row nor a task.
WorldTypes ==
  /\ age \in [Pairings -> 0..4] /\ aged \in [Pairings -> SUBSET {"u", "logout"}]
  /\ binance \in [Pairings -> {"none", "live", "out"}] /\ agent \in [Pairings -> {None, "armed", "revoked"}]
  /\ order \in [Pairings -> {"none", "listed", "spawned", "held"}]
  /\ drained \in [Pairings -> SUBSET {"settings", "exits"}] /\ cancel \subseteq Pairings
  /\ fence \in [Wallets -> Tasks \cup {None, Gone}] /\ {flakes, touches, crashes} \subseteq Nat
Types == row \in [Pairings -> RowType \cup {None}] /\ task \in [Tasks -> TaskType] /\ WorldTypes

HireInv == Types /\ OneHirePerWallet /\ RowsInv /\ NoRowsInv /\ TasksInv
-----------------------------------------------------------------------------
(* How tasks move.                                                         *)

USE HireAssumption, NullAssumption

\* The task leaves at pc with the copy it has.
LEMMA AtType ==
  ASSUME NEW k \in TaskType, NEW pc \in Places
  PROVE  /\ At(k, pc) \in TaskType
         /\ pc = "idle" => At(k, pc) = Idle
         /\ pc # "idle" => /\ At(k, pc).at = pc /\ At(k, pc).p = k.p /\ At(k, pc).row = k.row
                           /\ At(k, pc).fresh = k.fresh
                           /\ At(k, pc).age = IF pc \in {"exits", "mark", "term"} THEN k.age ELSE 0
<1>1. CASE pc = "idle"
  BY <1>1 DEF At, Idle, TaskType, Places
<1>2. CASE pc # "idle"
  <2> DEFINE n == [k EXCEPT !.at = pc, !.age = IF pc \in {"exits", "mark", "term"} THEN @ ELSE 0]
  <2>1. At(k, pc) = n
    BY <1>2 DEF At
  <2>2. k.age \in 0..4 /\ 0 \in 0..4
    BY DEF TaskType
  <2>3. n \in TaskType
    BY <2>2 DEF TaskType
  <2> QED
    BY <1>2, <2>1, <2>3 DEF TaskType
<1> QED
  BY <1>1, <1>2

LEMMA IdleType == Idle \in TaskType /\ Off \in TaskType /\ Idle.at = "idle" /\ Off.at = "off" /\ ~Idle.fresh /\ ~Off.fresh
<1>1. Idle \in TaskType /\ Idle.at = "idle" /\ ~Idle.fresh
  BY DEF Idle, TaskType, Places
<1>2. "off" \in Places
  BY DEF Places
<1> QED
  BY <1>1, <1>2 DEF Off, TaskType

\* Where nobody writes a row that hurts: what the rest of the world may do meanwhile.
Calm ==
  /\ \A q \in Pairings : drained[q] \subseteq drained'[q]
  /\ flakes <= flakes'
  /\ \A q \in Live :
       /\ order'[q] = "spawned" => order[q] = "spawned" \/ row[q].st = "bound"
       /\ agent'[q] = "armed" => agent[q] = "armed" \/ row[q].facts
       /\ binance'[q] = "live" => binance[q] = "live" \/ ~row[q].hired
       /\ age[q] <= age'[q] \/ row[q].st \notin Leaving
       /\ age'[q] <= 1 \/ row[q].hired
       /\ age'[q] < 4 \/ age'[q] = age[q] \/ binance'[q] # "live"
  /\ \A q \in Pairings \ Live : age'[q] = age[q] /\ (agent'[q] = "armed" => agent[q] = "armed")

LEMMA StillIsCalm ==
  ASSUME HireInv, UNCHANGED <<age, binance, order, drained, flakes>>,
         \A q \in Pairings : agent'[q] = "armed" => agent[q] = "armed"
  PROVE  Calm
<1>1. flakes \in Nat /\ \A q \in Pairings : age[q] \in 0..4
  BY DEF HireInv, Types, WorldTypes
<1>2. \A q \in Live : age[q] <= 1 \/ row[q].hired
  BY DEF HireInv, RowsInv, RowTrue, Sound
<1>3. \A q \in Live : q \in Pairings
  BY DEF Live
<1>4. age' = age /\ binance' = binance /\ order' = order /\ drained' = drained /\ flakes' = flakes
  OBVIOUS
<1>5. \A q \in Pairings : age[q] <= age[q] /\ flakes <= flakes
  BY <1>1
<1>6. \A q \in Live :
        /\ order'[q] = "spawned" => order[q] = "spawned" \/ row[q].st = "bound"
        /\ agent'[q] = "armed" => agent[q] = "armed" \/ row[q].facts
        /\ binance'[q] = "live" => binance[q] = "live" \/ ~row[q].hired
        /\ age[q] <= age'[q] \/ row[q].st \notin Leaving
        /\ age'[q] <= 1 \/ row[q].hired
        /\ age'[q] < 4 \/ age'[q] = age[q] \/ binance'[q] # "live"
  BY <1>2, <1>3, <1>4, <1>5
<1>7. flakes <= flakes'
  BY <1>1, <1>4
<1> QED
  BY <1>4, <1>6, <1>7 DEF Calm

\* What a stored row implies stays true while the world moves on.
LEMMA SoundStays ==
  ASSUME HireInv, WorldTypes', Calm, NEW q \in Live
  PROVE  Sound(row[q], age'[q], agent'[q], drained'[q], binance'[q], flakes')
<1>1. RowTrue(q) /\ q \in Pairings
  BY DEF HireInv, RowsInv, Live
<1>2. /\ drained[q] = Full => drained'[q] = Full
      /\ flakes \in Nat /\ flakes' \in Nat /\ flakes <= flakes' /\ age[q] \in 0..4 /\ age'[q] \in 0..4
  BY <1>1 DEF Calm, HireInv, Types, WorldTypes, Full
<1>3. /\ agent'[q] = "armed" => agent[q] = "armed" \/ row[q].facts
      /\ binance'[q] = "live" => binance[q] = "live" \/ ~row[q].hired
      /\ age'[q] <= 1 \/ row[q].hired
      /\ age'[q] < 4 \/ age'[q] = age[q] \/ binance'[q] # "live"
  BY DEF Calm
<1> QED
  BY <1>1, <1>2, <1>3 DEF RowTrue, Sound, RowOK, Active

LEMMA SameRow ==
  ASSUME HireInv, WorldTypes', Calm, NEW q \in Live, row'[q] = row[q]
  PROVE  RowTrue(q)'
BY SoundStays DEF RowTrue

\* A task that stands still while a row may be written by t.
RowsGrow(t) ==
  \A q \in Live :
    /\ row'[q] # None /\ Follows(row[q], row'[q])
    /\ task[q].at \in Verifying /\ q # t => row'[q].st \in Unpaired /\ ~row'[q].hired

LEMMA OtherTask ==
  ASSUME HireInv, WorldTypes', Calm, NEW t, RowsGrow(t), NEW s \in Tasks \ {t}, task[s].at \notin {"idle", "off"},
         task'[s] = task[s] \/ task'[s] = [task[s] EXCEPT !.fresh = FALSE],
         task'[s].fresh => row'[task[s].p] = row[task[s].p]
  PROVE  task'[s].at \notin {"idle", "off"} /\ TaskTrue(s)'
<1> DEFINE k == task[s]
           n == task'[s]
           p == task[s].p
<1>1. TaskTrue(s) /\ k \in TaskType
  BY IdleType DEF HireInv, TasksInv, Types
<1>2. n.at = k.at /\ n.p = k.p /\ n.row = k.row /\ n.age = k.age /\ (n.fresh => k.fresh)
  BY <1>1 DEF TaskType
<1>3. p \in Live /\ p \in Pairings
  BY <1>1 DEF TaskTrue, Live
<1>4. p \in Live'
  BY <1>3 DEF RowsGrow, Live
<1>5. Knows(n, row'[p])
  <2>1. Follows(k.row, row[p]) /\ Follows(row[p], row'[p])
    BY <1>1, <1>3 DEF TaskTrue, Knows, RowsGrow
  <2>2. Follows(k.row, row'[p])
    BY <2>1 DEF Follows
  <2>3. n.fresh => Matches(n.at, n.row, row'[p])
    BY <1>1, <1>2 DEF TaskTrue, Knows
  <2> HIDE DEF k, n
  <2> QED
    BY <1>2, <2>2, <2>3 DEF Knows
<1>6. Placed(n, drained'[p], order'[p], age'[p])
  <2>1. /\ drained[p] \subseteq drained'[p] /\ drained'[p] \subseteq Full
        /\ age[p] \in 0..4 /\ age'[p] \in 0..4
    BY <1>3 DEF Calm, WorldTypes, HireInv, Types, Full
  <2>2. k.at \in {"leave", "logout"} => row[p].st \in Leaving
    BY <1>1 DEF TaskTrue, Fits, Knows, Follows, Leaving
  <2>3. k.at \in {"leave", "logout"} => (order'[p] = "spawned" => order[p] = "spawned") /\ age[p] <= age'[p]
    BY <1>3, <2>2 DEF Calm, Leaving
  <2>4. Placed(k, drained[p], order[p], age[p])
    BY <1>1 DEF TaskTrue
  <2> HIDE DEF k, n
  <2> QED
    BY <1>2, <2>1, <2>3, <2>4 DEF Placed, Full
<1>7. VerifierOf(s, p, n, row'[p])
  BY <1>1, <1>2, <1>3 DEF TaskTrue, VerifierOf, RowsGrow
<1> HIDE DEF k, n
<1>8. /\ n.row \in RowType /\ RowOK(n.row) /\ Fits(n.at, n.row) /\ (s \notin Api => n.row.facts)
      /\ n.at \notin {"idle", "off"} /\ n.p = p
  BY <1>1, <1>2 DEF TaskTrue, k, p
<1> HIDE DEF p
<1> QED
  BY <1>4, <1>5, <1>6, <1>7, <1>8 DEF TaskTrue, n
-----------------------------------------------------------------------------
(* Steps that write no row.                                                *)

LEMMA RowsStay ==
  ASSUME HireInv, WorldTypes', Calm, UNCHANGED row
  PROVE  OneHirePerWallet' /\ RowsInv' /\ NoRowsInv' /\ (\A t : RowsGrow(t)) /\ Live' = Live
<1>1. Live' = Live
  BY DEF Live
<1>2. OneHirePerWallet'
  BY <1>1 DEF HireInv, OneHirePerWallet
<1>3. RowsInv'
  BY <1>1, SameRow DEF RowsInv
<1>4. NoRowsInv'
  <2>1. \A q \in Pairings \ Live : age'[q] = age[q] /\ (agent'[q] = "armed" => agent[q] = "armed")
    BY DEF Calm
  <2> QED
    BY <1>1, <2>1 DEF HireInv, NoRowsInv
<1>5. \A t : RowsGrow(t)
  <2>1. SUFFICES ASSUME NEW q \in Live, task[q].at \in Verifying
                 PROVE  row[q].st \in Unpaired /\ ~row[q].hired
    BY DEF RowsGrow, Follows, Live
  <2>2. q \in Tasks
    BY DEF Live, Tasks, Api
  <2>3. TaskTrue(q)
    BY <2>1, <2>2 DEF HireInv, TasksInv, Idle, Off, Verifying
  <2> QED
    BY <2>1, <2>3 DEF TaskTrue, VerifierOf
<1> QED
  BY <1>1, <1>2, <1>3, <1>4, <1>5

\* One task goes on; nobody writes a row.
LEMMA MoveKeeps ==
  ASSUME HireInv, WorldTypes', Calm, UNCHANGED row, NEW t \in Tasks, NEW k \in TaskType,
         task' = [task EXCEPT ![t] = k],
         k \in {Idle, Off} \/ (k.at \notin {"idle", "off"} /\ TaskTrue(t)')
  PROVE  HireInv'
<1>1. task' \in [Tasks -> TaskType] /\ task'[t] = k /\ \A s \in Tasks \ {t} : task'[s] = task[s]
  BY DEF HireInv, Types
<1>2. Types'
  BY <1>1 DEF HireInv, Types
<1>3. OneHirePerWallet' /\ RowsInv' /\ NoRowsInv' /\ RowsGrow(t)
  BY RowsStay
<1>4. ASSUME NEW s \in Tasks \ {t}
      PROVE  task'[s] \in {Idle, Off} \/ (task'[s].at \notin {"idle", "off"} /\ TaskTrue(s)')
  <2>1. task'[s] = task[s] /\ (task[s] \in {Idle, Off} \/ task[s].at \notin {"idle", "off"})
    BY <1>1 DEF HireInv, TasksInv
  <2>2. CASE task[s].at \notin {"idle", "off"}
    BY <1>3, <2>1, <2>2, OtherTask
  <2> QED
    BY <2>1, <2>2
<1>5. TasksInv'
  BY <1>1, <1>4 DEF TasksInv
<1> QED
  BY <1>2, <1>3, <1>5 DEF HireInv

\* Nobody goes on, and nobody writes a row.
LEMMA WorldKeeps ==
  ASSUME HireInv, WorldTypes', Calm, UNCHANGED <<row, task>>
  PROVE  HireInv'
<1>1. Types'
  BY DEF HireInv, Types
<1>2. OneHirePerWallet' /\ RowsInv' /\ NoRowsInv' /\ RowsGrow(None)
  BY RowsStay
<1>3. ASSUME NEW s \in Tasks \ {None}
      PROVE  task'[s] \in {Idle, Off} \/ (task'[s].at \notin {"idle", "off"} /\ TaskTrue(s)')
  <2>1. task'[s] = task[s] /\ (task[s] \in {Idle, Off} \/ task[s].at \notin {"idle", "off"})
    BY DEF HireInv, TasksInv
  <2>2. CASE task[s].at \notin {"idle", "off"}
    BY <1>2, <2>1, <2>2, OtherTask
  <2> QED
    BY <2>1, <2>2
<1>4. None \notin Tasks
  OBVIOUS
<1> QED
  BY <1>1, <1>2, <1>3, <1>4 DEF HireInv, TasksInv

\* What a task at work knows.
LEMMA AtWork ==
  ASSUME HireInv, NEW t \in Tasks, task[t].at \notin {"idle", "off"}
  PROVE  /\ TaskTrue(t) /\ task[t] \in TaskType /\ task[t].p \in Live /\ task[t].p \in Pairings
         /\ task[t].row \in RowType /\ RowOK(task[t].row) /\ Fits(task[t].at, task[t].row)
         /\ row[task[t].p] \in RowType /\ RowTrue(task[t].p) /\ RowOK(row[task[t].p])
<1>1. TaskTrue(t) /\ task[t] \in TaskType
  BY IdleType DEF HireInv, TasksInv, Types
<1>2. task[t].p \in Live /\ task[t].row \in RowType /\ RowOK(task[t].row) /\ Fits(task[t].at, task[t].row)
  BY <1>1 DEF TaskTrue
<1>3. \A p \in Live : p \in Pairings /\ row[p] \in RowType /\ RowTrue(p) /\ RowOK(row[p])
  BY DEF HireInv, Types, Live, RowsInv, RowTrue, Sound
<1> QED
  BY <1>1, <1>2, <1>3

\* The places that need nothing but a fitting copy.
Plain == Places \ (Verifying \cup {"off", "exits", "mark", "term", "leave", "logout"})

\* A task goes on with the copy it has.
LEMMA GoKeeps ==
  ASSUME HireInv, WorldTypes', Calm, UNCHANGED row, NEW t \in Tasks, NEW pc \in Places, Go(t, pc),
         task[t].at \notin {"idle", "off"}, pc # "off",
         pc # "idle" => /\ Fits(pc, task[t].row)
                        /\ task[t].at \in {"admit", "reread", "store", "undo"} => pc \in Verifying \ {"signin", "scan"}
                        /\ pc \in Verifying => task[t].at \in Verifying
                        /\ Placed(At(task[t], pc), drained'[task[t].p], order'[task[t].p], age'[task[t].p])
  PROVE  HireInv'
<1> DEFINE k == At(task[t], pc)
           p == task[t].p
<1>1. TaskTrue(t) /\ task[t] \in TaskType /\ p \in Live
  BY AtWork
<1>2. k \in TaskType /\ (pc = "idle" => k = Idle)
      /\ (pc # "idle" => k.at = pc /\ k.p = p /\ k.row = task[t].row /\ k.fresh = task[t].fresh)
  BY <1>1, AtType
<1>3. task' = [task EXCEPT ![t] = k] /\ task'[t] = k
  BY DEF Go, HireInv, Types
<1>4. CASE pc = "idle"
  BY <1>2, <1>3, <1>4, MoveKeeps
<1>5. CASE pc # "idle"
  <2>1. Knows(k, row[p])
    BY <1>1, <1>2, <1>5 DEF TaskTrue, Knows, Matches, Verifying
  <2>2. VerifierOf(t, p, k, row[p])
    BY <1>1, <1>2, <1>5 DEF TaskTrue, VerifierOf
  <2>3. Placed(k, drained'[p], order'[p], age'[p])
    BY <1>5
  <2>4. /\ k.row \in RowType /\ RowOK(k.row) /\ Fits(k.at, k.row) /\ (t \notin Api => k.row.facts)
        /\ k.at \notin {"idle", "off"} /\ k.p = p
    BY <1>1, <1>2, <1>5 DEF TaskTrue
  <2> HIDE DEF k, p
  <2>5. TaskTrue(t)'
    BY <1>1, <1>3, <2>1, <2>2, <2>3, <2>4 DEF TaskTrue, Live
  <2> QED
    BY <1>2, <1>3, <2>4, <2>5, MoveKeeps
<1> QED
  BY <1>4, <1>5

LEMMA PlainKeeps ==
  ASSUME HireInv, WorldTypes', Calm, UNCHANGED row, NEW t \in Tasks, NEW pc \in Plain, Go(t, pc),
         task[t].at \notin {"idle", "off"},
         pc # "idle" => Fits(pc, task[t].row) /\ task[t].at \notin {"admit", "reread", "store", "undo"}
  PROVE  HireInv'
<1>1. TaskTrue(t) /\ task[t] \in TaskType /\ task[t].p \in Pairings
  BY AtWork
<1>2. pc \in Places /\ pc # "off" /\ pc \notin Verifying
  BY DEF Plain
<1>3. ASSUME pc # "idle"
      PROVE  Placed(At(task[t], pc), drained'[task[t].p], order'[task[t].p], age'[task[t].p])
  <2> DEFINE k == At(task[t], pc)
  <2>1. k.at = pc /\ k.row = task[t].row
    BY <1>1, <1>2, <1>3, AtType
  <2>2. task[t].row.drain => drained[task[t].p] = Full
    BY <1>1 DEF TaskTrue, Placed
  <2>3. drained[task[t].p] \subseteq drained'[task[t].p] /\ drained'[task[t].p] \subseteq Full
    BY <1>1 DEF Calm, WorldTypes, Full
  <2> HIDE DEF k
  <2>4. Placed(k, drained'[task[t].p], order'[task[t].p], age'[task[t].p])
    BY <2>1, <2>2, <2>3 DEF Placed, Plain
  <2> QED
    BY <2>4 DEF k
<1> QED
  BY <1>2, <1>3, GoKeeps

LEMMA SameCopy ==
  ASSUME NEW r \in RowType, NEW pc
  PROVE  Matches(pc, r, r)
BY DEF Matches, RowType

\* A task reads the stored row.
LEMMA ReadKeeps ==
  ASSUME HireInv, WorldTypes', Calm, UNCHANGED row, NEW t \in Tasks, NEW p \in Live,
         NEW pc \in (Plain \ {"idle"}) \cup {"logout"}, Read(t, p, pc),
         Fits(pc, row[p]), t \notin Api => row[p].facts,
         pc = "logout" => order'[p] # "spawned" \/ age'[p] >= 3
  PROVE  HireInv'
<1> DEFINE k == [at |-> pc, p |-> p, row |-> row[p], fresh |-> TRUE, age |-> age[p]]
<1>1. p \in Pairings /\ row[p] \in RowType /\ RowTrue(p) /\ RowOK(row[p]) /\ age[p] \in 0..4
  BY DEF HireInv, Types, WorldTypes, Live, RowsInv, RowTrue, Sound
<1>2. pc \in Places /\ pc \notin {"idle", "off", "exits", "mark", "term", "leave"} \cup Verifying
  BY DEF Plain, Places, Verifying
<1>3. k \in TaskType
  BY <1>1, <1>2 DEF TaskType
<1>4. task' = [task EXCEPT ![t] = k] /\ task'[t] = k
  BY DEF Read, HireInv, Types
<1>5. k.at = pc /\ k.p = p /\ k.row = row[p]
  OBVIOUS
<1>6. drained[p] \subseteq drained'[p] /\ drained'[p] \subseteq Full /\ (row[p].drain => drained[p] = Full)
  BY <1>1 DEF Calm, WorldTypes, Full, RowTrue, Sound
<1> HIDE DEF k
<1>7. Knows(k, row[p]) /\ Placed(k, drained'[p], order'[p], age'[p]) /\ VerifierOf(t, p, k, row[p])
  <2>1. Matches(k.at, row[p], row[p])
    BY <1>1, SameCopy
  <2>2. Knows(k, row[p])
    BY <1>5, <2>1 DEF Knows, Follows
  <2>3. Placed(k, drained'[p], order'[p], age'[p])
    BY <1>2, <1>5, <1>6 DEF Placed
  <2> QED
    BY <1>2, <1>5, <2>2, <2>3 DEF VerifierOf
<1>8. TaskTrue(t)'
  BY <1>1, <1>4, <1>5, <1>7 DEF TaskTrue, Live
<1> QED
  BY <1>2, <1>3, <1>4, <1>5, <1>8, MoveKeeps

-----------------------------------------------------------------------------
(* Steps that write a row.                                                 *)

\* A write the code makes, next to what its task had read.
Written(t, r) ==
  /\ Wins(t, r) /\ r \in RowType
  /\ Sound(r, age'[task[t].p], agent'[task[t].p], drained'[task[t].p], binance'[task[t].p], flakes')
  /\ task[t].row.facts => r.facts
  /\ r.hired => task[t].row.hired \/ task[t].row.st = "paired"
  /\ r.st = "verified" => task[t].row.st = "verified" \/ task[t].at = "store"

\* The stored row that a task is about to write is the one it has read.
LEMMA FreshRow ==
  ASSUME HireInv, NEW t \in Tasks, task[t].at \notin {"idle", "off"}, task[t].fresh
  PROVE  /\ row[task[t].p].st = task[t].row.st /\ row[task[t].p].facts = task[t].row.facts
         /\ row[task[t].p].hired = task[t].row.hired
         /\ task[t].at \notin {"admit", "reread", "store", "undo"} => row[task[t].p] = task[t].row
<1>1. Matches(task[t].at, task[t].row, row[task[t].p])
  BY AtWork DEF TaskTrue, Knows
<1>2. row[task[t].p] \in RowType
  BY AtWork
<1> QED
  BY <1>1, <1>2 DEF Matches, RowType

LEMMA StoreKeeps ==
  ASSUME HireInv, WorldTypes', Calm, NEW t \in Tasks, task[t].at \notin {"idle", "off"},
         NEW r, NEW pc \in Places, Written(t, r), Store(t, task[t].p, r, pc), pc # "off",
         pc # "idle" =>
           /\ Fits(pc, r)
           /\ pc \in Verifying => task[t].at \in Verifying /\ r.st \in Unpaired
           /\ Placed(At([task[t] EXCEPT !.row = r, !.fresh = TRUE], pc),
                     drained'[task[t].p], order'[task[t].p], age'[task[t].p])
  PROVE  HireInv'
<1> DEFINE c == task[t].row
           p == task[t].p
           n == [task[t] EXCEPT !.row = r, !.fresh = TRUE]
           k == At(n, pc)
<1>1. /\ TaskTrue(t) /\ task[t] \in TaskType /\ p \in Live /\ p \in Pairings /\ c \in RowType /\ row[p] \in RowType
      /\ RowOK(row[p])
  BY AtWork
<1>2. row[p].st = c.st /\ row[p].facts = c.facts /\ row[p].hired = c.hired
  BY FreshRow DEF Written, Wins
<1>3. row' = [row EXCEPT ![p] = r] /\ row'[p] = r /\ \A q \in Pairings \ {p} : row'[q] = row[q]
  BY <1>1 DEF Store, HireInv, Types
<1>4. r \in RowType /\ r # None /\ RowOK(r)
  BY DEF Written, Sound
<1>5. Live' = Live
  BY <1>1, <1>3, <1>4 DEF Live, HireInv, Types
<1>6. /\ task'[t] = k
      /\ \A s \in Tasks \ {t} : task'[s] = IF task[s].p = p THEN [task[s] EXCEPT !.fresh = FALSE] ELSE task[s]
  BY DEF Store
<1>7. n \in TaskType /\ n.p = p /\ n.row = r /\ n.fresh
  BY <1>1, <1>4 DEF TaskType
<1> HIDE DEF n
<1>8. k \in TaskType /\ (pc = "idle" => k = Idle)
      /\ (pc # "idle" => k.at = pc /\ k.p = p /\ k.row = r /\ k.fresh)
  BY <1>7, AtType
<1> HIDE DEF k
<1>9. task' \in [Tasks -> TaskType]
  <2>1. ASSUME NEW s \in Tasks PROVE task'[s] \in TaskType
    <3>1. task[s] \in TaskType
      BY DEF HireInv, Types
    <3>2. [task[s] EXCEPT !.fresh = FALSE] \in TaskType
      BY <3>1 DEF TaskType
    <3> QED
      BY <1>6, <1>8, <3>1, <3>2
  <2>2. task' = [s \in Tasks |-> task'[s]]
    BY DEF Store
  <2> QED
    BY <2>1, <2>2
<1>10. Types'
  BY <1>1, <1>3, <1>4, <1>9 DEF HireInv, Types
<1>11. OneHirePerWallet'
  <2>1. \A q \in Live \ {p} : r.st \in Active /\ row[q].w = r.w => row[q].st \notin Active
    BY DEF Written, Wins, OnlyHire
  <2>2. SUFFICES ASSUME NEW a \in Live, NEW b \in Live, a # b, {row'[a].st, row'[b].st} \subseteq Active
                 PROVE  row'[a].w # row'[b].w
    BY <1>5 DEF OneHirePerWallet
  <2>3. a \in Pairings /\ b \in Pairings
    BY DEF Live
  <2>4. CASE a # p /\ b # p
    BY <1>3, <2>2, <2>3, <2>4 DEF HireInv, OneHirePerWallet
  <2>5. CASE a = p \/ b = p
    BY <1>3, <2>1, <2>2, <2>3, <2>5
  <2> QED
    BY <2>4, <2>5
<1>12. RowsInv'
  <2>1. ASSUME NEW q \in Live, q # p PROVE RowTrue(q)'
    BY <1>3, <2>1, SameRow DEF Live
  <2>2. Sound(row'[p], age'[p], agent'[p], drained'[p], binance'[p], flakes')
    BY <1>3 DEF Written
  <2> QED
    BY <1>5, <2>1, <2>2 DEF RowsInv, RowTrue
<1>13. NoRowsInv'
  <2>1. \A q \in Pairings \ Live : age'[q] = age[q] /\ (agent'[q] = "armed" => agent[q] = "armed")
    BY DEF Calm
  <2> QED
    BY <1>5, <2>1 DEF HireInv, NoRowsInv
<1>14. Follows(row[p], r)
  <2>1. r.st # c.st => r.st \in Transitions[c.st]
    BY DEF Written, Wins, Legal
  <2> QED
    BY <1>2, <1>4, <2>1 DEF Follows, Over, Leaving, Transitions, Written
<1>15. RowsGrow(t)
  <2>1. ASSUME NEW q \in Live, task[q].at \in Verifying, q # t
        PROVE  row[q].st \in Unpaired /\ ~row[q].hired /\ (q = p => r.st \in Unpaired /\ ~r.hired)
    <3>1. q \in Tasks /\ task[q].at \notin {"idle", "off"}
      BY <2>1 DEF Live, Tasks, Api, Verifying
    <3>2. task[q].p = q /\ row[q].st \in Unpaired /\ ~row[q].hired
      BY <2>1, <3>1, AtWork DEF TaskTrue, VerifierOf
    <3>3. ASSUME q = p PROVE r.st \in Unpaired /\ ~r.hired
      <4>1. task[t].at # "store"
        BY <1>1, <2>1, <3>3 DEF TaskTrue, VerifierOf, Verifying
      <4>2. r.st = c.st \/ r.st \in Transitions[c.st]
        BY DEF Written, Wins, Legal
      <4> QED
        BY <1>2, <3>2, <3>3, <4>1, <4>2 DEF Written, Transitions, Unpaired
    <3> QED
      BY <3>2, <3>3
  <2>2. ASSUME NEW q \in Live
        PROVE  row'[q] # None /\ Follows(row[q], row'[q])
    BY <1>3, <1>4, <1>14 DEF Live, Follows
  <2> QED
    BY <1>3, <2>1, <2>2 DEF RowsGrow, Live
<1>16. ASSUME NEW s \in Tasks \ {t}
       PROVE  task'[s] \in {Idle, Off} \/ (task'[s].at \notin {"idle", "off"} /\ TaskTrue(s)')
  <2>1. task[s] \in {Idle, Off} \/ task[s].at \notin {"idle", "off"}
    BY DEF HireInv, TasksInv
  <2>2. CASE task[s] \in {Idle, Off}
    <3>1. task[s].p = None
      BY <2>2 DEF Idle, Off
    <3>2. p # None
      BY <1>1 DEF Tasks, Api
    <3> QED
      BY <1>6, <2>2, <3>1, <3>2
  <2>3. CASE task[s].at \notin {"idle", "off"}
    <3>1. task[s].p \in Pairings /\ task[s] \in TaskType
      BY <2>3, AtWork
    <3>2. task'[s].fresh => row'[task[s].p] = row[task[s].p]
      BY <1>3, <1>6, <3>1 DEF TaskType
    <3> HIDE DEF p
    <3> QED
      BY <1>6, <1>15, <2>3, <3>2, OtherTask
  <2> QED
    BY <2>1, <2>2, <2>3
<1>17. task'[t] \in {Idle, Off} \/ (task'[t].at \notin {"idle", "off"} /\ TaskTrue(t)')
  <2>1. CASE pc = "idle"
    BY <1>6, <1>8, <2>1
  <2>2. CASE pc # "idle"
    <3>1. Knows(k, r)
      <4>1. Matches(k.at, r, r)
        BY <1>4, SameCopy
      <4> QED
        BY <1>8, <2>2, <4>1 DEF Knows, Follows
    <3>2. VerifierOf(t, p, k, r)
      <4>1. k.at \in Verifying => task[t].at \in Verifying /\ r.st \in Unpaired
        BY <1>8, <2>2
      <4>2. task[t].at \in Verifying => t \in Pairings /\ p = t /\ ~c.hired /\ c.st \in Unpaired
        BY <1>1, <1>2 DEF TaskTrue, VerifierOf
      <4> QED
        BY <4>1, <4>2 DEF VerifierOf, Written, Unpaired
    <3>3. Placed(k, drained'[p], order'[p], age'[p])
      BY <2>2 DEF k, n
    <3>4. k.row \in RowType /\ RowOK(k.row) /\ Fits(k.at, k.row) /\ k.at \notin {"idle", "off"} /\ k.p = p
      BY <1>4, <1>8, <2>2
    <3>5. t \notin Api => k.row.facts
      BY <1>1, <1>8, <2>2 DEF TaskTrue, Written
    <3>6. p \in Live' /\ row'[p] = r
      BY <1>1, <1>3, <1>5
    <3> HIDE DEF p
    <3> QED
      BY <1>6, <3>1, <3>2, <3>3, <3>4, <3>5, <3>6 DEF TaskTrue
  <2> QED
    BY <2>1, <2>2
<1> QED
  BY <1>10, <1>11, <1>12, <1>13, <1>16, <1>17 DEF HireInv, TasksInv

\* A plain write leaves what the drain and the end of a hire look at.
SameFacts(c, r) ==
  /\ c.facts => r.facts
  /\ c.hired => r.hired
  /\ r.hired => c.hired \/ c.st = "paired"
  /\ r.drain = c.drain /\ r.u = c.u /\ r.why = c.why
  /\ r.st \in Leaving => r.st = c.st /\ r.sell = c.sell

LEMMA PlainWrite ==
  ASSUME HireInv, WorldTypes', Calm, NEW t \in Tasks, task[t].at \notin {"idle", "off", "admit", "reread", "store", "undo"},
         NEW r, Wins(t, r), r \in RowType, RowOK(r), SameFacts(task[t].row, r),
         r.st = "verified" => task[t].row.st = "verified"
  PROVE  Written(t, r)
<1> DEFINE p == task[t].p
           c == task[t].row
<1>1. p \in Live /\ p \in Pairings /\ RowTrue(p) /\ RowOK(row[p]) /\ row[p] = c
  BY AtWork, FreshRow DEF Wins
<1>2. /\ drained[p] = Full => drained'[p] = Full
      /\ flakes \in Nat /\ flakes' \in Nat /\ flakes <= flakes' /\ age[p] \in 0..4 /\ age'[p] \in 0..4
  BY <1>1 DEF Calm, HireInv, Types, WorldTypes, Full
<1>3. /\ agent'[p] = "armed" => agent[p] = "armed" \/ c.facts
      /\ binance'[p] = "live" => binance[p] = "live" \/ ~c.hired
      /\ age'[p] <= 1 \/ c.hired
      /\ age'[p] < 4 \/ age'[p] = age[p] \/ binance'[p] # "live"
  BY <1>1 DEF Calm
<1>4. Sound(c, age[p], agent[p], drained[p], binance[p], flakes) /\ RowOK(c)
  BY <1>1 DEF RowTrue
<1> HIDE DEF p, c
<1>5. Sound(r, age'[p], agent'[p], drained'[p], binance'[p], flakes')
  <2>1. ~r.hired => age'[p] <= 1
    BY <1>3 DEF SameFacts, c
  <2>2. agent'[p] = "armed" => r.facts
    BY <1>3, <1>4 DEF SameFacts, c, Sound
  <2>3. r.drain => drained'[p] = Full
    BY <1>2, <1>4 DEF SameFacts, c, Sound
  <2>4. r.sell /\ r.st \in Leaving /\ r.why \in {None, "term-ended"} => drained'[p] = Full
    BY <1>2, <1>4 DEF SameFacts, c, Sound
  <2>5. ASSUME binance'[p] = "live"
        PROVE  /\ age'[p] < 4
               /\ r.u => flakes' >= 1
               /\ r.st = "ended" => flakes' >= (IF r.why = "owner-signed-out" THEN 2 ELSE 1)
    <3>1. r.u = c.u /\ r.why = c.why /\ (r.st = "ended" => c.st = "ended")
      BY DEF SameFacts, c, Leaving
    <3>2. CASE ~c.hired
      BY <1>2, <1>3, <1>4, <3>1, <3>2 DEF RowOK
    <3>3. CASE binance[p] = "live"
      BY <1>2, <1>3, <1>4, <2>5, <3>1, <3>3 DEF Sound
    <3> QED
      BY <1>3, <2>5, <3>2, <3>3
  <2> QED
    BY <2>1, <2>2, <2>3, <2>4, <2>5 DEF Sound
<1> QED
  BY <1>5 DEF Written, SameFacts, p, c

LEMMA PatchKeeps ==
  ASSUME HireInv, WorldTypes', Calm, NEW t \in Tasks, task[t].at \notin {"idle", "off"},
         NEW r, NEW pc \in Plain, NEW lost \in Plain, Patch(t, r, pc, lost),
         Wins(t, r) => Written(t, r) /\ (pc # "idle" => Fits(pc, r)),
         ~Wins(t, r) /\ lost # "idle" =>
           Fits(lost, task[t].row) /\ task[t].at \notin {"admit", "reread", "store", "undo"}
  PROVE  HireInv'
<1>1. CASE Wins(t, r)
  <2> DEFINE n == [task[t] EXCEPT !.row = r, !.fresh = TRUE]
             p == task[t].p
  <2>1. Written(t, r) /\ Store(t, p, r, pc) /\ r \in RowType
    BY <1>1 DEF Patch, Written
  <2>2. pc \in Places /\ pc # "off" /\ pc \notin Verifying \cup {"exits", "mark", "term", "leave", "logout"}
    BY DEF Plain
  <2>3. n \in TaskType /\ n.row = r
    BY <2>1, AtWork DEF TaskType
  <2> HIDE DEF n
  <2>4. pc # "idle" => Placed(At(n, pc), drained'[p], order'[p], age'[p])
    <3>1. pc # "idle" => At(n, pc).at = pc /\ At(n, pc).row = r
      BY <2>2, <2>3, AtType
    <3>2. r.drain => drained'[p] = Full
      BY <2>1 DEF Written, Sound
    <3> QED
      BY <2>2, <3>1, <3>2 DEF Placed
  <2> QED
    BY <1>1, <2>1, <2>2, <2>4, StoreKeeps DEF n
<1>2. CASE ~Wins(t, r)
  BY <1>2, PlainKeeps DEF Patch
<1> QED
  BY <1>1, <1>2

\* The write is a task's last step.
LEMMA LastKeeps ==
  ASSUME HireInv, WorldTypes', Calm, NEW t \in Tasks, task[t].at \notin {"idle", "off"},
         NEW r, Last(t, r), Wins(t, r) => Written(t, r)
  PROVE  HireInv'
<1>1. "idle" \in Plain
  BY DEF Plain, Places, Verifying
<1> QED
  BY <1>1, PatchKeeps DEF Last

-----------------------------------------------------------------------------
(* Steps that leave the world as it is, or only sign out and revoke.       *)

LEMMA FenceType ==
  ASSUME HireInv, NEW t \in Tasks, Free(t) \/ Take(t) \/ UNCHANGED fence
  PROVE  fence' \in [Wallets -> Tasks \cup {None, Gone}]
<1>1. fence \in [Wallets -> Tasks \cup {None, Gone}]
  BY DEF HireInv, Types, WorldTypes
<1> QED
  BY <1>1 DEF Free, Take

LEMMA Quiet ==
  ASSUME HireInv, UNCHANGED <<age, order, drained, touches, crashes>>, flakes' \in Nat, flakes <= flakes',
         aged' \in [Pairings -> SUBSET {"u", "logout"}], fence' \in [Wallets -> Tasks \cup {None, Gone}],
         cancel' \subseteq Pairings,
         UNCHANGED agent \/ \E p : Revoke(p), UNCHANGED binance \/ \E p : SignOut(p)
  PROVE  WorldTypes' /\ Calm
<1>1. WorldTypes
  BY DEF HireInv, Types
<1>2. /\ agent' \in [Pairings -> {None, "armed", "revoked"}]
      /\ \A q \in Pairings : agent'[q] = "armed" => agent[q] = "armed"
  BY <1>1 DEF WorldTypes, Revoke
<1>3. /\ binance' \in [Pairings -> {"none", "live", "out"}]
      /\ \A q \in Pairings : binance'[q] = "live" => binance[q] = "live"
  BY <1>1 DEF WorldTypes, SignOut
<1>4. age' = age /\ order' = order /\ drained' = drained
  OBVIOUS
<1>5. WorldTypes'
  BY <1>1, <1>2, <1>3, <1>4 DEF WorldTypes
<1>6. \A q \in Live : q \in Pairings /\ (age[q] <= 1 \/ row[q].hired) /\ age[q] \in 0..4
  BY <1>1 DEF HireInv, RowsInv, RowTrue, Sound, Live, WorldTypes
<1>7. \A q \in Live :
        /\ order'[q] = "spawned" => order[q] = "spawned" \/ row[q].st = "bound"
        /\ agent'[q] = "armed" => agent[q] = "armed" \/ row[q].facts
        /\ binance'[q] = "live" => binance[q] = "live" \/ ~row[q].hired
        /\ age[q] <= age'[q] \/ row[q].st \notin Leaving
        /\ age'[q] <= 1 \/ row[q].hired
        /\ age'[q] < 4 \/ age'[q] = age[q] \/ binance'[q] # "live"
  BY <1>2, <1>3, <1>4, <1>6
<1> QED
  BY <1>2, <1>4, <1>5, <1>7 DEF Calm

LEMMA Undisturbed ==
  ASSUME HireInv, UNCHANGED <<world, aged, drained, cancel, bounds>>, UNCHANGED agent \/ \E p : Revoke(p),
         NEW t \in Tasks, Free(t) \/ Take(t) \/ UNCHANGED fence
  PROVE  WorldTypes' /\ Calm
<1>1. WorldTypes /\ flakes \in Nat /\ flakes <= flakes
  BY DEF HireInv, Types, WorldTypes
<1>2. UNCHANGED <<age, binance, order, aged, drained, cancel, flakes, touches, crashes>>
  BY DEF world, bounds
<1> QED
  BY <1>1, <1>2, FenceType, Quiet DEF WorldTypes

LEMMA InPlain ==
  /\ {"idle", "fail", "code", "facts", "accept", "fence", "stop", "await", "close", "gate", "gated", "refuse", "arm",
      "staged", "bind", "thrown", "clean", "cleaning", "signout", "cleaned", "end", "record", "verify", "revoke",
      "drain", "termed", "left", "probe", "status", "rest", "halt", "turn", "settings", "claim", "child"} \subseteq Plain
  /\ Plain \subseteq Places /\ Verifying \subseteq Places /\ {"exits", "mark", "term", "leave", "logout"} \subseteq Places
BY DEF Plain, Places, Verifying
-----------------------------------------------------------------------------
(* The API: pairing.                                                       *)

LEMMA CreateKeeps ==
  ASSUME HireInv, NEW p \in Pairings, Create(p)
  PROVE  HireInv'
<1> DEFINE k == [at |-> "signin", p |-> p, row |-> NewRow, fresh |-> TRUE, age |-> 0]
<1>1. p \in Tasks /\ p \notin Live /\ p \in Api
  BY DEF Create, Live, Tasks, Api
<1>2. WorldTypes' /\ Calm
  BY <1>1, Undisturbed DEF Create
<1>3. NewRow \in RowType /\ RowOK(NewRow) /\ NewRow # None /\ NewRow.st = "waiting"
      /\ ~NewRow.hired /\ ~NewRow.facts /\ ~NewRow.drain /\ ~NewRow.u
  <2>1. NewRow \in RowType
    <3>1. 0 \in 0..Attempts
      OBVIOUS
    <3> QED
      BY <3>1 DEF NewRow, RowType, States
  <2>2. RowOK(NewRow)
    BY DEF NewRow, RowOK, Terminal, Active
  <2> QED
    BY <2>1, <2>2 DEF NewRow
<1>4. k \in TaskType /\ k.at = "signin" /\ k.p = p /\ k.row = NewRow
  BY <1>3 DEF TaskType, Places
<1>5. /\ row' = [row EXCEPT ![p] = NewRow] /\ task' = [task EXCEPT ![p] = k]
      /\ UNCHANGED <<age, agent, drained, binance, order, flakes>>
  BY DEF Create, world, bounds
<1> HIDE DEF k
<1>6. /\ row'[p] = NewRow /\ \A q \in Pairings \ {p} : row'[q] = row[q]
      /\ task'[p] = k /\ \A s \in Tasks \ {p} : task'[s] = task[s]
  BY <1>1, <1>5 DEF HireInv, Types
<1>7. Live' = Live \cup {p}
  BY <1>3, <1>6 DEF Live
<1>8. Types'
  BY <1>2, <1>3, <1>4, <1>5 DEF HireInv, Types
<1>9. OneHirePerWallet'
  <2>1. SUFFICES ASSUME NEW a \in Live', NEW b \in Live', a # b, {row'[a].st, row'[b].st} \subseteq Active
                 PROVE  row'[a].w # row'[b].w
    BY DEF OneHirePerWallet
  <2>2. a # p /\ b # p
    BY <1>3, <1>6, <2>1 DEF Active
  <2> QED
    BY <1>6, <1>7, <2>1, <2>2 DEF HireInv, OneHirePerWallet, Live
<1>10. RowsInv'
  <2>1. ASSUME NEW q \in Live PROVE RowTrue(q)'
    BY <1>1, <1>2, <1>6, <2>1, SameRow DEF Live
  <2>2. age[p] = 0 /\ agent[p] # "armed"
    BY <1>1 DEF HireInv, NoRowsInv
  <2>3. RowTrue(p)'
    BY <1>3, <1>5, <1>6, <2>2 DEF RowTrue, Sound, Leaving
  <2> QED
    BY <1>7, <2>1, <2>3 DEF RowsInv
<1>11. NoRowsInv'
  BY <1>5, <1>7 DEF HireInv, NoRowsInv
<1>12. RowsGrow(p)
  <2>1. ASSUME NEW q \in Live, task[q].at \in Verifying
        PROVE  row[q].st \in Unpaired /\ ~row[q].hired
    BY <2>1, AtWork DEF Live, Tasks, Api, Verifying, TaskTrue, VerifierOf
  <2> QED
    BY <1>1, <1>6, <2>1 DEF RowsGrow, Follows, Live
<1>13. ASSUME NEW s \in Tasks \ {p}
       PROVE  task'[s] \in {Idle, Off} \/ (task'[s].at \notin {"idle", "off"} /\ TaskTrue(s)')
  <2>1. task'[s] = task[s] /\ (task[s] \in {Idle, Off} \/ task[s].at \notin {"idle", "off"})
    BY <1>6 DEF HireInv, TasksInv
  <2>2. CASE task[s].at \notin {"idle", "off"}
    <3>1. row'[task[s].p] = row[task[s].p]
      BY <1>1, <1>6, <2>2, AtWork
    <3> QED
      BY <1>2, <1>12, <2>1, <2>2, <3>1, OtherTask
  <2> QED
    BY <2>1, <2>2
<1>14. TaskTrue(p)' /\ task'[p].at \notin {"idle", "off"}
  <2>1. Matches("signin", NewRow, NewRow)
    BY <1>3, SameCopy
  <2>2. Knows(k, NewRow) /\ Placed(k, drained'[p], order'[p], age'[p]) /\ VerifierOf(p, p, k, NewRow)
    BY <1>3, <1>4, <2>1 DEF Knows, Follows, Placed, VerifierOf, Unpaired
  <2>3. Fits(k.at, k.row)
    BY <1>4 DEF Fits
  <2> QED
    BY <1>1, <1>3, <1>4, <1>6, <1>7, <2>2, <2>3 DEF TaskTrue
<1> QED
  BY <1>8, <1>9, <1>10, <1>11, <1>13, <1>14 DEF HireInv, TasksInv

LEMMA SignInKeeps ==
  ASSUME HireInv, NEW p \in Pairings, SignIn(p)
  PROVE  HireInv'
<1> DEFINE c == task[p].row
           r == [c EXCEPT !.st = "failed"]
<1>1. p \in Tasks /\ task[p].at = "signin"
  BY DEF SignIn, Tasks, Api
<1>2. WorldTypes' /\ Calm
  BY <1>1, Undisturbed DEF SignIn
<1>3. TaskTrue(p) /\ c \in RowType /\ RowOK(c) /\ task[p] \in TaskType /\ task[p].p = p
  BY <1>1, AtWork DEF TaskTrue, VerifierOf, Verifying
<1>4. CASE Last(p, r)
  <2>1. ASSUME Wins(p, r) PROVE Written(p, r)
    <3>1. c.st \in Unpaired /\ ~c.hired
      BY <1>1, <1>3, <2>1, FreshRow DEF Wins, TaskTrue, VerifierOf, Verifying
    <3>2. r \in RowType /\ RowOK(r) /\ SameFacts(c, r)
      BY <1>3, <3>1 DEF RowType, States, RowOK, SameFacts, Terminal, Active, Leaving
    <3> QED
      BY <1>1, <1>2, <2>1, <3>2, PlainWrite DEF RowType
  <2> HIDE DEF r
  <2> QED
    BY <1>1, <1>2, <1>4, <2>1, LastKeeps
<1>5. CASE Patch(p, c, "scan", "idle")
  <2>1. CASE Wins(p, c)
    <3>1. c.st \in Unpaired /\ SameFacts(c, c)
      BY <1>1, <1>3, <2>1, FreshRow DEF Wins, TaskTrue, VerifierOf, Verifying, SameFacts
    <3>2. Written(p, c)
      BY <1>1, <1>2, <1>3, <2>1, <3>1, PlainWrite
    <3> DEFINE n == [task[p] EXCEPT !.row = c, !.fresh = TRUE]
    <3>3. n \in TaskType /\ n.row = c
      BY <1>3 DEF TaskType
    <3> HIDE DEF n
    <3>4. Placed(At(n, "scan"), drained'[p], order'[p], age'[p])
      <4>1. At(n, "scan").at = "scan" /\ At(n, "scan").row = c
        BY <3>3, AtType DEF Places
      <4> QED
        BY <1>3, <3>2, <4>1 DEF Placed, Written, Sound
    <3>5. Fits("scan", c) /\ Store(p, p, c, "scan")
      BY <1>3, <1>5, <2>1 DEF Fits, Patch
    <3> QED
      BY <1>1, <1>2, <1>3, <3>1, <3>2, <3>4, <3>5, InPlain, StoreKeeps DEF Verifying, n
  <2>2. CASE ~Wins(p, c)
    BY <1>1, <1>2, <1>5, <2>2, PlainKeeps, InPlain DEF Patch
  <2> QED
    BY <2>1, <2>2
<1> QED
  BY <1>4, <1>5 DEF SignIn

LEMMA VerifyingKeeps ==
  ASSUME HireInv, WorldTypes', Calm, UNCHANGED row, NEW t \in Tasks, NEW pc \in Verifying, Go(t, pc),
         task[t].at \in Verifying, pc \notin {"signin", "scan"}, Fits(pc, task[t].row)
  PROVE  HireInv'
<1> DEFINE k == At(task[t], pc)
           p == task[t].p
<1>1. task[t].at \notin {"idle", "off"} /\ pc \in Places /\ pc \notin {"idle", "off", "exits", "mark", "term", "leave", "logout"}
  BY InPlain DEF Verifying
<1>2. TaskTrue(t) /\ task[t] \in TaskType /\ p \in Pairings
  BY <1>1, AtWork
<1>3. k.at = pc /\ k.row = task[t].row
  BY <1>1, <1>2, AtType
<1>4. task[t].row.drain => drained[p] = Full
  BY <1>2 DEF TaskTrue, Placed
<1>5. drained[p] \subseteq drained'[p] /\ drained'[p] \subseteq Full
  BY <1>2 DEF Calm, WorldTypes, Full
<1> HIDE DEF k, p
<1>6. Placed(k, drained'[p], order'[p], age'[p])
  BY <1>1, <1>3, <1>4, <1>5 DEF Placed
<1> QED
  BY <1>1, <1>6, GoKeeps DEF k, p

LEMMA ScanKeeps ==
  ASSUME HireInv, NEW p \in Pairings, Scan(p)
  PROVE  HireInv'
<1> DEFINE c == task[p].row
<1>1. p \in Tasks /\ task[p].at = "scan" /\ task[p].at \in Verifying
  BY DEF Scan, Tasks, Api, Verifying
<1>2. TaskTrue(p) /\ c \in RowType /\ RowOK(c) /\ task[p] \in TaskType /\ task[p].p = p /\ p \in Live
      /\ row[p] \in RowType /\ row[p].st \in Unpaired /\ ~row[p].hired
  BY <1>1, AtWork DEF TaskTrue, VerifierOf
<1>3. CASE Go(p, "undo") /\ UNCHANGED binance
  <2>1. WorldTypes' /\ Calm /\ UNCHANGED row
    BY <1>1, <1>3, Undisturbed DEF Scan, world
  <2> QED
    BY <1>1, <1>3, <2>1, VerifyingKeeps DEF Verifying, Fits
<1>4. ASSUME NEW w \in Wallets, NEW pc \in {"undo", "admit"}, binance' = [binance EXCEPT ![p] = "live"],
             task' = [task EXCEPT ![p].at = pc, ![p].row.w = w]
      PROVE  HireInv'
  <2> DEFINE r == [c EXCEPT !.w = w]
             k == [task[p] EXCEPT !.at = pc, !.row = r]
  <2>1. UNCHANGED <<row, age, order, aged, agent, drained, fence, cancel, flakes, touches, crashes>>
    BY DEF Scan, bounds
  <2>2. WorldTypes'
    BY <1>4, <2>1 DEF HireInv, Types, WorldTypes
  <2>3. Calm
    <3>1. /\ \A q \in Live : q \in Pairings /\ (age[q] <= 1 \/ row[q].hired) /\ age[q] \in 0..4
          /\ flakes \in Nat /\ \A q \in Pairings \ {p} : binance'[q] = binance[q]
      BY <1>4 DEF HireInv, RowsInv, RowTrue, Sound, Live, Types, WorldTypes
    <3>2. \A q \in Live :
            /\ order'[q] = "spawned" => order[q] = "spawned" \/ row[q].st = "bound"
            /\ agent'[q] = "armed" => agent[q] = "armed" \/ row[q].facts
            /\ binance'[q] = "live" => binance[q] = "live" \/ ~row[q].hired
            /\ age[q] <= age'[q] \/ row[q].st \notin Leaving
            /\ age'[q] <= 1 \/ row[q].hired
            /\ age'[q] < 4 \/ age'[q] = age[q] \/ binance'[q] # "live"
      BY <1>2, <2>1, <3>1
    <3> QED
      BY <2>1, <3>1, <3>2 DEF Calm
  <2>4. r \in RowType /\ RowOK(r) /\ Fits(pc, r) /\ r.drain = c.drain
    BY <1>2, <1>4 DEF RowType, RowOK, Fits
  <2>5. Matches(pc, r, row[p]) \/ ~task[p].fresh
    <3>1. task[p].fresh => c = row[p]
      BY <1>1, <1>2, FreshRow
    <3> QED
      BY <1>2, <1>4, <3>1 DEF Matches, RowType
  <2>6. Follows(r, row[p])
    BY <1>2 DEF TaskTrue, Knows, Follows, RowType
  <2>7. task' = [task EXCEPT ![p] = k]
    <3>1. task[p] \in TaskType /\ c \in RowType
      BY <1>2
    <3> QED
      BY <1>4, <3>1 DEF HireInv, Types, TaskType, RowType
  <2>8. r.drain => drained'[p] = Full
    BY <1>2, <2>1, <2>4 DEF TaskTrue, Placed
  <2> HIDE DEF r
  <2>9. k \in TaskType /\ k.at = pc /\ k.p = p /\ k.row = r /\ k.fresh = task[p].fresh
    BY <1>2, <1>4, <2>4 DEF TaskType, Places
  <2> HIDE DEF k
  <2>10. TaskTrue(p)'
    <3>1. Knows(k, row[p]) /\ Placed(k, drained'[p], order'[p], age'[p]) /\ VerifierOf(p, p, k, row[p])
      BY <1>2, <1>4, <2>5, <2>6, <2>8, <2>9 DEF Knows, Placed, VerifierOf
    <3>2. task'[p] = k /\ row' = row /\ Live' = Live
      BY <1>1, <2>1, <2>7 DEF HireInv, Types, Live
    <3> QED
      BY <1>2, <2>4, <2>9, <3>1, <3>2 DEF TaskTrue, Tasks, Api
  <2> QED
    BY <1>1, <1>4, <2>1, <2>2, <2>3, <2>7, <2>9, <2>10, MoveKeeps
<1>5. ASSUME NEW w \in Wallets, binance' = [binance EXCEPT ![p] = "live"],
             task' = [task EXCEPT ![p].at = IF p \in cancel THEN "undo" ELSE "admit", ![p].row.w = w]
      PROVE  HireInv'
  <2>1. CASE p \in cancel
    BY <1>4, <1>5, <2>1
  <2>2. CASE p \notin cancel
    BY <1>4, <1>5, <2>2
  <2> QED
    BY <2>1, <2>2
<1> QED
  BY <1>3, <1>5 DEF Scan

LEMMA AdmitKeeps ==
  ASSUME HireInv, NEW p \in Pairings, Admit(p)
  PROVE  HireInv'
<1>1. p \in Tasks /\ task[p].at = "admit" /\ task[p].at \in Verifying /\ UNCHANGED row
  BY DEF Admit, Tasks, Api, Verifying
<1>2. WorldTypes' /\ Calm
  BY <1>1, Undisturbed DEF Admit
<1>3. Fits("undo", task[p].row) /\ Fits("reread", task[p].row)
  BY <1>1, AtWork DEF Fits
<1> QED
  BY <1>1, <1>2, <1>3, VerifyingKeeps DEF Admit, Verifying

LEMMA RereadKeeps ==
  ASSUME HireInv, NEW p \in Pairings, Reread(p)
  PROVE  HireInv'
<1>1. p \in Tasks /\ task[p].at = "reread" /\ task[p].at \in Verifying /\ UNCHANGED row
  BY DEF Reread, Tasks, Api, Verifying
<1>2. WorldTypes' /\ Calm
  BY <1>1, Undisturbed DEF Reread
<1>3. CASE row[p].st # "waiting"
  BY <1>1, <1>2, <1>3, VerifyingKeeps DEF Reread, Verifying, Fits
<1>4. CASE row[p].st = "waiting"
  <2> DEFINE r == [row[p] EXCEPT !.w = task[p].row.w]
             k == [task[p] EXCEPT !.at = "store", !.row = r, !.fresh = TRUE]
  <2>1. task' = [task EXCEPT ![p] = k]
    <3>1. task' = [task EXCEPT ![p].at = "store", ![p].row = r, ![p].fresh = TRUE]
      BY <1>4 DEF Reread
    <3>2. task[p] \in TaskType
      BY <1>1 DEF HireInv, Types
    <3> HIDE DEF r
    <3> QED
      BY <3>1, <3>2 DEF HireInv, Types, TaskType
  <2>2. TaskTrue(p) /\ task[p] \in TaskType /\ task[p].p = p /\ p \in Live /\ row[p] \in RowType
        /\ ~row[p].hired /\ RowTrue(p) /\ RowOK(row[p]) /\ task[p].row.w \in Wallets
    BY <1>1, AtWork DEF TaskTrue, VerifierOf, Fits
  <2>3. /\ r \in RowType /\ RowOK(r) /\ Fits("store", r) /\ r.drain = row[p].drain
        /\ Matches("store", r, row[p]) /\ Follows(r, row[p])
    BY <2>2 DEF RowType, RowOK, Fits, Matches, Follows
  <2>4. r.drain => drained'[p] = Full
    BY <1>1, <2>2, <2>3 DEF RowTrue, Sound, Reread
  <2> HIDE DEF r
  <2>5. k \in TaskType /\ k.at = "store" /\ k.p = p /\ k.row = r
    BY <2>2, <2>3 DEF TaskType, Places
  <2> HIDE DEF k
  <2>6. TaskTrue(p)'
    <3>1. Knows(k, row[p]) /\ Placed(k, drained'[p], order'[p], age'[p]) /\ VerifierOf(p, p, k, row[p])
      BY <1>4, <2>2, <2>3, <2>4, <2>5 DEF Knows, Placed, VerifierOf, Unpaired
    <3>2. task'[p] = k /\ row' = row /\ Live' = Live
      BY <1>1, <2>1 DEF HireInv, Types, Live
    <3> QED
      BY <2>2, <2>3, <2>5, <3>1, <3>2 DEF TaskTrue, Tasks, Api
  <2> QED
    BY <1>1, <1>2, <2>1, <2>5, <2>6, MoveKeeps
<1> QED
  BY <1>3, <1>4

LEMMA StoreVerifiedKeeps ==
  ASSUME HireInv, NEW p \in Pairings, StoreVerified(p)
  PROVE  HireInv'
<1> DEFINE c == task[p].row
           r == [c EXCEPT !.st = "verified", !.session = TRUE]
<1>1. p \in Tasks /\ task[p].at = "store" /\ task[p].at \in Verifying /\ Patch(p, r, "idle", "undo")
      /\ UNCHANGED <<binance, order, aged, agent, drained, fence, cancel, flakes, touches, crashes>>
      /\ age' = IF Wins(p, r) THEN [age EXCEPT ![p] = 0] ELSE age
  BY DEF StoreVerified, Tasks, Api, Verifying, bounds
<1>2. TaskTrue(p) /\ task[p] \in TaskType /\ task[p].p = p /\ p \in Live /\ row[p] \in RowType
      /\ row[p].st \in Unpaired /\ ~row[p].hired /\ RowTrue(p) /\ c.w \in Wallets /\ c \in RowType /\ RowOK(c)
  BY <1>1, AtWork DEF TaskTrue, VerifierOf, Fits
<1>3. CASE ~Wins(p, r)
  <2>1. Go(p, "undo") /\ UNCHANGED row /\ UNCHANGED age
    BY <1>1, <1>3 DEF Patch
  <2>2. WorldTypes' /\ Calm
    BY <1>1, <2>1, Undisturbed DEF world, bounds
  <2> QED
    BY <1>1, <2>1, <2>2, VerifyingKeeps DEF Verifying, Fits
<1>4. CASE Wins(p, r)
  <2>1. c.st = row[p].st /\ ~c.hired /\ c.facts = row[p].facts /\ c.drain = row[p].drain
    BY <1>1, <1>2, <1>4, FreshRow DEF Wins, TaskTrue, Knows, Matches, RowType
  <2>2. c.st = "waiting"
    BY <1>2, <1>4, <2>1 DEF Wins, Legal, Transitions, Unpaired
  <2>3. r \in RowType /\ RowOK(r) /\ ~r.facts /\ ~r.u /\ r.drain = c.drain /\ ~r.hired /\ r.st = "verified"
    BY <1>2, <2>1, <2>2 DEF RowType, States, RowOK, Active, Terminal
  <2>4. age' = [age EXCEPT ![p] = 0]
    BY <1>1, <1>4
  <2>5. WorldTypes'
    BY <1>1, <2>4 DEF HireInv, Types, WorldTypes
  <2>6. Calm
    <3>1. /\ \A q \in Live : q \in Pairings /\ (age[q] <= 1 \/ row[q].hired) /\ age[q] \in 0..4
          /\ flakes \in Nat /\ age'[p] = 0 /\ \A q \in Pairings \ {p} : age'[q] = age[q]
      BY <1>2, <2>4 DEF HireInv, RowsInv, RowTrue, Sound, Live, Types, WorldTypes
    <3>2. \A q \in Live :
            /\ order'[q] = "spawned" => order[q] = "spawned" \/ row[q].st = "bound"
            /\ agent'[q] = "armed" => agent[q] = "armed" \/ row[q].facts
            /\ binance'[q] = "live" => binance[q] = "live" \/ ~row[q].hired
            /\ age[q] <= age'[q] \/ row[q].st \notin Leaving
            /\ age'[q] <= 1 \/ row[q].hired
            /\ age'[q] < 4 \/ age'[q] = age[q] \/ binance'[q] # "live"
      BY <1>1, <1>2, <3>1 DEF Unpaired, Leaving
    <3> QED
      BY <1>1, <1>2, <3>1, <3>2 DEF Calm
  <2> HIDE DEF r
  <2>7. Written(p, r)
    <3>1. Sound(r, age'[p], agent'[p], drained'[p], binance'[p], flakes')
      <4>1. agent[p] # "armed" /\ (row[p].drain => drained[p] = Full) /\ ~row[p].facts
        BY <1>2 DEF RowTrue, Sound, RowOK, Unpaired, Active
      <4>2. age'[p] = 0
        BY <1>2, <2>4 DEF HireInv, Types, WorldTypes
      <4> QED
        BY <1>1, <2>1, <2>3, <4>1, <4>2 DEF Sound, Leaving
    <3>2. ~c.facts
      BY <2>1, <1>2 DEF RowOK
    <3> QED
      BY <1>1, <1>2, <1>4, <2>3, <3>1, <3>2 DEF Written
  <2> QED
    BY <1>1, <1>4, <2>5, <2>6, <2>7, InPlain, StoreKeeps DEF Patch
<1> QED
  BY <1>3, <1>4

LEMMA UndoKeeps ==
  ASSUME HireInv, NEW p \in Pairings, Undo(p)
  PROVE  HireInv'
<1>1. p \in Tasks /\ p \in Api /\ task[p].at = "undo" /\ UNCHANGED row
  BY DEF Undo, Tasks, Api
<1>2. WorldTypes' /\ Calm
  BY Quiet DEF Undo, bounds, HireInv, Types, WorldTypes
<1>3. CASE Done(p)
  BY <1>1, <1>2, <1>3, PlainKeeps, InPlain DEF Done
<1>4. CASE Read(p, p, "fail")
  <2>1. p \in Live
    BY <1>1, AtWork DEF TaskTrue, VerifierOf, Verifying
  <2>2. Fits("fail", row[p])
    BY DEF Fits
  <2> QED
    BY <1>1, <1>2, <1>4, <2>1, <2>2, ReadKeeps, InPlain
<1> QED
  BY <1>3, <1>4 DEF Undo

LEMMA PlainPatch ==
  ASSUME HireInv, WorldTypes', Calm, NEW t \in Tasks,
         task[t].at \notin {"idle", "off", "admit", "reread", "store", "undo"},
         NEW r, NEW pc \in Plain, NEW lost \in Plain, Patch(t, r, pc, lost),
         Wins(t, r) => /\ r \in RowType /\ RowOK(r) /\ SameFacts(task[t].row, r)
                       /\ r.st = "verified" => task[t].row.st = "verified"
                       /\ pc # "idle" => Fits(pc, r),
         lost # "idle" => Fits(lost, task[t].row)
  PROVE  HireInv'
<1>1. Wins(t, r) => Written(t, r)
  BY PlainWrite
<1> QED
  BY <1>1, PatchKeeps

\* A row closed before its hire: only one that waits, or is cleaned up, may be.
LEMMA Closing ==
  ASSUME HireInv, NEW t \in Tasks, task[t].at \notin {"idle", "off", "admit", "reread", "store", "undo"},
         NEW st \in {"failed", "expired"}, Wins(t, [task[t].row EXCEPT !.st = st])
  PROVE  /\ [task[t].row EXCEPT !.st = st] \in RowType /\ RowOK([task[t].row EXCEPT !.st = st])
         /\ SameFacts(task[t].row, [task[t].row EXCEPT !.st = st])
<1> DEFINE c == task[t].row
           r == [c EXCEPT !.st = st]
<1>1. c \in RowType /\ RowOK(c)
  BY AtWork
<1>2. r \in RowType /\ r.st = st /\ r.session = c.session
  BY <1>1 DEF RowType, States
<1>3. (st # c.st => st \in Transitions[c.st]) /\ ~c.session
  BY <1>2 DEF Wins, Legal, Terminal
<1>4. c.st \in {"waiting", "failed", "expired"}
  BY <1>1, <1>3 DEF RowOK, Transitions, RowType, States, Terminal
<1>5. RowOK(r) /\ SameFacts(c, r)
  BY <1>1, <1>4 DEF RowOK, RowType, SameFacts, Terminal, Active, Leaving
<1> QED
  BY <1>2, <1>5

LEMMA VerifyFailedKeeps ==
  ASSUME HireInv, NEW p \in Pairings, VerifyFailed(p)
  PROVE  HireInv'
<1>1. p \in Tasks /\ task[p].at = "fail"
  BY DEF VerifyFailed, Tasks, Api
<1>2. WorldTypes' /\ Calm
  BY <1>1, Undisturbed DEF VerifyFailed
<1>3. PICK st \in {"failed", "expired"} : Last(p, [task[p].row EXCEPT !.st = st])
  BY DEF VerifyFailed
<1>4. ASSUME Wins(p, [task[p].row EXCEPT !.st = st])
      PROVE  Written(p, [task[p].row EXCEPT !.st = st])
  <2>1. [task[p].row EXCEPT !.st = st].st # "verified"
    BY <1>1, AtWork DEF RowType
  <2> QED
    BY <1>1, <1>2, <1>4, <2>1, Closing, PlainWrite
<1> QED
  BY <1>1, <1>2, <1>3, <1>4, LastKeeps

LEMMA CallKeeps ==
  ASSUME HireInv, NEW t \in Routes, NEW p \in Pairings, Call(t, p)
  PROVE  HireInv'
<1>1. t \in Tasks /\ t \in Api /\ p \in Live /\ UNCHANGED row
  BY DEF Call, Tasks, Api
<1>2. WorldTypes' /\ Calm
  BY <1>1, Undisturbed DEF Call
<1>3. CASE row[p].st \in {"waiting", "verified"} /\ row[p].att < Attempts /\ Read(t, p, "code")
  BY <1>1, <1>2, <1>3, ReadKeeps, InPlain DEF Fits
<1>4. CASE row[p].st \in {"verified", "paired"} /\ Read(t, p, "facts")
  BY <1>1, <1>2, <1>4, ReadKeeps, InPlain DEF Fits
<1>5. CASE row[p].st = "paired" /\ Read(t, p, "accept")
  BY <1>1, <1>2, <1>5, ReadKeeps, InPlain DEF Fits
<1>6. CASE Read(t, p, "fence")
  BY <1>1, <1>2, <1>6, ReadKeeps, InPlain DEF Fits
<1> QED
  BY <1>3, <1>4, <1>5, <1>6 DEF Call

LEMMA CodeKeeps ==
  ASSUME HireInv, NEW t \in Tasks, Code(t)
  PROVE  HireInv'
<1> DEFINE c == task[t].row
           r == [c EXCEPT !.att = @ + 1]
           m == [r EXCEPT !.matched = TRUE]
<1>1. task[t].at = "code"
  BY DEF Code
<1>2. WorldTypes' /\ Calm
  BY <1>1, Undisturbed DEF Code
<1>3. c \in RowType /\ RowOK(c) /\ c.st \in {"waiting", "verified"} /\ c.att < Attempts
  BY <1>1, AtWork DEF Fits
<1>4. r \in RowType /\ r.st = c.st /\ RowOK(r) /\ SameFacts(c, r)
  <2>1. c.att + 1 \in 0..Attempts
    BY <1>3 DEF RowType
  <2>2. r \in RowType
    BY <1>3, <2>1 DEF RowType
  <2> QED
    BY <1>3, <2>2 DEF RowType, RowOK, SameFacts, Leaving
<1> HIDE DEF r
<1>5. m \in RowType /\ m.st = c.st /\ RowOK(m) /\ SameFacts(c, m)
  BY <1>3, <1>4 DEF RowType, RowOK, SameFacts
<1> HIDE DEF m, c
<1>6. CASE Last(t, m)
  <2>1. Wins(t, m) => Written(t, m)
    BY <1>1, <1>2, <1>5, PlainWrite DEF c
  <2> QED
    BY <1>1, <1>2, <1>6, <2>1, LastKeeps
<1>7. CASE Last(t, r)
  <2>1. Wins(t, r) => Written(t, r)
    BY <1>1, <1>2, <1>4, PlainWrite DEF c
  <2> QED
    BY <1>1, <1>2, <1>7, <2>1, LastKeeps
<1>8. ASSUME NEW pc \in {"stop", "clean"}, pc = "clean" => r.st = "verified", Patch(t, r, pc, "idle")
      PROVE  HireInv'
  <2>1. Fits(pc, r)
    BY <1>8 DEF Fits
  <2>2. Wins(t, r) => Written(t, r)
    BY <1>1, <1>2, <1>4, PlainWrite DEF c
  <2> QED
    BY <1>1, <1>2, <1>8, <2>1, <2>2, PatchKeeps, InPlain
<1>9. Last(t, m) \/ Last(t, r) \/ Patch(t, r, IF r.st = "waiting" THEN "stop" ELSE "clean", "idle")
  BY DEF Code, m, r, c
<1>10. CASE Patch(t, r, IF r.st = "waiting" THEN "stop" ELSE "clean", "idle")
  <2>1. CASE r.st = "waiting"
    BY <1>8, <1>10, <2>1
  <2>2. CASE r.st # "waiting"
    BY <1>3, <1>4, <1>8, <1>10, <2>2
  <2> QED
    BY <2>1, <2>2
<1> QED
  BY <1>6, <1>7, <1>9, <1>10

LEMMA RecloseKeeps ==
  ASSUME HireInv, WorldTypes', Calm, UNCHANGED row, NEW t \in Api, task[t].at \in {"stop", "await"}, Reclose(t, task[t].p)
  PROVE  HireInv'
<1>1. t \in Tasks /\ task[t].p \in Live
  BY AtWork DEF Tasks
<1>2. CASE Read(t, task[t].p, "close")
  BY <1>1, <1>2, ReadKeeps, InPlain DEF Fits
<1>3. CASE Done(t)
  BY <1>1, <1>3, PlainKeeps, InPlain DEF Done
<1> QED
  BY <1>2, <1>3 DEF Reclose

LEMMA StopKeeps ==
  ASSUME HireInv, NEW t \in Api, Stop(t)
  PROVE  HireInv'
<1>1. t \in Tasks /\ task[t].at = "stop" /\ task[t].p \in Pairings /\ UNCHANGED row
  BY AtWork DEF Stop, Tasks
<1>2. WorldTypes' /\ Calm
  <2>1. cancel' \subseteq Pairings
    BY <1>1 DEF Stop, HireInv, Types, WorldTypes
  <2>2. /\ aged \in [Pairings -> SUBSET {"u", "logout"}] /\ fence \in [Wallets -> Tasks \cup {None, Gone}]
        /\ flakes \in Nat /\ flakes <= flakes
    BY DEF HireInv, Types, WorldTypes
  <2>3. UNCHANGED <<age, order, drained, flakes, touches, crashes, aged, fence, agent, binance>>
    BY DEF Stop, world, bounds
  <2> QED
    BY <2>1, <2>2, <2>3, Quiet
<1>3. CASE Go(t, "await")
  BY <1>1, <1>2, <1>3, PlainKeeps, InPlain DEF Fits
<1>4. CASE Reclose(t, task[t].p)
  BY <1>1, <1>2, <1>4, RecloseKeeps
<1> QED
  BY <1>3, <1>4 DEF Stop

LEMMA AwaitKeeps ==
  ASSUME HireInv, NEW t \in Api, Await(t)
  PROVE  HireInv'
<1>1. t \in Tasks /\ task[t].at = "await" /\ UNCHANGED row
  BY DEF Await, Tasks
<1>2. WorldTypes' /\ Calm
  BY <1>1, Undisturbed DEF Await
<1> QED
  BY <1>1, <1>2, RecloseKeeps DEF Await

LEMMA CloseKeeps ==
  ASSUME HireInv, NEW t \in Tasks, Close(t)
  PROVE  HireInv'
<1>1. task[t].at = "close"
  BY DEF Close
<1>2. WorldTypes' /\ Calm
  BY <1>1, Undisturbed DEF Close
<1>3. PICK st \in {"failed", "expired"} : Last(t, [task[t].row EXCEPT !.st = st])
  <2>1. CASE t \in Routes
    BY <2>1 DEF Close
  <2>2. CASE t \notin Routes
    BY <2>2 DEF Close
  <2> QED
    BY <2>1, <2>2
<1>4. ASSUME Wins(t, [task[t].row EXCEPT !.st = st])
      PROVE  Written(t, [task[t].row EXCEPT !.st = st])
  <2>1. [task[t].row EXCEPT !.st = st].st # "verified"
    BY <1>1, AtWork DEF RowType
  <2> QED
    BY <1>1, <1>2, <1>4, <2>1, Closing, PlainWrite
<1> QED
  BY <1>1, <1>2, <1>3, <1>4, LastKeeps

LEMMA FinalizeKeeps ==
  ASSUME HireInv, NEW t \in Tasks, Finalize(t)
  PROVE  HireInv'
<1> DEFINE c == task[t].row
           r == [c EXCEPT !.st = "paired"]
<1>1. task[t].at = "facts"
  BY DEF Finalize
<1>2. WorldTypes' /\ Calm
  BY <1>1, Undisturbed DEF Finalize
<1>3. c \in RowType /\ RowOK(c) /\ c.st \in {"verified", "paired"}
  BY <1>1, AtWork DEF Fits
<1>4. r \in RowType /\ RowOK(r) /\ SameFacts(c, r) /\ r.st = "paired"
  BY <1>3 DEF RowType, States, RowOK, SameFacts, Leaving, Active, Terminal
<1> HIDE DEF r
<1>5. Wins(t, r) => Written(t, r)
  BY <1>1, <1>2, <1>4, PlainWrite
<1>6. Last(t, r) \/ (Done(t) /\ UNCHANGED row)
  BY DEF Finalize, r
<1> QED
  BY <1>1, <1>2, <1>5, <1>6, LastKeeps, PlainKeeps, InPlain DEF Done

LEMMA AcceptHireKeeps ==
  ASSUME HireInv, NEW t \in Tasks, AcceptHire(t)
  PROVE  HireInv'
<1> DEFINE c == task[t].row
           p == task[t].p
           r(sell) == [c EXCEPT !.st = "hiring", !.hired = TRUE, !.sell = sell]
<1>1. task[t].at = "accept" /\ UNCHANGED <<binance, order, aged, agent, drained, fence, cancel, flakes, touches, crashes>>
  BY DEF AcceptHire, bounds
<1>2. TaskTrue(t) /\ task[t] \in TaskType /\ p \in Live /\ p \in Pairings /\ c \in RowType /\ RowOK(c)
      /\ c.st = "paired" /\ RowTrue(p)
  BY <1>1, AtWork DEF Fits
<1>3. CASE Done(t) /\ UNCHANGED <<row, age>>
  <2>1. WorldTypes' /\ Calm
    BY <1>1, <1>3, Undisturbed DEF world, bounds
  <2> QED
    BY <1>1, <1>3, <2>1, PlainKeeps, InPlain DEF Done
<1>4. ASSUME NEW sell \in BOOLEAN, Wins(t, r(TRUE)), Store(t, p, r(sell), "fence"), age' = [age EXCEPT ![p] = 0]
      PROVE  HireInv'
  <2> DEFINE n == r(sell)
  <2>1. n \in RowType /\ RowOK(n) /\ n.st = "hiring" /\ n.w = c.w /\ n.session = c.session /\ n.hired
        /\ ~n.facts /\ ~n.u /\ n.drain = c.drain
    BY <1>2 DEF RowType, States, RowOK, Active, Terminal
  <2>2. Wins(t, n)
    BY <1>2, <1>4, <2>1 DEF Wins, Legal, OnlyHire, RowType
  <2>3. row[p] = c
    BY <1>1, <1>4, FreshRow DEF Wins
  <2>4. WorldTypes'
    <3>1. age' \in [Pairings -> 0..4]
      <4>1. age \in [Pairings -> 0..4] /\ 0 \in 0..4
        BY DEF HireInv, Types, WorldTypes
      <4> HIDE DEF p, r
      <4> QED
        BY <1>4, <4>1
    <3> QED
      BY <1>1, <3>1 DEF HireInv, Types, WorldTypes
  <2>5. Calm
    <3>1. /\ \A q \in Live : q \in Pairings /\ (age[q] <= 1 \/ row[q].hired) /\ age[q] \in 0..4
          /\ flakes \in Nat /\ age'[p] = 0 /\ \A q \in Pairings \ {p} : age'[q] = age[q]
      BY <1>2, <1>4 DEF HireInv, RowsInv, RowTrue, Sound, Live, Types, WorldTypes
    <3>2. \A q \in Live :
            /\ order'[q] = "spawned" => order[q] = "spawned" \/ row[q].st = "bound"
            /\ agent'[q] = "armed" => agent[q] = "armed" \/ row[q].facts
            /\ binance'[q] = "live" => binance[q] = "live" \/ ~row[q].hired
            /\ age[q] <= age'[q] \/ row[q].st \notin Leaving
            /\ age'[q] <= 1 \/ row[q].hired
            /\ age'[q] < 4 \/ age'[q] = age[q] \/ binance'[q] # "live"
      BY <1>1, <1>2, <2>3, <3>1 DEF Leaving
    <3> QED
      BY <1>1, <1>2, <3>1, <3>2 DEF Calm
  <2> HIDE DEF n
  <2>6. Written(t, n)
    <3>1. agent[p] # "armed" /\ (c.drain => drained[p] = Full) /\ ~c.facts
      BY <1>2, <2>3 DEF RowTrue, Sound, RowOK, Active
    <3>2. Sound(n, age'[p], agent'[p], drained'[p], binance'[p], flakes')
      <4>1. age'[p] = 0
        BY <1>2, <1>4 DEF HireInv, Types, WorldTypes
      <4> QED
        BY <1>1, <2>1, <3>1, <4>1 DEF Sound, Leaving
    <3> QED
      BY <1>2, <2>1, <2>2, <3>1, <3>2 DEF Written
  <2>7. Placed(At([task[t] EXCEPT !.row = n, !.fresh = TRUE], "fence"), drained'[p], order'[p], age'[p])
    <3> DEFINE k == [task[t] EXCEPT !.row = n, !.fresh = TRUE]
    <3>1. k \in TaskType /\ k.row = n
      BY <1>2, <2>1 DEF TaskType
    <3> HIDE DEF k
    <3>2. At(k, "fence").at = "fence" /\ At(k, "fence").row = n
      BY <3>1, AtType DEF Places
    <3>3. n.drain => drained'[p] = Full
      BY <2>6 DEF Written, Sound
    <3>4. Placed(At(k, "fence"), drained'[p], order'[p], age'[p])
      BY <3>2, <3>3 DEF Placed
    <3> QED
      BY <3>4 DEF k
  <2>8. Fits("fence", n) /\ "fence" \in Places /\ "fence" \notin Verifying
    BY InPlain DEF Fits, Verifying
  <2> QED
    BY <1>1, <1>4, <2>4, <2>5, <2>6, <2>7, <2>8, StoreKeeps DEF n
<1> QED
  BY <1>3, <1>4 DEF AcceptHire

-----------------------------------------------------------------------------
(* The API: the hire, and cleaning up.                                     *)

LEMMA BusyKeeps ==
  ASSUME HireInv, UNCHANGED <<row, world, aged, agent, drained, cancel, bounds>>,
         NEW t \in Tasks, task[t].at \notin {"idle", "off"}, Busy(t)
  PROVE  HireInv'
<1>1. WorldTypes' /\ Calm
  BY Undisturbed DEF Busy
<1> QED
  BY <1>1, PlainKeeps, InPlain DEF Busy, Done

LEMMA ResumeHireKeeps ==
  ASSUME HireInv, NEW t \in Api, ResumeHire(t)
  PROVE  HireInv'
<1> DEFINE p == task[t].p
<1>1. t \in Tasks /\ task[t].at = "fence" /\ UNCHANGED <<row, world, aged, agent, drained, cancel, bounds>>
  BY DEF ResumeHire, Tasks
<1>2. CASE Busy(t)
  BY <1>1, <1>2, BusyKeeps
<1>3. CASE Go(t, "thrown") /\ UNCHANGED fence
  <2>1. WorldTypes' /\ Calm
    BY <1>1, <1>3, Undisturbed
  <2> QED
    BY <1>1, <1>3, <2>1, PlainKeeps, InPlain DEF Fits
<1>4. CASE row[p].st = "hiring" /\ Take(t) /\ Read(t, p, IF row[p].facts THEN "arm" ELSE "gate")
  <2>1. WorldTypes' /\ Calm /\ p \in Live
    BY <1>1, <1>4, Undisturbed, AtWork
  <2>2. CASE row[p].facts
    BY <1>1, <1>4, <2>1, <2>2, ReadKeeps, InPlain DEF Fits
  <2>3. CASE ~row[p].facts
    BY <1>1, <1>4, <2>1, <2>3, ReadKeeps, InPlain DEF Fits
  <2> QED
    BY <2>2, <2>3
<1> QED
  BY <1>2, <1>3, <1>4 DEF ResumeHire

LEMMA GateKeeps ==
  ASSUME HireInv, NEW t \in Tasks, Gate(t)
  PROVE  HireInv'
<1>1. task[t].at = "gate" /\ UNCHANGED row
  BY DEF Gate
<1>2. WorldTypes' /\ Calm
  BY <1>1, Undisturbed DEF Gate
<1>3. Fits("refuse", task[t].row) /\ Fits("gated", task[t].row)
  BY <1>1, AtWork DEF Fits
<1> QED
  BY <1>1, <1>2, <1>3, PlainKeeps, InPlain DEF Gate

LEMMA GatedKeeps ==
  ASSUME HireInv, NEW t \in Tasks, Gated(t)
  PROVE  HireInv'
<1> DEFINE c == task[t].row
           r == [c EXCEPT !.facts = TRUE]
<1>1. task[t].at = "gated" /\ Patch(t, r, "arm", "refuse")
  BY DEF Gated
<1>2. WorldTypes' /\ Calm
  BY <1>1, Undisturbed DEF Gated
<1>3. c \in RowType /\ RowOK(c) /\ c.st = "hiring" /\ ~c.facts /\ Fits("refuse", c)
  BY <1>1, AtWork DEF Fits
<1>4. r \in RowType /\ RowOK(r) /\ SameFacts(c, r) /\ r.st = "hiring" /\ Fits("arm", r)
  BY <1>3 DEF RowType, States, RowOK, SameFacts, Leaving, Active, Terminal, Fits
<1> HIDE DEF r, c
<1> QED
  BY <1>1, <1>2, <1>3, <1>4, PlainPatch, InPlain DEF c

LEMMA RefuseKeeps ==
  ASSUME HireInv, NEW t \in Tasks, Refuse(t)
  PROVE  HireInv'
<1> DEFINE c == task[t].row
           r == [c EXCEPT !.st = "cleaning"]
<1>1. task[t].at = "refuse" /\ Patch(t, r, "thrown", "thrown")
  BY DEF Refuse
<1>2. WorldTypes' /\ Calm
  BY <1>1, Undisturbed DEF Refuse
<1>3. c \in RowType /\ RowOK(c) /\ c.st = "hiring" /\ ~c.facts /\ Fits("thrown", c)
  BY <1>1, AtWork DEF Fits
<1>4. r \in RowType /\ RowOK(r) /\ SameFacts(c, r) /\ r.st = "cleaning" /\ Fits("thrown", r)
  BY <1>3 DEF RowType, States, RowOK, SameFacts, Leaving, Active, Terminal, Fits
<1> HIDE DEF r, c
<1> QED
  BY <1>1, <1>2, <1>3, <1>4, PlainPatch, InPlain DEF c

LEMMA CreateAgentKeeps ==
  ASSUME HireInv, NEW t \in Tasks, CreateAgent(t)
  PROVE  HireInv'
<1> DEFINE p == task[t].p
<1>1. task[t].at = "arm" /\ Go(t, "staged") /\ UNCHANGED <<row, age, binance, order, aged, drained, fence, cancel, flakes, touches, crashes>>
      /\ agent' = IF agent[p] = None THEN [agent EXCEPT ![p] = "armed"] ELSE agent
  BY DEF CreateAgent, world, bounds
<1>2. p \in Live /\ p \in Pairings /\ row[p].facts /\ Fits("staged", task[t].row)
  BY <1>1, AtWork DEF TaskTrue, Knows, Follows, Fits
<1>3. agent' \in [Pairings -> {None, "armed", "revoked"}] /\ \A q \in Pairings \ {p} : agent'[q] = agent[q]
  BY <1>1 DEF HireInv, Types, WorldTypes
<1>4. WorldTypes'
  BY <1>1, <1>3 DEF HireInv, Types, WorldTypes
<1>5. Calm
  <2>1. /\ \A q \in Live : q \in Pairings /\ (age[q] <= 1 \/ row[q].hired) /\ age[q] \in 0..4
        /\ flakes \in Nat
    BY DEF HireInv, RowsInv, RowTrue, Sound, Live, Types, WorldTypes
  <2>2. \A q \in Live :
          /\ order'[q] = "spawned" => order[q] = "spawned" \/ row[q].st = "bound"
          /\ agent'[q] = "armed" => agent[q] = "armed" \/ row[q].facts
          /\ binance'[q] = "live" => binance[q] = "live" \/ ~row[q].hired
          /\ age[q] <= age'[q] \/ row[q].st \notin Leaving
          /\ age'[q] <= 1 \/ row[q].hired
          /\ age'[q] < 4 \/ age'[q] = age[q] \/ binance'[q] # "live"
    BY <1>1, <1>2, <1>3, <2>1
  <2> QED
    BY <1>1, <1>2, <1>3, <2>1, <2>2 DEF Calm
<1> QED
  BY <1>1, <1>2, <1>4, <1>5, PlainKeeps, InPlain

LEMMA StagedKeeps ==
  ASSUME HireInv, NEW t \in Tasks, Staged(t)
  PROVE  HireInv'
<1> DEFINE c == task[t].row
<1>1. task[t].at = "staged" /\ Patch(t, c, "bind", "thrown")
  BY DEF Staged
<1>2. WorldTypes' /\ Calm
  BY <1>1, Undisturbed DEF Staged
<1>3. c \in RowType /\ RowOK(c) /\ Fits("bind", c) /\ Fits("thrown", c) /\ SameFacts(c, c)
  BY <1>1, AtWork DEF Fits, SameFacts
<1> HIDE DEF c
<1> QED
  BY <1>1, <1>2, <1>3, PlainPatch, InPlain DEF c

LEMMA BindKeeps ==
  ASSUME HireInv, NEW t \in Tasks, Bind(t)
  PROVE  HireInv'
<1> DEFINE c == task[t].row
           r == [c EXCEPT !.st = "bound"]
<1>1. task[t].at = "bind" /\ Patch(t, r, "thrown", "thrown")
  BY DEF Bind
<1>2. WorldTypes' /\ Calm
  BY <1>1, Undisturbed DEF Bind
<1>3. c \in RowType /\ RowOK(c) /\ c.facts /\ Fits("thrown", c)
  BY <1>1, AtWork DEF Fits
<1>4. ASSUME Wins(t, r)
      PROVE  r \in RowType /\ RowOK(r) /\ SameFacts(c, r) /\ r.st = "bound" /\ Fits("thrown", r)
  <2>1. r \in RowType /\ r.st = "bound"
    BY <1>3 DEF RowType, States
  <2>2. c.st \in {"hiring", "bound"}
    BY <1>3, <1>4, <2>1 DEF Wins, Legal, Transitions, RowType, States
  <2> QED
    BY <1>3, <2>1, <2>2 DEF RowType, RowOK, SameFacts, Leaving, Active, Terminal, Fits
<1> HIDE DEF r, c
<1> QED
  BY <1>1, <1>2, <1>3, <1>4, PlainPatch, InPlain DEF c

LEMMA ThrownKeeps ==
  ASSUME HireInv, NEW t \in Api, Thrown(t)
  PROVE  HireInv'
<1> DEFINE p == task[t].p
<1>1. t \in Tasks /\ task[t].at = "thrown" /\ UNCHANGED row
  BY DEF Thrown, Tasks
<1>2. WorldTypes' /\ Calm /\ p \in Live
  BY <1>1, Undisturbed, AtWork DEF Thrown
<1>3. CASE row[p].st = "cleaning"
  <2>1. Read(t, p, "clean") /\ Fits("clean", row[p])
    BY <1>3 DEF Thrown, Fits
  <2> QED
    BY <1>1, <1>2, <2>1, ReadKeeps, InPlain
<1>4. CASE row[p].st # "cleaning"
  BY <1>1, <1>2, <1>4, PlainKeeps, InPlain DEF Thrown, Done
<1> QED
  BY <1>3, <1>4

LEMMA CleanKeeps ==
  ASSUME HireInv, NEW t \in Tasks, Clean(t)
  PROVE  HireInv'
<1> DEFINE c == task[t].row
           r == [c EXCEPT !.st = "cleaning"]
<1>1. task[t].at = "clean"
  BY DEF Clean
<1>2. WorldTypes' /\ Calm
  BY <1>1, Undisturbed DEF Clean
<1>3. c \in RowType /\ RowOK(c) /\ c.st \in {"verified", "paired", "cleaning"}
  BY <1>1, AtWork DEF Fits
<1>4. r \in RowType /\ RowOK(r) /\ SameFacts(c, r) /\ r.st = "cleaning" /\ Fits("cleaning", r)
  BY <1>3 DEF RowType, States, RowOK, SameFacts, Leaving, Active, Terminal, Fits
<1>5. CASE c.st = "cleaning"
  BY <1>1, <1>2, <1>5, PlainKeeps, InPlain DEF Clean, Fits
<1>6. CASE c.st # "cleaning"
  <2>1. Patch(t, r, "cleaning", "idle")
    BY <1>6 DEF Clean
  <2> HIDE DEF r, c
  <2> QED
    BY <1>1, <1>2, <1>4, <2>1, PlainPatch, InPlain DEF c
<1> QED
  BY <1>5, <1>6

LEMMA CleanFenceKeeps ==
  ASSUME HireInv, NEW t \in Tasks, CleanFence(t)
  PROVE  HireInv'
<1>1. task[t].at = "cleaning" /\ UNCHANGED <<row, world, aged, agent, drained, cancel, bounds>>
  BY DEF CleanFence
<1>2. CASE Busy(t)
  BY <1>1, <1>2, BusyKeeps
<1>3. CASE (Take(t) \/ UNCHANGED fence) /\ Go(t, "signout")
  <2>1. WorldTypes' /\ Calm
    BY <1>1, <1>3, Undisturbed
  <2>2. Fits("signout", task[t].row)
    BY <1>1, AtWork DEF Fits
  <2> QED
    BY <1>1, <1>3, <2>1, <2>2, PlainKeeps, InPlain
<1> QED
  BY <1>2, <1>3 DEF CleanFence

LEMMA CleanSignOutKeeps ==
  ASSUME HireInv, NEW t \in Tasks, CleanSignOut(t)
  PROVE  HireInv'
<1>1. task[t].at = "signout" /\ Go(t, "cleaned") /\ UNCHANGED row
  BY DEF CleanSignOut
<1>2. WorldTypes' /\ Calm
  BY Quiet DEF CleanSignOut, bounds, HireInv, Types, WorldTypes
<1>3. Fits("cleaned", task[t].row)
  BY <1>1, AtWork DEF Fits
<1> QED
  BY <1>1, <1>2, <1>3, PlainKeeps, InPlain

LEMMA CleanedKeeps ==
  ASSUME HireInv, NEW t \in Tasks, Cleaned(t)
  PROVE  HireInv'
<1>1. task[t].at = "cleaned"
  BY DEF Cleaned
<1>2. WorldTypes' /\ Calm
  BY <1>1, Undisturbed DEF Cleaned
<1>3. PICK st \in {"failed", "expired"} : Last(t, [task[t].row EXCEPT !.st = st, !.session = FALSE])
  BY DEF Cleaned
<1> DEFINE c == task[t].row
           r == [c EXCEPT !.st = st, !.session = FALSE]
<1>4. c \in RowType /\ RowOK(c) /\ c.st = "cleaning"
  BY <1>1, AtWork DEF Fits
<1>5. r \in RowType /\ RowOK(r) /\ SameFacts(c, r) /\ r.st # "verified"
  BY <1>3, <1>4 DEF RowType, States, RowOK, SameFacts, Leaving, Active, Terminal
<1> HIDE DEF r, c
<1>6. Wins(t, r) => Written(t, r)
  BY <1>1, <1>2, <1>5, PlainWrite DEF c
<1> QED
  BY <1>1, <1>2, <1>3, <1>6, LastKeeps DEF r, c

LEMMA SweepKeeps ==
  ASSUME HireInv, NEW t \in Sweepers, NEW p \in Pairings, Sweep(t, p)
  PROVE  HireInv'
<1>1. t \in Tasks /\ t \in Api /\ p \in Live /\ UNCHANGED row
  BY DEF Sweep, Tasks, Api
<1>2. WorldTypes' /\ Calm
  BY <1>1, Undisturbed DEF Sweep
<1>3. PICK pc \in {"stop", "clean", "fence", "end", "revoke"} : Read(t, p, pc) /\ Fits(pc, row[p])
  BY DEF Sweep, Fits
<1> QED
  BY <1>1, <1>2, <1>3, ReadKeeps, InPlain

-----------------------------------------------------------------------------
(* The end of a hire.                                                      *)

\* What the copy implies, where it is still the stored row.
LEMMA SoundCopy ==
  ASSUME HireInv, WorldTypes', Calm, NEW t \in Tasks, task[t].fresh,
         task[t].at \notin {"idle", "off", "admit", "reread", "store", "undo"}
  PROVE  /\ row[task[t].p] = task[t].row
         /\ Sound(task[t].row, age'[task[t].p], agent'[task[t].p], drained'[task[t].p], binance'[task[t].p], flakes')
BY FreshRow, AtWork, SoundStays

LEMMA EndedWrite ==
  ASSUME HireInv, WorldTypes', Calm, NEW t \in Tasks, task[t].at \in {"end", "verify"}, Wins(t, Ended(task[t].row)),
         binance'[task[t].p] = "live" => flakes' >= 1
  PROVE  Written(t, Ended(task[t].row))
<1> DEFINE c == task[t].row
           p == task[t].p
           r == Ended(c)
<1>1. c \in RowType /\ RowOK(c) /\ c.st = "ending"
  BY AtWork DEF Fits
<1>2. Sound(c, age'[p], agent'[p], drained'[p], binance'[p], flakes')
  BY SoundCopy DEF Wins
<1>3. /\ r.st = "ended" /\ r.facts = c.facts /\ r.hired = c.hired /\ r.drain = c.drain /\ r.u = c.u /\ r.sell = c.sell
      /\ r.why = (IF c.why = None THEN "term-ended" ELSE c.why) /\ r \in RowType
  BY <1>1 DEF Ended, RowType, States
<1>4. RowOK(r) /\ c.why \in {None, "stop-loss"} /\ c.hired
  BY <1>1, <1>3 DEF RowOK, RowType, Terminal, Active
<1> HIDE DEF r, c, p
<1>5. Sound(r, age'[p], agent'[p], drained'[p], binance'[p], flakes')
  BY <1>1, <1>2, <1>3, <1>4 DEF Sound, Leaving, p
<1> QED
  BY <1>3, <1>4, <1>5 DEF Written, r, c, p

LEMMA EndingKeeps ==
  ASSUME HireInv, NEW t \in Tasks, Ending(t)
  PROVE  HireInv'
<1> DEFINE p == task[t].p
           c == task[t].row
<1>1. task[t].at = "end" /\ UNCHANGED <<world, aged, drained, fence, cancel, bounds>> /\ Revoke(p)
  BY DEF Ending
<1>2. WorldTypes' /\ Calm
  BY <1>1, Undisturbed
<1>3. TaskTrue(t) /\ task[t] \in TaskType /\ p \in Live /\ p \in Pairings /\ c.st = "ending" /\ RowTrue(p)
      /\ row[p] \in RowType
  BY <1>1, AtWork DEF Fits
<1>4. CASE age[p] >= 4
  <2>1. ASSUME Wins(t, Ended(c)) PROVE Written(t, Ended(c))
    <3>1. row[p] = c /\ Sound(c, age'[p], agent'[p], drained'[p], binance'[p], flakes')
      BY <1>1, <1>2, <2>1, SoundCopy DEF Wins
    <3>2. binance'[p] # "live"
      BY <1>1, <1>3, <1>4, <3>1 DEF Sound, world, HireInv, Types, WorldTypes
    <3> QED
      BY <1>1, <1>2, <2>1, <3>2, EndedWrite
  <2> QED
    BY <1>1, <1>2, <1>4, <2>1, LastKeeps DEF Ending
<1>5. CASE ~(age[p] >= 4)
  <2>1. PICK pc \in {"idle", "leave"} : Go(t, pc) /\ (pc = "leave" => ~(Unsettled(p) /\ age[p] < 3)) /\ UNCHANGED row
    BY <1>5 DEF Ending
  <2>2. CASE pc = "idle"
    BY <1>1, <1>2, <2>1, <2>2, PlainKeeps, InPlain
  <2>3. CASE pc = "leave"
    <3> DEFINE k == At(task[t], pc)
    <3>1. k.at = "leave" /\ k.row = c
      <4>1. pc \in Places /\ pc # "idle"
        BY <2>3, InPlain
      <4>2. k.at = pc /\ k.row = c
        BY <1>3, <4>1, AtType
      <4> QED
        BY <2>3, <4>2
    <3>2. order[p] # "spawned" \/ age[p] >= 3
      BY <1>3, <2>1, <2>3 DEF Unsettled, HireInv, Types, WorldTypes
    <3>3. c.drain => drained[p] = Full
      BY <1>3 DEF TaskTrue, Placed
    <3>4. order' = order /\ age' = age /\ drained' = drained
      BY <1>1 DEF world
    <3> HIDE DEF k
    <3>5. Placed(k, drained'[p], order'[p], age'[p])
      BY <3>1, <3>2, <3>3, <3>4 DEF Placed
    <3>6. Fits("leave", c) /\ "leave" \in Places /\ "leave" \notin Verifying
      BY <1>3, InPlain DEF Fits, Verifying
    <3> QED
      BY <1>1, <1>2, <2>1, <2>3, <3>5, <3>6, GoKeeps DEF k
  <2> QED
    BY <2>2, <2>3
<1> QED
  BY <1>4, <1>5

LEMMA LeaveFenceKeeps ==
  ASSUME HireInv, NEW t \in Tasks, LeaveFence(t)
  PROVE  HireInv'
<1> DEFINE p == task[t].p
<1>1. task[t].at = "leave" /\ UNCHANGED <<row, world, aged, agent, drained, cancel, bounds>>
  BY DEF LeaveFence
<1>2. CASE Busy(t)
  BY <1>1, <1>2, BusyKeeps
<1>3. CASE row[p].st = "ending" /\ Take(t) /\ Read(t, p, "logout")
  <2>1. WorldTypes' /\ Calm
    BY <1>1, <1>3, Undisturbed
  <2>2. p \in Live /\ row[p].facts /\ (order[p] # "spawned" \/ age[p] >= 3)
    BY <1>1, <1>3, AtWork DEF TaskTrue, Placed, RowOK
  <2>3. Fits("logout", row[p]) /\ (order'[p] # "spawned" \/ age'[p] >= 3)
    BY <1>1, <1>3, <2>2 DEF Fits, world
  <2> QED
    BY <1>1, <1>3, <2>1, <2>2, <2>3, ReadKeeps
<1>4. CASE Done(t) /\ UNCHANGED fence
  <2>1. WorldTypes' /\ Calm
    BY <1>1, <1>4, Undisturbed
  <2> QED
    BY <1>1, <1>4, <2>1, PlainKeeps, InPlain DEF Done
<1> QED
  BY <1>2, <1>3, <1>4 DEF LeaveFence

LEMMA LogOutKeeps ==
  ASSUME HireInv, NEW t \in Tasks, LogOut(t)
  PROVE  HireInv'
<1>1. task[t].at = "logout" /\ UNCHANGED row
  BY DEF LogOut
<1>2. WorldTypes' /\ Calm
  BY Quiet DEF LogOut, bounds, HireInv, Types, WorldTypes
<1>3. Fits("record", task[t].row)
  BY <1>1, AtWork DEF Fits
<1> QED
  BY <1>1, <1>2, <1>3, PlainKeeps, InPlain DEF LogOut, Done

LEMMA RecordKeeps ==
  ASSUME HireInv, NEW t \in Tasks, Record(t)
  PROVE  HireInv'
<1> DEFINE c == task[t].row
           p == task[t].p
           r == [c EXCEPT !.logout = TRUE]
<1>1. task[t].at = "record" /\ Patch(t, r, "verify", "idle")
      /\ UNCHANGED <<age, binance, order, agent, drained, cancel, flakes, touches, crashes>>
  BY DEF Record, world, bounds
<1>2. WorldTypes' /\ Calm
  <2>1. aged' \in [Pairings -> SUBSET {"u", "logout"}]
    BY DEF Record, HireInv, Types, WorldTypes
  <2>2. fence' \in [Wallets -> Tasks \cup {None, Gone}]
    BY FenceType DEF Record
  <2>3. flakes \in Nat /\ flakes <= flakes /\ cancel \subseteq Pairings
    BY DEF HireInv, Types, WorldTypes
  <2> QED
    BY <1>1, <2>1, <2>2, <2>3, Quiet
<1>3. c \in RowType /\ RowOK(c) /\ c.st = "ending"
  BY <1>1, AtWork DEF Fits
<1>4. r \in RowType /\ RowOK(r) /\ SameFacts(c, r) /\ r.st = "ending" /\ Fits("verify", r)
  BY <1>3 DEF RowType, RowOK, SameFacts, Fits
<1> HIDE DEF r, c
<1> QED
  BY <1>1, <1>2, <1>4, PlainPatch, InPlain DEF c

\* A reading that says the session is gone is wrong only at the cost of a flake.
LEMMA ReadingCost ==
  ASSUME HireInv, NEW p \in Pairings, NEW s, Reading(p, s)
  PROVE  /\ flakes' \in Nat /\ flakes <= flakes'
         /\ s = "U" /\ binance[p] = "live" => flakes' = flakes + 1
<1>1. flakes \in Nat
  BY DEF HireInv, Types, WorldTypes
<1> QED
  BY <1>1 DEF Reading

LEMMA VerifyOutKeeps ==
  ASSUME HireInv, NEW t \in Tasks, VerifyOut(t)
  PROVE  HireInv'
<1> DEFINE c == task[t].row
           p == task[t].p
<1>1. task[t].at = "verify" /\ UNCHANGED <<age, binance, order, aged, agent, drained, cancel, touches, crashes>> /\ Free(t)
  BY DEF VerifyOut, world
<1>2. p \in Pairings /\ c \in RowType /\ RowOK(c) /\ c.st = "ending"
  BY <1>1, AtWork DEF Fits
<1>3. ASSUME flakes' \in Nat, flakes <= flakes' PROVE WorldTypes' /\ Calm
  <2>1. fence' \in [Wallets -> Tasks \cup {None, Gone}]
    BY <1>1, FenceType
  <2>2. aged \in [Pairings -> SUBSET {"u", "logout"}] /\ cancel \subseteq Pairings
    BY DEF HireInv, Types, WorldTypes
  <2> QED
    BY <1>1, <1>3, <2>1, <2>2, Quiet
<1>4. CASE Done(t) /\ UNCHANGED <<row, flakes>>
  <2>1. flakes' \in Nat /\ flakes <= flakes'
    BY <1>4 DEF HireInv, Types, WorldTypes
  <2> QED
    BY <1>1, <1>3, <1>4, <2>1, PlainKeeps, InPlain DEF Done
<1>5. ASSUME NEW s, Reading(p, s), Last(t, IF s = "U" THEN Ended(c) ELSE c)
      PROVE  HireInv'
  <2>1. WorldTypes' /\ Calm
    BY <1>2, <1>3, <1>5, ReadingCost
  <2>2. CASE s = "U"
    <3>1. binance'[p] = "live" => flakes' >= 1
      <4>1. flakes \in Nat
        BY DEF HireInv, Types, WorldTypes
      <4> QED
        BY <1>1, <1>2, <1>5, <2>2, <4>1, ReadingCost
    <3>2. Wins(t, Ended(c)) => Written(t, Ended(c))
      BY <1>1, <2>1, <3>1, EndedWrite
    <3> QED
      BY <1>1, <1>5, <2>1, <2>2, <3>2, LastKeeps
  <2>3. CASE s # "U"
    <3>1. SameFacts(c, c)
      BY DEF SameFacts
    <3>2. Wins(t, c) => Written(t, c)
      BY <1>1, <1>2, <2>1, <3>1, PlainWrite
    <3> QED
      BY <1>1, <1>5, <2>1, <2>3, <3>2, LastKeeps
  <2> QED
    BY <2>2, <2>3
<1> QED
  BY <1>4, <1>5 DEF VerifyOut

LEMMA RevokeEndedKeeps ==
  ASSUME HireInv, NEW t \in Tasks, RevokeEnded(t)
  PROVE  HireInv'
<1>1. task[t].at = "revoke" /\ UNCHANGED row /\ Done(t)
  BY DEF RevokeEnded
<1>2. WorldTypes' /\ Calm
  BY Undisturbed DEF RevokeEnded
<1> QED
  BY <1>1, <1>2, PlainKeeps, InPlain DEF Done

-----------------------------------------------------------------------------
(* A worker's cycle.                                                       *)

LEMMA CycleKeeps ==
  ASSUME HireInv, NEW t \in Workers, NEW p \in Pairings, Cycle(t, p)
  PROVE  HireInv'
<1>1. t \in Tasks /\ p \in Live /\ UNCHANGED row /\ row[p].facts /\ Read(t, p, "drain")
  BY DEF Cycle, Tasks
<1>2. WorldTypes' /\ Calm
  BY <1>1, Undisturbed DEF Cycle
<1>3. Fits("drain", row[p])
  BY DEF Fits
<1> QED
  BY <1>1, <1>2, <1>3, ReadKeeps, InPlain

\* The drain only adds to what was told to sell.
LEMMA TellKeeps ==
  ASSUME HireInv, NEW p \in Pairings, NEW x \in Full, UNCHANGED <<world, aged, agent, fence, cancel, bounds>>,
         drained' = [drained EXCEPT ![p] = @ \cup {x}]
  PROVE  WorldTypes' /\ Calm /\ x \in drained'[p] /\ drained[p] \subseteq drained'[p] /\ drained'[p] \subseteq Full
<1>1. UNCHANGED <<age, binance, order, aged, agent, fence, cancel, flakes, touches, crashes>>
  BY DEF world, bounds
<1>2. drained' \in [Pairings -> SUBSET {"settings", "exits"}] /\ drained'[p] = drained[p] \cup {x}
      /\ \A q \in Pairings : drained[q] \subseteq drained'[q]
  BY DEF HireInv, Types, WorldTypes, Full
<1>3. WorldTypes'
  BY <1>1, <1>2 DEF HireInv, Types, WorldTypes
<1>4. /\ \A q \in Live : q \in Pairings /\ (age[q] <= 1 \/ row[q].hired) /\ age[q] \in 0..4
      /\ flakes \in Nat
  BY DEF HireInv, RowsInv, RowTrue, Sound, Live, Types, WorldTypes
<1>5. \A q \in Live :
        /\ order'[q] = "spawned" => order[q] = "spawned" \/ row[q].st = "bound"
        /\ agent'[q] = "armed" => agent[q] = "armed" \/ row[q].facts
        /\ binance'[q] = "live" => binance[q] = "live" \/ ~row[q].hired
        /\ age[q] <= age'[q] \/ row[q].st \notin Leaving
        /\ age'[q] <= 1 \/ row[q].hired
        /\ age'[q] < 4 \/ age'[q] = age[q] \/ binance'[q] # "live"
  BY <1>1, <1>4
<1>6. Calm
  BY <1>1, <1>2, <1>4, <1>5 DEF Calm
<1> QED
  BY <1>2, <1>3, <1>6 DEF WorldTypes, Full

LEMMA DrainKeeps ==
  ASSUME HireInv, NEW t \in Tasks, Drain(t)
  PROVE  HireInv'
<1> DEFINE p == task[t].p
           c == task[t].row
           told == c.st = "bound" /\ c.sell /\ ~c.drain /\ task[t].age >= 1
<1>1. task[t].at = "drain" /\ UNCHANGED <<row, world, aged, agent, fence, cancel, bounds>>
  BY DEF Drain
<1>2. TaskTrue(t) /\ task[t] \in TaskType /\ p \in Pairings /\ (c.drain => drained[p] = Full)
      /\ c \in RowType /\ task[t].age \in 0..4
  BY <1>1, AtWork DEF TaskTrue, Placed, TaskType
<1>3. CASE told
  <2>1. drained' = [drained EXCEPT ![p] = @ \cup {"settings"}] /\ Go(t, "exits")
    BY <1>3 DEF Drain
  <2>2. WorldTypes' /\ Calm /\ "settings" \in drained'[p]
    BY <1>1, <1>2, <2>1, TellKeeps DEF Full
  <2> DEFINE k == At(task[t], "exits")
  <2>3. k.at = "exits" /\ k.row = c
    BY <1>2, InPlain, AtType
  <2> HIDE DEF k
  <2>4. Placed(k, drained'[p], order'[p], age'[p])
    BY <1>3, <2>2, <2>3 DEF Placed
  <2>5. Fits("exits", c) /\ "exits" \in Places /\ "exits" \notin Verifying
    BY InPlain DEF Fits, Verifying
  <2> QED
    BY <1>1, <2>1, <2>2, <2>4, <2>5, GoKeeps DEF k
<1>4. CASE ~told
  <2>1. drained' = drained /\ Go(t, "term")
    BY <1>4 DEF Drain
  <2>2. WorldTypes' /\ Calm
    BY <1>1, <2>1, Undisturbed
  <2> DEFINE k == At(task[t], "term")
  <2>3. k.at = "term" /\ k.row = c /\ k.age = task[t].age
    BY <1>2, InPlain, AtType
  <2> HIDE DEF k
  <2>4. Placed(k, drained'[p], order'[p], age'[p])
    BY <1>2, <1>4, <2>1, <2>3 DEF Placed
  <2>5. Fits("term", c) /\ "term" \in Places /\ "term" \notin Verifying
    BY InPlain DEF Fits, Verifying
  <2> QED
    BY <1>1, <2>1, <2>2, <2>4, <2>5, GoKeeps DEF k
<1> QED
  BY <1>3, <1>4

LEMMA ExitsKeeps ==
  ASSUME HireInv, NEW t \in Tasks, Exits(t)
  PROVE  HireInv'
<1> DEFINE p == task[t].p
           c == task[t].row
           k == At(task[t], "mark")
<1>1. task[t].at = "exits" /\ UNCHANGED <<row, world, aged, agent, fence, cancel, bounds>> /\ Go(t, "mark")
      /\ drained' = [drained EXCEPT ![p] = @ \cup {"exits"}]
  BY DEF Exits
<1>2. task[t] \in TaskType /\ p \in Pairings /\ "settings" \in drained[p]
  BY <1>1, AtWork DEF TaskTrue, Placed
<1>3. WorldTypes' /\ Calm /\ drained'[p] = Full
  <2>1. WorldTypes' /\ Calm /\ "exits" \in drained'[p] /\ drained[p] \subseteq drained'[p] /\ drained'[p] \subseteq Full
    BY <1>1, <1>2, TellKeeps DEF Full
  <2> QED
    BY <1>2, <2>1 DEF Full
<1>4. k.at = "mark" /\ k.row = c
  BY <1>2, InPlain, AtType
<1> HIDE DEF k
<1>5. Placed(k, drained'[p], order'[p], age'[p])
  BY <1>3, <1>4 DEF Placed
<1>6. Fits("mark", c) /\ "mark" \in Places /\ "mark" \notin Verifying
  BY InPlain DEF Fits, Verifying
<1> QED
  BY <1>1, <1>3, <1>5, <1>6, GoKeeps DEF k

LEMMA MarkKeeps ==
  ASSUME HireInv, NEW t \in Tasks, Mark(t)
  PROVE  HireInv'
<1> DEFINE p == task[t].p
           c == task[t].row
           r == [c EXCEPT !.drain = TRUE]
<1>1. task[t].at = "mark" /\ Patch(t, r, "term", "term") /\ UNCHANGED <<world, aged, agent, drained, fence, cancel, bounds>>
  BY DEF Mark
<1>2. WorldTypes' /\ Calm
  BY <1>1, Undisturbed
<1>3. task[t] \in TaskType /\ c \in RowType /\ RowOK(c) /\ drained[p] = Full /\ drained'[p] = Full
  BY <1>1, AtWork DEF TaskTrue, Placed
<1>4. "term" \in Places /\ "term" \notin Verifying /\ \A x : Fits("term", x)
  BY InPlain DEF Fits, Verifying
<1>5. \A k \in TaskType : Placed(At(k, "term"), drained'[p], order'[p], age'[p])
  BY <1>3, <1>4, AtType DEF Placed
<1>6. CASE ~Wins(t, r)
  BY <1>1, <1>2, <1>3, <1>4, <1>5, <1>6, GoKeeps DEF Patch
<1>7. CASE Wins(t, r)
  <2>1. r \in RowType /\ RowOK(r) /\ r.st = c.st /\ r.facts = c.facts /\ r.hired = c.hired /\ r.u = c.u
        /\ r.why = c.why /\ r.sell = c.sell
    BY <1>3 DEF RowType, RowOK
  <2>2. Sound(c, age'[p], agent'[p], drained'[p], binance'[p], flakes')
    BY <1>1, <1>2, <1>7, SoundCopy DEF Wins
  <2>3. [task[t] EXCEPT !.row = r, !.fresh = TRUE] \in TaskType
    BY <1>3, <2>1 DEF TaskType
  <2> HIDE DEF r, c, p
  <2>4. Sound(r, age'[p], agent'[p], drained'[p], binance'[p], flakes')
    BY <1>3, <2>1, <2>2 DEF Sound
  <2>5. Written(t, r) /\ Store(t, p, r, "term")
    BY <1>1, <1>7, <2>1, <2>4 DEF Written, Patch, c, p
  <2> QED
    BY <1>1, <1>2, <1>4, <1>5, <2>3, <2>5, StoreKeeps DEF p
<1> QED
  BY <1>6, <1>7

LEMMA TermEndKeeps ==
  ASSUME HireInv, NEW t \in Tasks, TermEnd(t)
  PROVE  HireInv'
<1> DEFINE p == task[t].p
           c == task[t].row
           r == [c EXCEPT !.st = "ending"]
<1>1. task[t].at = "term" /\ UNCHANGED <<world, aged, agent, drained, fence, cancel, bounds>>
  BY DEF TermEnd
<1>2. WorldTypes' /\ Calm
  BY <1>1, Undisturbed
<1>3. c \in RowType /\ RowOK(c) /\ (c.st = "bound" /\ c.sell /\ task[t].age >= 2 => drained'[p] = Full)
  BY <1>1, AtWork DEF TaskTrue, Placed
<1>4. \A x : Fits("termed", x) /\ Fits("probe", x)
  BY DEF Fits
<1>5. CASE ~(c.st = "bound" /\ task[t].age >= 2)
  BY <1>1, <1>2, <1>4, <1>5, PlainKeeps, InPlain DEF TermEnd
<1>6. CASE c.st = "bound" /\ task[t].age >= 2
  <2>1. Patch(t, r, "termed", "termed")
    BY <1>6 DEF TermEnd
  <2>2. r \in RowType /\ RowOK(r) /\ r.st = "ending" /\ r.facts = c.facts /\ r.hired = c.hired /\ r.u = c.u
        /\ r.why = c.why /\ r.sell = c.sell /\ r.drain = c.drain
    BY <1>3, <1>6 DEF RowType, States, RowOK, Terminal, Active
  <2> HIDE DEF r, c, p
  <2>3. ASSUME Wins(t, r) PROVE Written(t, r)
    <3>1. Sound(c, age'[p], agent'[p], drained'[p], binance'[p], flakes')
      BY <1>1, <1>2, <2>3, SoundCopy DEF Wins, c, p
    <3>2. Sound(r, age'[p], agent'[p], drained'[p], binance'[p], flakes')
      BY <1>3, <1>6, <2>2, <3>1 DEF Sound
    <3> QED
      BY <2>2, <2>3, <3>2 DEF Written, c, p
  <2> QED
    BY <1>1, <1>2, <1>4, <2>1, <2>3, PatchKeeps, InPlain
<1> QED
  BY <1>5, <1>6

LEMMA RevokeLeftKeeps ==
  ASSUME HireInv, NEW t \in Tasks, RevokeLeft(t)
  PROVE  HireInv'
<1>1. task[t].at \in {"termed", "left"} /\ UNCHANGED row
  BY DEF RevokeLeft
<1>2. WorldTypes' /\ Calm
  BY Undisturbed DEF RevokeLeft
<1>3. PICK pc \in {"rest", "probe"} : Go(t, pc)
  BY DEF RevokeLeft
<1>4. Fits(pc, task[t].row)
  BY DEF Fits
<1> QED
  BY <1>1, <1>2, <1>3, <1>4, PlainKeeps, InPlain

\* A worker's or trader's copy has passed the gate, and so has the stored row.
LEMMA Passed ==
  ASSUME HireInv, NEW t \in Workers \cup Traders, task[t].at \notin {"idle", "off"}
  PROVE  t \in Tasks /\ task[t].row.facts /\ row[task[t].p].facts
BY AtWork DEF TaskTrue, Knows, Follows, Tasks

LEMMA ProbeKeeps ==
  ASSUME HireInv, NEW t \in Workers, Probe(t)
  PROVE  HireInv'
<1>1. task[t].at = "probe" /\ UNCHANGED row
  BY DEF Probe
<1>2. t \in Tasks /\ row[task[t].p].facts /\ task[t].p \in Live
  BY <1>1, Passed, AtWork
<1>3. WorldTypes' /\ Calm
  BY <1>2, Undisturbed DEF Probe
<1>4. \A x : Fits("rest", x) /\ Fits("status", x)
  BY DEF Fits
<1>5. CASE Go(t, "rest")
  BY <1>1, <1>2, <1>3, <1>4, <1>5, PlainKeeps, InPlain
<1>6. CASE Read(t, task[t].p, "status")
  BY <1>1, <1>2, <1>3, <1>4, <1>6, ReadKeeps, InPlain
<1> QED
  BY <1>5, <1>6 DEF Probe

\* A reading is written into the row: the first one that says the session is gone costs a
\* flake, if it is wrong.
LEMMA SeenWrite ==
  ASSUME HireInv, WorldTypes', Calm, NEW t \in Workers \cup Traders,
         task[t].at \notin {"idle", "off", "admit", "reread", "store", "undo"},
         NEW gone \in BOOLEAN, Wins(t, [task[t].row EXCEPT !.u = gone]),
         gone /\ binance'[task[t].p] = "live" => flakes' >= 1
  PROVE  Written(t, [task[t].row EXCEPT !.u = gone])
<1> DEFINE p == task[t].p
           c == task[t].row
           r == [c EXCEPT !.u = gone]
<1>1. t \in Tasks /\ c \in RowType /\ RowOK(c) /\ c.facts
  BY AtWork, Passed
<1>2. /\ r \in RowType /\ RowOK(r) /\ r.st = c.st /\ r.facts = c.facts /\ r.hired = c.hired /\ r.u = gone
      /\ r.why = c.why /\ r.sell = c.sell /\ r.drain = c.drain
  BY <1>1 DEF RowType, RowOK
<1>3. Sound(c, age'[p], agent'[p], drained'[p], binance'[p], flakes')
  BY <1>1, SoundCopy DEF Wins
<1> HIDE DEF r, c, p
<1>4. Sound(r, age'[p], agent'[p], drained'[p], binance'[p], flakes')
  BY <1>2, <1>3 DEF Sound, p
<1> QED
  BY <1>2, <1>4 DEF Written, r, c, p

\* The second such reading ends the hire.
LEMMA GoneWrite ==
  ASSUME HireInv, WorldTypes', Calm, NEW t \in Workers, task[t].at = "status", task[t].row.st = "bound",
         NEW r, r = [task[t].row EXCEPT !.st = "ended", !.session = FALSE, !.why = "owner-signed-out"],
         Wins(t, r), binance'[task[t].p] = "live" => flakes' >= 2
  PROVE  Written(t, r)
<1> DEFINE p == task[t].p
           c == task[t].row
<1>1. t \in Tasks /\ c \in RowType /\ RowOK(c) /\ c.facts /\ c.hired
  BY AtWork, Passed DEF RowOK
<1>2. /\ r \in RowType /\ r.st = "ended" /\ r.facts = c.facts /\ r.hired = c.hired /\ r.u = c.u
      /\ r.why = "owner-signed-out" /\ r.sell = c.sell /\ r.drain = c.drain /\ RowOK(r)
  BY <1>1 DEF RowType, States, RowOK, Terminal, Active
<1>3. Sound(c, age'[p], agent'[p], drained'[p], binance'[p], flakes')
  BY <1>1, SoundCopy DEF Wins
<1> HIDE DEF c, p
<1>4. Sound(r, age'[p], agent'[p], drained'[p], binance'[p], flakes')
  BY <1>1, <1>2, <1>3 DEF Sound, p
<1> QED
  BY <1>1, <1>2, <1>4 DEF Written, c, p

\* What a reading changes, next to the row.
LEMMA ReadingCalm ==
  ASSUME HireInv, UNCHANGED <<age, binance, order, agent, drained, cancel, touches, crashes>>,
         aged' \in [Pairings -> SUBSET {"u", "logout"}], NEW t \in Tasks, Free(t) \/ UNCHANGED fence,
         flakes' \in Nat, flakes <= flakes'
  PROVE  WorldTypes' /\ Calm
<1>1. fence' \in [Wallets -> Tasks \cup {None, Gone}]
  BY FenceType
<1>2. cancel \subseteq Pairings
  BY DEF HireInv, Types, WorldTypes
<1> QED
  BY <1>1, <1>2, Quiet

LEMMA StatusKeeps ==
  ASSUME HireInv, NEW t \in Workers, Status(t)
  PROVE  HireInv'
<1> DEFINE p == task[t].p
           c == task[t].row
           seen(gone) == [c EXCEPT !.u = gone]
           over == [c EXCEPT !.st = "ended", !.session = FALSE, !.why = "owner-signed-out"]
           confirmation == c.u /\ "u" \in aged[p]
<1>1. task[t].at = "status" /\ UNCHANGED <<age, binance, order, agent, drained, cancel, touches, crashes>>
  BY DEF Status, world
<1>2. t \in Tasks /\ p \in Live /\ p \in Pairings /\ c \in RowType /\ c.facts /\ RowTrue(p)
  BY <1>1, AtWork, Passed
<1>3. aged \in [Pairings -> SUBSET {"u", "logout"}] /\ flakes \in Nat
  BY DEF HireInv, Types, WorldTypes
<1>4. \A x : Fits("rest", x) /\ Fits("left", x)
  BY DEF Fits
<1>5. CASE ~(c.st = "bound" /\ Holds(t))
  <2>1. Go(t, "rest") /\ Free(t) /\ UNCHANGED <<row, aged, flakes>>
    BY <1>5 DEF Status
  <2>2. WorldTypes' /\ Calm
    BY <1>1, <1>2, <1>3, <2>1, ReadingCalm
  <2> QED
    BY <1>1, <1>2, <1>4, <2>1, <2>2, PlainKeeps, InPlain
<1>6. ASSUME NEW s, Reading(p, s), c.st = "bound", s = "U" /\ confirmation,
             Patch(t, over, "left", "left"), UNCHANGED <<aged, fence>>
      PROVE  HireInv'
  <2>1. WorldTypes' /\ Calm
    BY <1>1, <1>2, <1>3, <1>6, ReadingCost, ReadingCalm
  <2> DEFINE r == over
  <2>2. ASSUME Wins(t, r) PROVE Written(t, r)
    <3>1. row[p] = c
      BY <1>1, <1>2, <2>2, FreshRow DEF Wins
    <3>2. binance'[p] = "live" => flakes' >= 2
      BY <1>1, <1>2, <1>3, <1>6, <3>1, ReadingCost DEF RowTrue, Sound
    <3> QED
      BY <1>1, <1>6, <2>1, <2>2, <3>2, GoneWrite
  <2>3. Patch(t, r, "left", "left")
    BY <1>6
  <2> HIDE DEF r
  <2> QED
    BY <1>1, <1>2, <1>4, <2>1, <2>2, <2>3, PatchKeeps, InPlain
<1>7. ASSUME NEW s, Reading(p, s), c.st = "bound", Patch(t, seen(s = "U"), "rest", "rest"), Free(t),
             aged' \in [Pairings -> SUBSET {"u", "logout"}]
      PROVE  HireInv'
  <2>1. WorldTypes' /\ Calm
    BY <1>1, <1>2, <1>3, <1>7, ReadingCost, ReadingCalm
  <2>2. PICK gone \in BOOLEAN : gone = (s = "U")
    OBVIOUS
  <2> DEFINE r == seen(gone)
  <2>3. ASSUME Wins(t, r) PROVE Written(t, r)
    <3>1. gone /\ binance'[p] = "live" => flakes' >= 1
      <4>1. s = "U" /\ binance[p] = "live" => flakes' = flakes + 1
        BY <1>2, <1>7, ReadingCost
      <4>2. binance' = binance
        BY <1>1
      <4>3. gone => s = "U"
        BY <2>2, Zenon
      <4> HIDE DEF r
      <4>4. flakes \in Nat
        BY <1>3
      <4>5. ASSUME gone, binance'[p] = "live" PROVE flakes' >= 1
        <5>1. flakes' = flakes + 1
          BY <4>1, <4>2, <4>3, <4>5, Zenon
        <5> QED
          BY <4>4, <5>1
      <4> QED
        BY <4>5, Zenon
    <3> QED
      BY <1>1, <1>2, <2>1, <2>3, <3>1, SeenWrite
  <2>4. Patch(t, r, "rest", "rest")
    BY <1>7, <2>2
  <2> HIDE DEF r
  <2> QED
    BY <1>1, <1>2, <1>4, <2>1, <2>3, <2>4, PatchKeeps, InPlain
<1>8. ASSUME c.st = "bound" /\ Holds(t) PROVE HireInv'
  <2>1. PICK s \in {"U", "connected", "unreachable"} :
          /\ Reading(p, s)
          /\ IF s = "U" /\ confirmation
             THEN Patch(t, over, "left", "left") /\ UNCHANGED <<aged, fence>>
             ELSE LET next == seen(s = "U") IN
                  /\ Patch(t, next, "rest", "rest") /\ Free(t)
                  /\ aged' = IF Wins(t, next) /\ ~(c.u /\ next.u) THEN [aged EXCEPT ![p] = @ \ {"u"}] ELSE aged
    BY <1>8 DEF Status
  <2>2. CASE s = "U" /\ confirmation
    BY <1>6, <1>8, <2>1, <2>2
  <2>3. CASE ~(s = "U" /\ confirmation)
    <3>1. Patch(t, seen(s = "U"), "rest", "rest") /\ Free(t)
      BY <2>1, <2>3
    <3>2. aged' = [aged EXCEPT ![p] = @ \ {"u"}] \/ aged' = aged
      BY <2>1, <2>3
    <3>3. aged' \in [Pairings -> SUBSET {"u", "logout"}]
      BY <1>2, <1>3, <3>2
    <3> QED
      BY <1>7, <1>8, <2>1, <3>1, <3>3
  <2> QED
    BY <2>2, <2>3
<1> QED
  BY <1>5, <1>8

LEMMA RestKeeps ==
  ASSUME HireInv, NEW t \in Tasks, Rest(t)
  PROVE  HireInv'
<1>1. task[t].at = "rest" /\ UNCHANGED row
  BY DEF Rest
<1>2. WorldTypes' /\ Calm
  BY Undisturbed DEF Rest
<1>3. \A x : Fits("turn", x) /\ Fits("halt", x)
  BY DEF Fits
<1> QED
  BY <1>1, <1>2, <1>3, PlainKeeps, InPlain DEF Rest

LEMMA StopLossKeeps ==
  ASSUME HireInv, NEW t \in Workers, StopLoss(t)
  PROVE  HireInv'
<1> DEFINE p == task[t].p
           c == task[t].row
           r == [c EXCEPT !.st = "ending", !.why = "stop-loss"]
<1>1. task[t].at = "halt"
  BY DEF StopLoss
<1>2. t \in Tasks /\ p \in Live /\ c \in RowType /\ RowOK(c) /\ c.facts /\ c.hired /\ row[p].facts
  BY <1>1, AtWork, Passed DEF RowOK
<1>3. WorldTypes' /\ Calm
  BY <1>2, Undisturbed DEF StopLoss
<1>4. \A x : Fits("turn", x)
  BY DEF Fits
<1>5. CASE ~Wins(t, r)
  BY <1>1, <1>2, <1>3, <1>4, <1>5, ReadKeeps, InPlain DEF StopLoss
<1>6. CASE Wins(t, r)
  <2>1. /\ r \in RowType /\ r.st = "ending" /\ r.facts = c.facts /\ r.hired = c.hired /\ r.u = c.u
        /\ r.why = "stop-loss" /\ r.sell = c.sell /\ r.drain = c.drain /\ r.w = c.w /\ r.session = c.session
    BY <1>2 DEF RowType, States
  <2>2. c.st \in Active
    BY <1>2, <1>6, <2>1 DEF Wins, Legal, Transitions, RowOK, Active
  <2>3. RowOK(r)
    BY <1>2, <2>1, <2>2 DEF RowOK, Active, Terminal
  <2>4. Sound(c, age'[p], agent'[p], drained'[p], binance'[p], flakes')
    BY <1>1, <1>2, <1>3, <1>6, SoundCopy DEF Wins
  <2>5. Patch(t, r, "turn", "turn")
    BY <1>6 DEF StopLoss, Patch
  <2> HIDE DEF r, c, p
  <2>6. Sound(r, age'[p], agent'[p], drained'[p], binance'[p], flakes')
    BY <2>1, <2>3, <2>4 DEF Sound
  <2>7. Written(t, r)
    BY <1>6, <2>1, <2>6 DEF Written, c, p
  <2> QED
    BY <1>1, <1>2, <1>3, <1>4, <2>5, <2>7, PatchKeeps, InPlain
<1> QED
  BY <1>5, <1>6

LEMMA TurnKeeps ==
  ASSUME HireInv, NEW t \in Tasks, Turn(t)
  PROVE  HireInv'
<1>1. task[t].at = "turn" /\ UNCHANGED row
  BY DEF Turn
<1>2. WorldTypes' /\ Calm
  BY Undisturbed DEF Turn
<1>3. \/ Go(t, "end") /\ task[t].row.st = "ending"
      \/ Go(t, "revoke")
      \/ Go(t, "idle")
  BY DEF Turn
<1> QED
  BY <1>1, <1>2, <1>3, PlainKeeps, InPlain DEF Fits

-----------------------------------------------------------------------------
(* Orders.                                                                 *)

\* What the orders of a hire change: only a bound hire's order is spawned.
LEMMA OrderCalm ==
  ASSUME HireInv, UNCHANGED <<age, binance, agent, drained, cancel, touches, crashes>>,
         order' \in [Pairings -> {"none", "listed", "spawned", "held"}],
         \A q \in Live : order'[q] = "spawned" => order[q] = "spawned" \/ row[q].st = "bound",
         aged' \in [Pairings -> SUBSET {"u", "logout"}], fence' \in [Wallets -> Tasks \cup {None, Gone}],
         flakes' \in Nat, flakes <= flakes'
  PROVE  WorldTypes' /\ Calm
<1>1. WorldTypes'
  BY DEF HireInv, Types, WorldTypes
<1>2. \A q \in Live : q \in Pairings /\ (age[q] <= 1 \/ row[q].hired) /\ age[q] \in 0..4
  BY DEF HireInv, RowsInv, RowTrue, Sound, Live, Types, WorldTypes
<1>3. \A q \in Live :
        /\ order'[q] = "spawned" => order[q] = "spawned" \/ row[q].st = "bound"
        /\ agent'[q] = "armed" => agent[q] = "armed" \/ row[q].facts
        /\ binance'[q] = "live" => binance[q] = "live" \/ ~row[q].hired
        /\ age[q] <= age'[q] \/ row[q].st \notin Leaving
        /\ age'[q] <= 1 \/ row[q].hired
        /\ age'[q] < 4 \/ age'[q] = age[q] \/ binance'[q] # "live"
  BY <1>2
<1>4. age' = age /\ agent' = agent /\ drained' = drained
  OBVIOUS
<1> QED
  BY <1>1, <1>3, <1>4 DEF Calm

LEMMA QuoteKeeps ==
  ASSUME HireInv, NEW t \in Traders, NEW p \in Pairings, Quote(t, p)
  PROVE  HireInv'
<1>1. t \in Tasks /\ p \in Live /\ UNCHANGED row /\ row[p].st = "bound" /\ Read(t, p, "settings")
      /\ UNCHANGED <<age, binance, order, aged, agent, drained, cancel, flakes, touches, crashes>>
  BY DEF Quote, Tasks, world, bounds
<1>2. row[p].facts /\ Fits("settings", row[p])
  BY <1>1 DEF HireInv, RowsInv, RowTrue, Sound, RowOK, Fits
<1>3. WorldTypes' /\ Calm
  <2>1. fence' \in [Wallets -> Tasks \cup {None, Gone}]
    BY <1>1 DEF Quote, HireInv, Types, WorldTypes
  <2>2. WorldTypes /\ flakes \in Nat /\ flakes <= flakes
    BY DEF HireInv, Types, WorldTypes
  <2> QED
    BY <1>1, <2>1, <2>2, Quiet DEF WorldTypes
<1> QED
  BY <1>1, <1>2, <1>3, ReadKeeps, InPlain

LEMMA SettingsKeeps ==
  ASSUME HireInv, NEW t \in Traders, Settings(t)
  PROVE  HireInv'
<1> DEFINE p == task[t].p
           c == task[t].row
           next == [c EXCEPT !.u = TRUE]
<1>1. task[t].at = "settings" /\ UNCHANGED <<age, binance, agent, drained, cancel, touches, crashes>>
  BY DEF Settings
<1>2. t \in Tasks /\ p \in Live /\ p \in Pairings
  BY <1>1, AtWork, Passed
<1>3. /\ aged \in [Pairings -> SUBSET {"u", "logout"}] /\ flakes \in Nat
      /\ fence \in [Wallets -> Tasks \cup {None, Gone}] /\ order \in [Pairings -> {"none", "listed", "spawned", "held"}]
  BY DEF HireInv, Types, WorldTypes
<1>4. PICK s \in {"U", "connected", "unreachable"} :
        /\ Reading(p, s)
        /\ IF s = "connected" /\ Holds(t)
           THEN order' = [order EXCEPT ![p] = "listed"] /\ Go(t, "claim") /\ UNCHANGED <<row, aged, fence>>
           ELSE /\ UNCHANGED order /\ Free(t)
                /\ IF s = "U" THEN Last(t, next) ELSE Done(t) /\ UNCHANGED row
                /\ aged' = IF s = "U" /\ ~c.u /\ Wins(t, next) THEN [aged EXCEPT ![p] = @ \ {"u"}] ELSE aged
  BY DEF Settings
<1>5. flakes' \in Nat /\ flakes <= flakes' /\ (s = "U" /\ binance[p] = "live" => flakes' = flakes + 1)
  BY <1>2, <1>4, ReadingCost
<1>6. CASE s = "connected" /\ Holds(t)
  <2>1. order' = [order EXCEPT ![p] = "listed"] /\ Go(t, "claim") /\ UNCHANGED <<row, aged, fence>>
    BY <1>4, <1>6
  <2>2. /\ order' \in [Pairings -> {"none", "listed", "spawned", "held"}]
        /\ \A q \in Live : order'[q] = "spawned" => order[q] = "spawned"
    BY <1>2, <1>3, <2>1 DEF Live
  <2>3. WorldTypes' /\ Calm
    BY <1>1, <1>3, <1>5, <2>1, <2>2, OrderCalm
  <2>4. Fits("claim", c)
    BY DEF Fits
  <2> QED
    BY <1>1, <1>2, <2>1, <2>3, <2>4, PlainKeeps, InPlain
<1>7. CASE ~(s = "connected" /\ Holds(t))
  <2>1. /\ UNCHANGED order /\ Free(t) /\ IF s = "U" THEN Last(t, next) ELSE Done(t) /\ UNCHANGED row
        /\ aged' = [aged EXCEPT ![p] = @ \ {"u"}] \/ aged' = aged
    BY <1>4, <1>7
  <2>2. aged' \in [Pairings -> SUBSET {"u", "logout"}]
    BY <1>2, <1>3, <2>1
  <2>3. WorldTypes' /\ Calm
    BY <1>1, <1>2, <1>5, <2>1, <2>2, ReadingCalm
  <2>4. CASE s = "U"
    <3> DEFINE r == [c EXCEPT !.u = TRUE]
    <3>1. ASSUME Wins(t, r) PROVE Written(t, r)
      <4>1. binance'[p] = "live" => flakes' >= 1
        BY <1>1, <1>3, <1>5, <2>4
      <4> QED
        BY <1>1, <2>3, <3>1, <4>1, SeenWrite
    <3>2. Last(t, r)
      BY <2>1, <2>4
    <3> HIDE DEF r
    <3> QED
      BY <1>1, <1>2, <2>3, <3>1, <3>2, LastKeeps
  <2>5. CASE s # "U"
    BY <1>1, <1>2, <2>1, <2>3, <2>5, PlainKeeps, InPlain DEF Done
  <2> QED
    BY <2>4, <2>5
<1> QED
  BY <1>6, <1>7

LEMMA ClaimKeeps ==
  ASSUME HireInv, NEW t \in Tasks, Claim(t)
  PROVE  HireInv'
<1> DEFINE p == task[t].p
<1>1. task[t].at = "claim" /\ UNCHANGED <<row, age, binance, aged, agent, drained, cancel, flakes, touches, crashes>>
  BY DEF Claim, bounds
<1>2. p \in Live /\ p \in Pairings
  BY <1>1, AtWork
<1>3. /\ aged \in [Pairings -> SUBSET {"u", "logout"}] /\ flakes \in Nat /\ flakes <= flakes
      /\ order \in [Pairings -> {"none", "listed", "spawned", "held"}]
  BY DEF HireInv, Types, WorldTypes
<1>4. PICK o \in {"spawned", "none"}, pc \in {"child", "idle"} :
        /\ order' = [order EXCEPT ![p] = o] /\ (o = "spawned" => row[p].st = "bound")
        /\ Go(t, pc) /\ (Free(t) \/ UNCHANGED fence)
  BY DEF Claim, Done
<1>5. WorldTypes' /\ Calm
  <2>1. fence' \in [Wallets -> Tasks \cup {None, Gone}]
    BY <1>4, FenceType
  <2>2. /\ order' \in [Pairings -> {"none", "listed", "spawned", "held"}]
        /\ \A q \in Live : order'[q] = "spawned" => order[q] = "spawned" \/ row[q].st = "bound"
    BY <1>2, <1>3, <1>4 DEF Live
  <2> QED
    BY <1>1, <1>3, <2>1, <2>2, OrderCalm
<1>6. Fits("child", task[t].row)
  BY DEF Fits
<1> QED
  BY <1>1, <1>4, <1>5, <1>6, PlainKeeps, InPlain

LEMMA ChildEndsKeeps ==
  ASSUME HireInv, NEW t \in Tasks, ChildEnds(t)
  PROVE  HireInv'
<1> DEFINE p == task[t].p
<1>1. task[t].at = "child" /\ UNCHANGED <<row, age, binance, aged, agent, drained, cancel, flakes, touches, crashes>>
      /\ Done(t) /\ Free(t) /\ (order' = [order EXCEPT ![p] = "none"] \/ order' = order)
  BY DEF ChildEnds, bounds
<1>2. p \in Pairings
  BY <1>1, AtWork
<1>3. WorldTypes' /\ Calm
  <2>1. fence' \in [Wallets -> Tasks \cup {None, Gone}]
    BY <1>1, FenceType
  <2>2. /\ aged \in [Pairings -> SUBSET {"u", "logout"}] /\ flakes \in Nat /\ flakes <= flakes
        /\ order' \in [Pairings -> {"none", "listed", "spawned", "held"}]
        /\ \A q \in Live : order'[q] = "spawned" => order[q] = "spawned"
    BY <1>1, <1>2 DEF Live, HireInv, Types, WorldTypes
  <2> QED
    BY <1>1, <2>1, <2>2, OrderCalm
<1> QED
  BY <1>1, <1>3, PlainKeeps, InPlain DEF Done

LEMMA ResolveKeeps ==
  ASSUME HireInv, NEW p \in Pairings, Resolve(p)
  PROVE  HireInv'
<1>1. UNCHANGED <<row, task, age, binance, aged, agent, drained, fence, cancel, flakes, touches, crashes>>
      /\ (order' = [order EXCEPT ![p] = "none"] \/ order' = [order EXCEPT ![p] = "held"])
  BY DEF Resolve, bounds
<1>2. WorldTypes' /\ Calm
  <2>1. /\ aged \in [Pairings -> SUBSET {"u", "logout"}] /\ flakes \in Nat /\ flakes <= flakes
        /\ fence \in [Wallets -> Tasks \cup {None, Gone}]
        /\ order' \in [Pairings -> {"none", "listed", "spawned", "held"}]
        /\ \A q \in Live : order'[q] = "spawned" => order[q] = "spawned"
    BY <1>1 DEF Live, HireInv, Types, WorldTypes
  <2> QED
    BY <1>1, <2>1, OrderCalm
<1> QED
  BY <1>1, <1>2, WorldKeeps
-----------------------------------------------------------------------------
(* Time, the owner, faults.                                                *)

LEMMA TickKeeps ==
  ASSUME HireInv, NEW p \in Pairings, Tick(p)
  PROVE  HireInv'
<1>1. /\ p \in Live /\ age[p] < (IF row[p].hired THEN 4 ELSE 1) /\ age' = [age EXCEPT ![p] = @ + 1]
      /\ IF row[p].hired /\ age[p] = 3 THEN SignOut(p) ELSE UNCHANGED binance
      /\ UNCHANGED <<row, order, aged, agent, drained, fence, task, cancel, flakes, touches, crashes>>
  BY DEF Tick, bounds
<1>2. /\ age \in [Pairings -> 0..4] /\ age[p] \in 0..4 /\ flakes \in Nat
      /\ binance \in [Pairings -> {"none", "live", "out"}]
  BY DEF HireInv, Types, WorldTypes
<1>3. age[p] + 1 \in 0..4 /\ (row[p].hired \/ age[p] + 1 <= 1)
  BY <1>1, <1>2
<1>4. age' \in [Pairings -> 0..4] /\ age'[p] = age[p] + 1 /\ \A q \in Pairings \ {p} : age'[q] = age[q]
  BY <1>1, <1>2, <1>3
<1>5. /\ binance' \in [Pairings -> {"none", "live", "out"}]
      /\ \A q \in Pairings : binance'[q] = "live" => binance[q] = "live"
      /\ age[p] = 3 => binance'[p] # "live"
  BY <1>1, <1>2 DEF SignOut
<1>6. WorldTypes'
  BY <1>1, <1>4, <1>5 DEF HireInv, Types, WorldTypes
<1>7. Calm
  <2>1. \A q \in Live : q \in Pairings /\ (age[q] <= 1 \/ row[q].hired) /\ age[q] \in 0..4
    BY DEF HireInv, RowsInv, RowTrue, Sound, Live, Types, WorldTypes
  <2>2. \A q \in Live :
          /\ order'[q] = "spawned" => order[q] = "spawned" \/ row[q].st = "bound"
          /\ agent'[q] = "armed" => agent[q] = "armed" \/ row[q].facts
          /\ binance'[q] = "live" => binance[q] = "live" \/ ~row[q].hired
          /\ age[q] <= age'[q] \/ row[q].st \notin Leaving
          /\ age'[q] <= 1 \/ row[q].hired
          /\ age'[q] < 4 \/ age'[q] = age[q] \/ binance'[q] # "live"
    <3> SUFFICES ASSUME NEW q \in Live
                 PROVE  /\ binance'[q] = "live" => binance[q] = "live"
                        /\ age[q] <= age'[q]
                        /\ age'[q] <= 1 \/ row[q].hired
                        /\ age'[q] < 4 \/ age'[q] = age[q] \/ binance'[q] # "live"
      BY <1>1
    <3>1. CASE q = p
      BY <1>2, <1>3, <1>4, <1>5, <2>1, <3>1
    <3>2. CASE q # p
      BY <1>4, <1>5, <2>1, <3>2
    <3> QED
      BY <3>1, <3>2
  <2> QED
    BY <1>1, <1>2, <1>4, <2>2 DEF Calm
<1> QED
  BY <1>1, <1>6, <1>7, WorldKeeps

LEMMA MinuteKeeps ==
  ASSUME HireInv, NEW p \in Pairings, Minute(p)
  PROVE  HireInv'
<1>1. UNCHANGED <<row, task, age, binance, order, agent, drained, fence, cancel, flakes, touches, crashes>>
  BY DEF Minute, world, bounds
<1>2. /\ aged' \in [Pairings -> SUBSET {"u", "logout"}] /\ flakes \in Nat /\ flakes <= flakes
      /\ fence \in [Wallets -> Tasks \cup {None, Gone}] /\ cancel \subseteq Pairings
  BY DEF Minute, HireInv, Types, WorldTypes
<1>3. WorldTypes' /\ Calm
  BY <1>1, <1>2, Quiet
<1> QED
  BY <1>1, <1>3, WorldKeeps

LEMMA OwnerSignsOutKeeps ==
  ASSUME HireInv, NEW p \in Pairings, OwnerSignsOut(p)
  PROVE  HireInv'
<1>1. UNCHANGED <<row, task, age, order, aged, agent, drained, fence, cancel, flakes, touches, crashes>> /\ SignOut(p)
  BY DEF OwnerSignsOut, bounds
<1>2. /\ aged \in [Pairings -> SUBSET {"u", "logout"}] /\ flakes \in Nat /\ flakes <= flakes
      /\ fence \in [Wallets -> Tasks \cup {None, Gone}] /\ cancel \subseteq Pairings
  BY DEF HireInv, Types, WorldTypes
<1>3. WorldTypes' /\ Calm
  BY <1>1, <1>2, Quiet
<1> QED
  BY <1>1, <1>3, WorldKeeps

LEMMA LapseKeeps ==
  ASSUME HireInv, NEW w \in Wallets, Lapse(w)
  PROVE  HireInv'
<1>1. UNCHANGED <<row, task, age, binance, order, aged, agent, drained, cancel, flakes, touches, crashes>>
  BY DEF Lapse, world, bounds
<1>2. /\ aged \in [Pairings -> SUBSET {"u", "logout"}] /\ flakes \in Nat /\ flakes <= flakes
      /\ fence' \in [Wallets -> Tasks \cup {None, Gone}] /\ cancel \subseteq Pairings
  BY DEF Lapse, HireInv, Types, WorldTypes
<1>3. WorldTypes' /\ Calm
  BY <1>1, <1>2, Quiet
<1> QED
  BY <1>1, <1>3, WorldKeeps

\* None, the task that is nowhere.
LEMMA Nobody == None \notin Tasks /\ None \notin Pairings /\ Gone \notin Tasks /\ Pairings \subseteq Tasks
BY DEF Tasks, Api

LEMMA TouchKeeps ==
  ASSUME HireInv, NEW p \in Pairings, Touch(p)
  PROVE  HireInv'
<1> DEFINE stale == [s \in Tasks |-> IF task[s].p = p THEN [task[s] EXCEPT !.fresh = FALSE] ELSE task[s]]
<1>1. /\ UNCHANGED <<row, age, binance, order, aged, agent, drained, fence, cancel, flakes, crashes>>
      /\ touches' = touches + 1 /\ task' = stale
  BY DEF Touch, world
<1>2. WorldTypes'
  BY <1>1 DEF HireInv, Types, WorldTypes
<1>3. Calm
  BY <1>1, StillIsCalm
<1>4. task \in [Tasks -> TaskType]
  BY DEF HireInv, Types
<1>5. task' \in [Tasks -> TaskType]
  BY <1>1, <1>4 DEF TaskType
<1>6. Types'
  BY <1>1, <1>2, <1>5 DEF HireInv, Types
<1>7. OneHirePerWallet' /\ RowsInv' /\ NoRowsInv' /\ RowsGrow(None)
  BY <1>1, <1>2, <1>3, RowsStay
<1>8. ASSUME NEW s \in Tasks
      PROVE  task'[s] \in {Idle, Off} \/ (task'[s].at \notin {"idle", "off"} /\ TaskTrue(s)')
  <2>1. CASE task[s] \in {Idle, Off}
    <3>1. task[s].p = None
      BY <2>1 DEF Idle, Off
    <3> QED
      BY <1>1, <2>1, <3>1, Nobody
  <2>2. CASE task[s].at \notin {"idle", "off"}
    <3>1. task'[s] = task[s] \/ task'[s] = [task[s] EXCEPT !.fresh = FALSE]
      BY <1>1
    <3>2. s \in Tasks \ {None} /\ (task'[s].fresh => row'[task[s].p] = row[task[s].p])
      BY <1>1, Nobody
    <3> QED
      BY <1>2, <1>3, <1>7, <2>2, <3>1, <3>2, OtherTask
  <2> QED
    BY <2>1, <2>2 DEF HireInv, TasksInv
<1> HIDE DEF stale
<1> QED
  BY <1>6, <1>7, <1>8 DEF HireInv, TasksInv

\* A process dies with its tasks, and leaves its fences.
LEMMA DeathKeeps ==
  ASSUME HireInv, NEW S \in SUBSET Tasks, Dies(S), OneHirePerWallet', RowsInv', NoRowsInv', RowsGrow(None), Calm,
         UNCHANGED <<world, aged, agent, drained, flakes, touches>>, row' \in [Pairings -> RowType \cup {None}],
         cancel' \subseteq Pairings, \A s \in Tasks \ S : TaskTrue(s) => row'[task[s].p] = row[task[s].p]
  PROVE  HireInv'
<1>1. /\ UNCHANGED <<age, binance, order, aged, agent, drained, flakes, touches>> /\ crashes' = crashes + 1
      /\ task' = [t \in Tasks |-> IF t \in S /\ task[t] # Off THEN Idle ELSE task[t]]
      /\ fence' = [w \in Wallets |-> IF fence[w] \in S THEN Gone ELSE fence[w]]
  BY DEF Dies, world
<1>2. WorldTypes'
  BY <1>1 DEF HireInv, Types, WorldTypes
<1>3. task' \in [Tasks -> TaskType]
  BY <1>1, IdleType DEF HireInv, Types
<1>4. ASSUME NEW s \in Tasks
      PROVE  task'[s] \in {Idle, Off} \/ (task'[s].at \notin {"idle", "off"} /\ TaskTrue(s)')
  <2>1. CASE s \in S \/ task[s] \in {Idle, Off}
    BY <1>1, <2>1
  <2>2. CASE s \notin S /\ task[s].at \notin {"idle", "off"}
    <3>1. task'[s] = task[s] /\ s \in Tasks \ {None}
      BY <1>1, <2>2, Nobody
    <3>2. row'[task[s].p] = row[task[s].p]
      BY <2>2, AtWork
    <3> QED
      BY <1>2, <2>2, <3>1, <3>2, OtherTask
  <2> QED
    BY <2>1, <2>2 DEF HireInv, TasksInv
<1> QED
  BY <1>2, <1>3, <1>4 DEF HireInv, Types, TasksInv

LEMMA WorkerDiesKeeps ==
  ASSUME HireInv, NEW t \in Tasks, WorkerDies(t)
  PROVE  HireInv'
<1>1. Dies({t}) /\ UNCHANGED <<row, world, aged, agent, drained, cancel, flakes, touches>>
  BY DEF WorkerDies
<1>2. UNCHANGED <<age, binance, order>>
  BY <1>1 DEF world
<1>3. Calm
  BY <1>1, <1>2, StillIsCalm
<1>4. /\ row \in [Pairings -> RowType \cup {None}] /\ cancel \subseteq Pairings /\ WorldTypes
  BY DEF HireInv, Types, WorldTypes
<1>5. WorldTypes'
  BY <1>1, <1>2, <1>4 DEF WorldTypes, Dies
<1>6. OneHirePerWallet' /\ RowsInv' /\ NoRowsInv' /\ RowsGrow(None)
  BY <1>1, <1>3, <1>5, RowsStay
<1> QED
  BY <1>1, <1>3, <1>4, <1>6, DeathKeeps

\* The pairings that waited for their verifier expire with it.
LEMMA ApiRestartsKeeps ==
  ASSUME HireInv, ApiRestarts
  PROVE  HireInv'
<1> DEFINE waits(p) == p \in Live /\ row[p].st = "waiting"
           rows == [p \in Pairings |-> IF waits(p) THEN [row[p] EXCEPT !.st = "expired"] ELSE row[p]]
<1>1. Dies(Api) /\ row' = rows /\ cancel' = {} /\ UNCHANGED <<world, aged, agent, drained, flakes, touches>>
  BY DEF ApiRestarts
<1>2. UNCHANGED <<age, binance, order>>
  BY <1>1 DEF world
<1>3. Calm
  BY <1>1, <1>2, StillIsCalm
<1>4. row \in [Pairings -> RowType \cup {None}] /\ WorldTypes /\ Live \subseteq Pairings
  BY DEF HireInv, Types, Live
<1>5. WorldTypes'
  BY <1>1, <1>2, <1>4 DEF WorldTypes, Dies
<1>6. /\ \A q \in Pairings : ~waits(q) => row'[q] = row[q]
      /\ \A q \in Pairings : waits(q) => row'[q] = [row[q] EXCEPT !.st = "expired"]
  BY <1>1
<1>7. ASSUME NEW q \in Pairings, waits(q)
      PROVE  /\ row[q] \in RowType /\ row'[q] \in RowType /\ row'[q].st = "expired" /\ row'[q].w = row[q].w
             /\ row'[q].hired = row[q].hired /\ row'[q].facts = row[q].facts /\ row'[q].drain = row[q].drain
             /\ row'[q].u = row[q].u /\ row'[q].why = row[q].why
  <2>1. row[q] \in RowType /\ row'[q] = [row[q] EXCEPT !.st = "expired"] /\ "expired" \in States
    BY <1>4, <1>6, <1>7 DEF Live, States
  <2> QED
    BY <2>1 DEF RowType
<1>8. row' \in [Pairings -> RowType \cup {None}]
  BY <1>1, <1>4, <1>6, <1>7
<1>9. Live' = Live
  BY <1>4, <1>6, <1>7 DEF Live
<1>10. ASSUME NEW q \in Live, waits(q)
       PROVE  ~row[q].hired /\ ~row[q].facts /\ RowTrue(q) /\ q \in Pairings
  BY <1>4, <1>10 DEF HireInv, RowsInv, RowTrue, Sound, RowOK, Active
<1>11. RowsInv'
  <2>1. SUFFICES ASSUME NEW q \in Live PROVE RowTrue(q)'
    BY <1>9 DEF RowsInv
  <2>2. CASE waits(q)
    <3>1. Sound(row[q], age'[q], agent'[q], drained'[q], binance'[q], flakes')
      BY <1>3, <1>5, SoundStays
    <3>2. Sound(row'[q], age'[q], agent'[q], drained'[q], binance'[q], flakes')
      BY <1>7, <1>10, <2>2, <3>1 DEF Sound, RowOK, Active, Terminal, Leaving
    <3> QED
      BY <3>2 DEF RowTrue
  <2>3. CASE ~waits(q)
    BY <1>3, <1>4, <1>5, <1>6, <2>3, SameRow
  <2> QED
    BY <2>2, <2>3
<1>12. OneHirePerWallet'
  <2>1. \A q \in Live : row'[q].st \in Active => row'[q] = row[q]
    BY <1>4, <1>6, <1>7 DEF Active
  <2> QED
    BY <1>9, <2>1 DEF HireInv, OneHirePerWallet
<1>13. NoRowsInv'
  BY <1>1, <1>2, <1>9 DEF HireInv, NoRowsInv
<1>14. RowsGrow(None)
  <2>1. SUFFICES ASSUME NEW q \in Live
                 PROVE  /\ row'[q] # None /\ Follows(row[q], row'[q])
                        /\ task[q].at \in Verifying => row'[q].st \in Unpaired /\ ~row'[q].hired
    BY DEF RowsGrow
  <2>2. CASE waits(q)
    <3>1. row'[q] # None /\ Follows(row[q], row'[q])
      BY <1>4, <1>7, <1>10, <2>2 DEF Follows, Over, Leaving
    <3> QED
      BY <1>4, <1>7, <1>10, <2>2, <3>1 DEF Unpaired
  <2>3. CASE ~waits(q)
    <3>1. row'[q] = row[q] /\ q \in Tasks
      BY <1>4, <1>6, <2>3, Nobody
    <3>2. task[q].at \in Verifying => TaskTrue(q)
      BY <3>1, AtWork DEF Verifying
    <3> QED
      BY <3>1, <3>2 DEF Follows, TaskTrue, VerifierOf, Live
  <2> QED
    BY <2>2, <2>3
<1>15. ASSUME NEW s \in Tasks \ Api, TaskTrue(s) PROVE row'[task[s].p] = row[task[s].p]
  <2>1. task[s].p \in Live /\ row[task[s].p].facts
    BY <1>15 DEF TaskTrue, Knows, Follows
  <2> QED
    BY <1>4, <1>6, <1>10, <2>1
<1>16. Api \in SUBSET Tasks /\ cancel' \subseteq Pairings
  BY <1>1 DEF Tasks
<1> HIDE DEF rows, waits
<1> QED
  BY <1>1, <1>3, <1>8, <1>11, <1>12, <1>13, <1>14, <1>15, <1>16, DeathKeeps

-----------------------------------------------------------------------------
(* Every step.                                                             *)

LEMMA VerifyKeeps ==
  ASSUME HireInv, NEW p \in Pairings, Verify(p)
  PROVE  HireInv'
BY SignInKeeps, ScanKeeps, AdmitKeeps, RereadKeeps, StoreVerifiedKeeps, UndoKeeps, VerifyFailedKeeps
   DEF Verify

LEMMA LeaveKeeps ==
  ASSUME HireInv, NEW t \in Tasks, Leave(t)
  PROVE  HireInv'
BY EndingKeeps, LeaveFenceKeeps, LogOutKeeps, RecordKeeps, VerifyOutKeeps, RevokeEndedKeeps DEF
   Leave

LEMMA ServeKeeps ==
  ASSUME HireInv, NEW t \in Api, Serve(t)
  PROVE  HireInv'
<1>1. t \in Tasks
  BY DEF Tasks, Api
<1> QED
  BY <1>1, CodeKeeps, StopKeeps, AwaitKeeps, CloseKeeps, FinalizeKeeps, AcceptHireKeeps,
     ResumeHireKeeps, GateKeeps, GatedKeeps, RefuseKeeps, CreateAgentKeeps, StagedKeeps, BindKeeps,
     ThrownKeeps, CleanKeeps, CleanFenceKeeps, CleanSignOutKeeps, CleanedKeeps, LeaveKeeps DEF Serve

LEMMA WorkKeeps ==
  ASSUME HireInv, NEW t \in Workers, Work(t)
  PROVE  HireInv'
<1>1. t \in Tasks
  BY DEF Tasks, Api
<1> QED
  BY <1>1, DrainKeeps, ExitsKeeps, MarkKeeps, TermEndKeeps, RevokeLeftKeeps, ProbeKeeps,
     StatusKeeps, RestKeeps, StopLossKeeps, TurnKeeps, LeaveKeeps DEF Work

LEMMA TradeKeeps ==
  ASSUME HireInv, NEW t \in Traders, Trade(t)
  PROVE  HireInv'
<1>1. t \in Tasks
  BY DEF Tasks, Api
<1> QED
  BY <1>1, SettingsKeeps, ClaimKeeps, ChildEndsKeeps DEF Trade

LEMMA HireInit == Init => HireInv
<1> SUFFICES ASSUME Init PROVE HireInv
  OBVIOUS
<1>1. /\ row = [p \in Pairings |-> None] /\ task = [t \in Tasks |-> Idle] /\ age = [p \in Pairings |-> 0]
      /\ agent = [p \in Pairings |-> None]
  BY DEF Init
<1>2. Live = {}
  BY <1>1 DEF Live
<1>3. WorldTypes
  BY DEF Init, WorldTypes
<1>4. Types
  BY <1>1, <1>3, IdleType DEF Types
<1>5. OneHirePerWallet /\ RowsInv
  BY <1>2 DEF OneHirePerWallet, RowsInv
<1>6. NoRowsInv
  BY <1>1 DEF NoRowsInv
<1>7. TasksInv
  BY <1>1 DEF TasksInv
<1> QED
  BY <1>4, <1>5, <1>6, <1>7 DEF HireInv

LEMMA HireStep == HireInv /\ [Next]_vars => HireInv'
<1> SUFFICES ASSUME HireInv, [Next]_vars PROVE HireInv'
  OBVIOUS
<1>1. Routes \subseteq Api /\ Sweepers \subseteq Api /\ Workers \subseteq Tasks /\ Traders \subseteq Tasks
  BY DEF Tasks, Api
<1>2. ASSUME NEW p \in Pairings,
             Create(p) \/ Verify(p) \/ Resolve(p) \/ Tick(p) \/ Minute(p) \/ OwnerSignsOut(p) \/ Touch(p)
      PROVE  HireInv'
  BY <1>2, CreateKeeps, VerifyKeeps, ResolveKeeps, TickKeeps, MinuteKeeps, OwnerSignsOutKeeps, TouchKeeps
<1>3. ASSUME NEW t \in Routes, Serve(t) \/ \E p \in Pairings : Call(t, p) PROVE HireInv'
  BY <1>1, <1>3, ServeKeeps, CallKeeps
<1>4. ASSUME NEW t \in Sweepers, Serve(t) \/ \E p \in Pairings : Sweep(t, p) PROVE HireInv'
  BY <1>1, <1>4, ServeKeeps, SweepKeeps
<1>5. ASSUME NEW t \in Workers, Work(t) \/ WorkerDies(t) \/ \E p \in Pairings : Cycle(t, p) PROVE HireInv'
  BY <1>1, <1>5, WorkKeeps, WorkerDiesKeeps, CycleKeeps
<1>6. ASSUME NEW t \in Traders, Trade(t) \/ WorkerDies(t) \/ \E p \in Pairings : Quote(t, p) PROVE HireInv'
  BY <1>1, <1>6, TradeKeeps, WorkerDiesKeeps, QuoteKeeps
<1>7. CASE UNCHANGED vars
  <2>1. UNCHANGED <<row, age, aged, binance, agent, drained, order, fence, task, cancel, flakes, touches, crashes>>
    BY <1>7 DEF vars
  <2>2. WorldTypes /\ WorldTypes'
    BY <2>1 DEF HireInv, Types, WorldTypes
  <2>3. Calm
    BY <2>1, StillIsCalm
  <2> QED
    BY <2>1, <2>2, <2>3, WorldKeeps
<1>8. CASE Next
  BY <1>2, <1>3, <1>4, <1>5, <1>6, <1>8, LapseKeeps, ApiRestartsKeeps DEF Next
<1> QED
  BY <1>7, <1>8

\* What rows imply of the world, and what the copies of rows imply of the stored
\* ones, is so in every state of the hires of any pairings and any tasks.
THEOREM HireInvariant == Spec => []HireInv
BY HireInit, HireStep, PTL DEF Spec
-----------------------------------------------------------------------------
(* The properties.                                                         *)

LEMMA InvTypeOK == HireInv => TypeOK
<1> SUFFICES ASSUME HireInv PROVE TypeOK
  OBVIOUS
<1>1. \A p \in Live : row[p].st \in {"verified", "paired", "bound", "ending"} => row[p].w # None /\ row[p].session
  BY DEF HireInv, RowsInv, RowTrue, Sound, RowOK, Terminal
<1>2. \A t \in Tasks : task[t].at = "idle" => task[t] = Idle
  BY IdleType DEF HireInv, TasksInv
<1>3. ASSUME NEW t \in Tasks, task[t].fresh, task[t].at \notin {"admit", "reread", "store"}
      PROVE  task[t].row.st = row[task[t].p].st
  <2>1. task[t] \notin {Idle, Off}
    BY <1>3, IdleType
  <2>2. TaskTrue(t)
    BY <2>1 DEF HireInv, TasksInv
  <2>3. /\ Matches(task[t].at, task[t].row, row[task[t].p])
        /\ row[task[t].p] \in RowType
    BY <1>3, <2>2 DEF TaskTrue, Knows, HireInv, Types, Live
  <2> QED
    BY <2>3 DEF Matches, RowType
<1> QED
  BY <1>1, <1>2, <1>3 DEF HireInv, Types, WorldTypes, TypeOK

LEMMA InvArmed == HireInv => ArmedIsHired
<1> SUFFICES ASSUME HireInv, NEW p \in Pairings, agent[p] = "armed"
             PROVE  row[p].facts /\ row[p].st \in Active \cup {"ended"}
  BY DEF ArmedIsHired
<1>1. p \in Live
  BY DEF HireInv, NoRowsInv
<1> QED
  BY <1>1 DEF HireInv, RowsInv, RowTrue, Sound, RowOK

LEMMA InvEnded == HireInv => EndedIsSignedOut
<1> SUFFICES ASSUME HireInv, NEW p \in Live, row[p].st = "ended", binance[p] = "live"
             PROVE  flakes >= (IF row[p].why = "owner-signed-out" THEN 2 ELSE 1)
  BY DEF EndedIsSignedOut
<1> QED
  BY DEF HireInv, RowsInv, RowTrue, Sound

LEMMA InvDrained == HireInv => DrainedBeforeTermEnd
BY DEF HireInv, RowsInv, RowTrue, Sound, Leaving, Full, DrainedBeforeTermEnd

\* The types of rows, tasks and the world, and two facts of the copies: an idle
\* task has none, and a copy of the stored version has its state.
THEOREM HireTypeCorrect == Spec => []TypeOK
BY HireInvariant, InvTypeOK, PTL

\* A wallet has one hire at a time, whoever accepts hires of it at once.
THEOREM OneHirePerWalletAlways == Spec => []OneHirePerWallet
<1>1. HireInv => OneHirePerWallet
  BY DEF HireInv
<1> QED
  BY <1>1, HireInvariant, PTL

\* An armed agent belongs to a hire that passed its gate and was not cleaned up.
THEOREM ArmedIsHiredAlways == Spec => []ArmedIsHired
BY HireInvariant, InvArmed, PTL

\* A session that outlives its hire costs one wrong reading of wallet status, or two.
THEOREM EndedIsSignedOutAlways == Spec => []EndedIsSignedOut
BY HireInvariant, InvEnded, PTL

\* A sell-all hire is told to sell, in full, before its term ends.
THEOREM DrainedBeforeTermEndAlways == Spec => []DrainedBeforeTermEnd
BY HireInvariant, InvDrained, PTL


-----------------------------------------------------------------------------
(* The platform's own sign-outs.                                           *)

\* Who else leaves the sessions alone, or signs nobody out for the platform.
Silent == UNCHANGED binance \/ UNCHANGED task \/ \E p \in Pairings : binance' = [binance EXCEPT ![p] = "live"]

LEMMA SilentVerify ==
  ASSUME NEW p \in Pairings, Verify(p)
  PROVE  Silent \/ Undo(p)
<1>1. CASE Scan(p)
  BY <1>1 DEF Scan, Silent
<1>2. CASE SignIn(p) \/ Admit(p) \/ Reread(p) \/ StoreVerified(p) \/ VerifyFailed(p)
  BY <1>2 DEF SignIn, Admit, Reread, StoreVerified, VerifyFailed, world, Silent
<1> QED
  BY <1>1, <1>2 DEF Verify

LEMMA SilentLeave ==
  ASSUME NEW t, Leave(t)
  PROVE  Silent \/ LogOut(t)
BY DEF Leave, Ending, LeaveFence, Record, VerifyOut, RevokeEnded, world, Silent

LEMMA SilentServe ==
  ASSUME NEW t, Serve(t)
  PROVE  Silent \/ CleanSignOut(t) \/ LogOut(t)
<1>1. CASE Code(t) \/ Stop(t) \/ Await(t) \/ Close(t) \/ Finalize(t) \/ AcceptHire(t)
  BY <1>1 DEF Code, Stop, Await, Close, Finalize, AcceptHire, world, Silent
<1>2. CASE ResumeHire(t) \/ Gate(t) \/ Gated(t) \/ Refuse(t) \/ CreateAgent(t) \/ Staged(t) \/ Bind(t) \/ Thrown(t)
  BY <1>2 DEF ResumeHire, Gate, Gated, Refuse, CreateAgent, Staged, Bind, Thrown, world, Silent
<1>3. CASE Clean(t) \/ CleanFence(t) \/ Cleaned(t)
  BY <1>3 DEF Clean, CleanFence, Cleaned, world, Silent
<1> QED
  BY <1>1, <1>2, <1>3, SilentLeave DEF Serve

LEMMA SilentWork ==
  ASSUME NEW t, Work(t)
  PROVE  Silent \/ LogOut(t)
<1>1. CASE Drain(t) \/ Exits(t) \/ Mark(t) \/ TermEnd(t) \/ RevokeLeft(t)
  BY <1>1 DEF Drain, Exits, Mark, TermEnd, RevokeLeft, world, Silent
<1>2. CASE Probe(t) \/ Status(t) \/ Rest(t) \/ StopLoss(t) \/ Turn(t)
  BY <1>2 DEF Probe, Status, Rest, StopLoss, Turn, world, Silent
<1> QED
  BY <1>1, <1>2, SilentLeave DEF Work

LEMMA SilentNext ==
  ASSUME [Next]_vars
  PROVE  Silent \/ (\E p \in Pairings : Undo(p)) \/ (\E t \in Tasks : CleanSignOut(t) \/ LogOut(t))
<1>1. Routes \subseteq Tasks /\ Sweepers \subseteq Tasks /\ Workers \subseteq Tasks /\ Traders \subseteq Tasks
  BY DEF Tasks, Api
<1>2. ASSUME NEW p \in Pairings,
             Create(p) \/ Resolve(p) \/ Tick(p) \/ Minute(p) \/ OwnerSignsOut(p) \/ Touch(p)
      PROVE  Silent
  BY <1>2 DEF Create, Resolve, Tick, Minute, OwnerSignsOut, Touch, world, Silent
<1>3. ASSUME NEW t, NEW p, Call(t, p) \/ Sweep(t, p) \/ Cycle(t, p) \/ Quote(t, p)
      PROVE  Silent
  BY <1>3 DEF Call, Sweep, Cycle, Quote, world, Silent
<1>4. ASSUME NEW t, Trade(t) \/ WorkerDies(t) \/ Lapse(t) \/ ApiRestarts
      PROVE  Silent
  BY <1>4 DEF Trade, Settings, Claim, ChildEnds, WorkerDies, Lapse, ApiRestarts, world, Silent
<1>5. CASE UNCHANGED vars
  BY <1>5 DEF vars, Silent
<1> HIDE DEF Silent
<1>6. CASE \E p \in Pairings : Create(p) \/ Verify(p) \/ Resolve(p) \/ Tick(p) \/ Minute(p) \/ OwnerSignsOut(p) \/ Touch(p)
  BY <1>2, <1>6, SilentVerify
<1>7. CASE \E t \in Routes : Serve(t) \/ \E p \in Pairings : Call(t, p)
  BY <1>1, <1>3, <1>7, SilentServe
<1>8. CASE \E t \in Sweepers : Serve(t) \/ \E p \in Pairings : Sweep(t, p)
  BY <1>1, <1>3, <1>8, SilentServe
<1>9. CASE \E t \in Workers : Work(t) \/ WorkerDies(t) \/ \E p \in Pairings : Cycle(t, p)
  BY <1>1, <1>3, <1>4, <1>9, SilentWork
<1>10. CASE \E t \in Traders : Trade(t) \/ WorkerDies(t) \/ \E p \in Pairings : Quote(t, p)
  BY <1>3, <1>4, <1>10
<1>11. CASE (\E w \in Wallets : Lapse(w)) \/ ApiRestarts
  BY <1>4, <1>11
<1> QED
  BY <1>5, <1>6, <1>7, <1>8, <1>9, <1>10, <1>11 DEF Next

LEMMA SignOutStep ==
  ASSUME HireInv, [Next]_vars, NEW p \in Pairings, binance[p] = "live", binance'[p] = "out", SignsOut(p)
  PROVE  /\ row[p].st \notin {"hiring", "bound"}
         /\ row[p].st = "ending" => order[p] # "spawned" \/ age[p] >= 3
<1>1. binance \in [Pairings -> {"none", "live", "out"}]
  BY DEF HireInv, Types, WorldTypes
<1>2. ~Silent
  BY <1>1 DEF Silent, SignsOut
<1>3. ASSUME NEW q \in Pairings, Undo(q)
      PROVE  row[p].st \in Unpaired
  <2>1. p = q /\ task[q].at = "undo" /\ q \in Tasks
    BY <1>1, <1>3, Nobody DEF Undo, SignOut
  <2>2. TaskTrue(q)
    BY <2>1, AtWork
  <2> QED
    BY <2>1, <2>2 DEF TaskTrue, VerifierOf, Verifying
<1>4. ASSUME NEW t \in Tasks, CleanSignOut(t)
      PROVE  row[p].st \in Over
  <2>1. p = task[t].p /\ task[t].at = "signout"
    BY <1>1, <1>4 DEF CleanSignOut, SignOut
  <2>2. TaskTrue(t)
    BY <2>1, AtWork
  <2> QED
    BY <2>1, <2>2 DEF TaskTrue, Fits, Knows, Follows, Over
<1>5. ASSUME NEW t \in Tasks, LogOut(t)
      PROVE  row[p].st \in Leaving /\ (order[p] # "spawned" \/ age[p] >= 3)
  <2>1. p = task[t].p /\ task[t].at = "logout"
    BY <1>1, <1>5 DEF LogOut, SignOut
  <2>2. TaskTrue(t)
    BY <2>1, AtWork
  <2> QED
    BY <2>1, <2>2 DEF TaskTrue, Fits, Knows, Follows, Leaving, Placed
<1> QED
  BY <1>2, <1>3, <1>4, <1>5, SilentNext DEF Unpaired, Over, Leaving

\* The platform signs nobody out who is hired or bound, nor before a claimed order
\* of the pairing has ended or had its half hour.
THEOREM SignOutIsSafeAlways == Spec => SignOutIsSafe
<1>1. HireInv /\ [Next]_vars
      => [\A p \in Pairings :
            binance[p] = "live" /\ binance'[p] = "out" /\ SignsOut(p) =>
              /\ row[p].st \notin {"hiring", "bound"}
              /\ row[p].st = "ending" => order[p] # "spawned" \/ age[p] >= 3]_vars
  BY SignOutStep
<1> QED
  BY <1>1, HireInvariant, PTL DEF Spec, SignOutIsSafe

-----------------------------------------------------------------------------
(* The promised hires: each step is at most one step of WalletHires.       *)

\* A hire that is bound, or was.
Serving == {"bound", "ending", "ended"}

\* What a task's copy of a row says of the row and of the agent, besides HireInv:
\* a hire is bound after its agent was created, and its agent revoked after that.
Served(k, s, status) ==
  /\ k.row.st \in Serving => s.st \in Serving
  /\ k.at \in {"staged", "bind"} => status # None
  /\ k.at \in {"termed", "left", "revoke"} => k.row.st \in Serving

AgentsInv ==
  /\ \A p \in Live : row[p].st \in Serving => agent[p] # None
  /\ \A p \in Pairings : agent[p] = "revoked" => p \in Live /\ row[p].st \in Serving
  /\ \A t \in Tasks : task[t].at \notin {"idle", "off"} => Served(task[t], row[task[t].p], agent[task[t].p])

HiresStep == Hires!Next \/ UNCHANGED Hires!hires

\* What a step has to keep.
Promised == AgentsInv' /\ HiresStep

\* What rows and agents do whoever acts.
Onward ==
  /\ \A p \in Live : row'[p] # None /\ (row[p].st \in Serving => row'[p].st \in Serving)
  /\ \A p \in Pairings : row'[p] # None /\ row'[p].st \in Serving =>
       p \in Live /\ (row[p].st \in Serving \/ agent[p] # None)
  /\ \A p \in Pairings : agent[p] # None => agent'[p] # None
  /\ \A p \in Pairings : agent'[p] = "revoked" =>
       agent[p] = "revoked" \/ (p \in Live /\ row[p].st \in Serving)

\* A task that stands where it stood, with its copy.
Stays(s) == task'[s].at = task[s].at /\ task'[s].p = task[s].p /\ task'[s].row = task[s].row

\* A task that knows what it needs where it now is.
Knowing(s) == task'[s].at \in {"idle", "off"} \/ Served(task'[s], row'[task'[s].p], agent'[task'[s].p])

LEMMA AgentsKept ==
  ASSUME HireInv, AgentsInv, Onward, \A s \in Tasks : Stays(s) \/ Knowing(s)
  PROVE  AgentsInv'
<1>1. Live = {p \in Pairings : row[p] # None} /\ Live' = {p \in Pairings : row'[p] # None}
  BY DEF Live
<1>2. \A p \in Live' : row'[p].st \in Serving => agent'[p] # None
  BY <1>1 DEF AgentsInv, Onward
<1>3. \A p \in Pairings : agent'[p] = "revoked" => p \in Live' /\ row'[p].st \in Serving
  BY <1>1 DEF AgentsInv, Onward
<1>4. ASSUME NEW s \in Tasks, task'[s].at \notin {"idle", "off"}
      PROVE  Served(task'[s], row'[task'[s].p], agent'[task'[s].p])
  <2>1. CASE Stays(s)
    <3>1. task[s].at \notin {"idle", "off"}
      BY <1>4, <2>1 DEF Stays
    <3>2. task[s].p \in Live /\ task[s].p \in Pairings
      BY <3>1, AtWork
    <3>3. Served(task[s], row[task[s].p], agent[task[s].p])
      BY <3>1 DEF AgentsInv
    <3> QED
      BY <2>1, <3>2, <3>3 DEF Stays, Served, Onward
  <2> QED
    BY <1>4, <2>1 DEF Knowing
<1> QED
  BY <1>2, <1>3, <1>4 DEF AgentsInv

\* The stage of a pairing, by its row.
Worth(s, x) ==
  /\ s = None => x = "none"
  /\ s # None =>
       /\ s.st \in {"waiting", "verified", "paired"} => x = "open"
       /\ s.st = "hiring" => x = IF s.facts THEN "gated" ELSE "hired"
       /\ s.st \in Over => x = "closed"
       /\ s.st \in {"bound", "ending"} => x = s.st
       /\ s.st = "ended" => x = "over"

LEMMA StageWorth ==
  ASSUME NEW p
  PROVE  Worth(row[p], Stage(p)) /\ Worth(row'[p], Stage(p)')
BY DEF Worth, Stage, Over

LEMMA SameHires ==
  ASSUME UNCHANGED <<row, agent, binance, flakes>>
  PROVE  HiresStep
<1>1. UNCHANGED Hires!hires
  BY DEF Hires!hires, Stage, Hiring
<1> QED
  BY <1>1 DEF HiresStep

\* The wallet that the hire of p has to itself, if any.
Own(p) == IF Hiring(p) THEN row[p].w ELSE None

LEMMA OwnWallets ==
  /\ [q \in Pairings |-> IF Hiring(q) THEN row[q].w ELSE None] = [q \in Pairings |-> Own(q)]
  /\ [q \in Pairings |-> IF Hiring(q) THEN row[q].w ELSE None]' = [q \in Pairings |-> Own(q)']
BY DEF Own, Hiring

LEMMA HireTurn ==
  ASSUME NEW p \in Pairings, \A q \in Pairings \ {p} : row'[q] = row[q]
  PROVE  Hires!Turn(p, Stage(p), Stage(p)')
<1>1. \A q \in Pairings \ {p} : Stage(q)' = Stage(q)
  BY DEF Stage
<1> QED
  BY <1>1 DEF Hires!Turn

LEMMA SameWallets ==
  ASSUME \A q \in Pairings : Own(q)' = Own(q)
  PROVE  UNCHANGED [q \in Pairings |-> IF Hiring(q) THEN row[q].w ELSE None]
BY OwnWallets

LEMMA SameSessions ==
  ASSUME UNCHANGED binance
  PROVE  UNCHANGED {q \in Pairings : binance[q] = "live"}
OBVIOUS

\* A row that is written goes from one stage to the next, or stays in its own.
LEMMA WriteStep ==
  ASSUME HireInv, HireInv', AgentsInv, NEW p \in Live, NEW r \in RowType, row' = [row EXCEPT ![p] = r],
         Legal(row[p], r), OnlyHire(p, r), UNCHANGED binance,
         r.facts = row[p].facts \/ (~row[p].facts /\ r.st = row[p].st),
         r.w = row[p].w \/ r.st \notin Active,
         r.st = "bound" /\ row[p].st # "bound" => agent[p] # None,
         \/ UNCHANGED <<agent, flakes>>
         \/ r.st = row[p].st /\ UNCHANGED agent /\ r.facts = row[p].facts /\ flakes' = flakes + 1
         \/ r.st = "ended" /\ row[p].st # "ended" /\ (UNCHANGED agent \/ Revoke(p)) /\ flakes' \in {flakes, flakes + 1}
  PROVE  HiresStep
<1> DEFINE s == row[p]
<1>1. p \in Pairings /\ s \in RowType /\ s # None /\ r # None /\ row'[p] = r /\ \A q \in Pairings \ {p} : row'[q] = row[q]
  BY DEF HireInv, Types, Live
<1>2. RowOK(s) /\ RowOK(r) /\ RowTrue(p)'
  <2>1. p \in Live'
    BY <1>1 DEF Live
  <2> QED
    BY <1>1, <2>1 DEF HireInv, RowsInv, RowTrue, Sound
<1>3. Worth(s, Stage(p)) /\ Worth(r, Stage(p)')
  BY <1>1, StageWorth
<1>4. Hires!Turn(p, Stage(p), Stage(p)')
  BY <1>1, HireTurn
<1>5. \A q \in Pairings \ {p} : Own(q)' = Own(q)
  BY <1>1 DEF Own, Hiring
<1>6. /\ Own(p) = IF s.st \in Active THEN s.w ELSE None
      /\ Own(p)' = IF r.st \in Active THEN r.w ELSE None
  BY <1>1 DEF Own, Hiring
<1>7. s.st \in States /\ r.st \in States /\ s.facts \in BOOLEAN /\ r.facts \in BOOLEAN
  BY <1>1 DEF RowType
<1>8. r.st # s.st => r.st \in Transitions[s.st] /\ r.facts = s.facts
  BY <1>7 DEF Legal
<1>9. UNCHANGED {q \in Pairings : binance[q] = "live"}
  BY SameSessions
<1>10. r.w = s.w \/ r.st \notin Active
  OBVIOUS
<1>11. agent \in [Pairings -> {None, "armed", "revoked"}] /\ flakes \in Nat /\ flakes' \in Nat
  BY DEF HireInv, Types, WorldTypes
<1> HIDE DEF s
<1>12. ASSUME Stage(p)' = Stage(p), Own(p)' = Own(p), UNCHANGED <<agent, flakes>>
       PROVE  HiresStep
  <2>1. UNCHANGED [q \in Pairings |-> IF Hiring(q) THEN row[q].w ELSE None]
    BY <1>5, <1>12, SameWallets
  <2>2. UNCHANGED [q \in Pairings |-> Stage(q)]
    BY <1>1, <1>12 DEF Stage
  <2> QED
    BY <1>9, <1>12, <2>1, <2>2 DEF HiresStep, Hires!hires
<1>13. ASSUME Stage(p)' = Stage(p), Own(p)' = Own(p), UNCHANGED agent, flakes' = flakes + 1
       PROVE  HiresStep
  <2>1. UNCHANGED [q \in Pairings |-> IF Hiring(q) THEN row[q].w ELSE None]
    BY <1>5, <1>13, SameWallets
  <2>2. UNCHANGED [q \in Pairings |-> Stage(q)]
    BY <1>1, <1>13 DEF Stage
  <2>3. Hires!Misread
    BY <1>9, <1>13, <2>1, <2>2 DEF Hires!Misread
  <2> QED
    BY <2>3 DEF HiresStep, Hires!Next
<1>14. ASSUME Stage(p) \in {"open", "hired"}, Stage(p)' = "closed", Own(p)' = None, UNCHANGED <<agent, flakes>>
       PROVE  HiresStep
  <2>1. Hires!Close({p})
    <3>1. [q \in Pairings |-> Stage(q)]' = [q \in Pairings |-> IF q \in {p} THEN "closed" ELSE [x \in Pairings |-> Stage(x)][q]]
      BY <1>4, <1>14 DEF Hires!Turn
    <3>2. [q \in Pairings |-> Own(q)'] = [q \in Pairings |-> IF q \in {p} THEN None ELSE [x \in Pairings |-> Own(x)][q]]
      BY <1>5, <1>14
    <3> QED
      BY <1>1, <1>9, <1>14, <3>1, <3>2, OwnWallets DEF Hires!Close
  <2>2. {p} \in SUBSET Pairings
    BY <1>1
  <2> QED
    BY <2>1, <2>2 DEF HiresStep, Hires!Next
<1>15. ASSUME Stage(p)' # Stage(p), Own(p)' = Own(p), UNCHANGED <<agent, flakes>>,
              \/ <<Stage(p), Stage(p)'>> \in {<<"hired", "gated">>, <<"bound", "ending">>}
              \/ <<Stage(p), Stage(p)'>> = <<"gated", "bound">> /\ agent[p] = "armed"
       PROVE  HiresStep
  <2>1. UNCHANGED [q \in Pairings |-> IF Hiring(q) THEN row[q].w ELSE None]
    BY <1>5, <1>15, SameWallets
  <2>2. Hires!Gate(p) \/ Hires!Leave(p) \/ Hires!Bind(p)
    BY <1>4, <1>9, <1>15, <2>1 DEF Hires!Gate, Hires!Leave, Hires!Bind
  <2> QED
    BY <1>1, <2>2 DEF HiresStep, Hires!Next
<1>16. ASSUME s.st = "paired", r.st = "hiring", UNCHANGED <<agent, flakes>>
       PROVE  HiresStep
  <2>1. r.w \in Wallets /\ r.w # None
    BY <1>1, <1>2, <1>16 DEF RowOK, RowType, Terminal
  <2>2. ~s.facts /\ ~r.facts
    BY <1>2, <1>7, <1>8, <1>16 DEF RowOK, Active
  <2>3. Stage(p) = "open" /\ Stage(p)' = "hired"
    BY <1>1, <1>3, <1>16, <2>2 DEF Worth
  <2>4. Own(p) = None /\ Own(p)' = r.w
    BY <1>6, <1>16 DEF Active
  <2>5. \A q \in Pairings : Own(q) # r.w
    <3>1. SUFFICES ASSUME NEW q \in Pairings, q # p, Own(q) = r.w PROVE FALSE
      BY <2>1, <2>4
    <3>2. q \in Live /\ row[q].w = r.w /\ row[q].st \in Active
      BY <2>1, <3>1 DEF Own, Hiring, Live
    <3> QED
      BY <1>16, <3>1, <3>2 DEF OnlyHire, Active
  <2>6. [q \in Pairings |-> Own(q)'] = [[q \in Pairings |-> Own(q)] EXCEPT ![p] = r.w]
    BY <1>1, <1>5, <2>4
  <2>7. Hires!Hire(p, r.w)
    BY <1>1, <1>4, <1>9, <1>16, <2>3, <2>5, <2>6, OwnWallets DEF Hires!Hire
  <2> QED
    BY <1>1, <2>1, <2>7 DEF HiresStep, Hires!Next
<1>17. ASSUME s.st \in {"bound", "ending"}, r.st = "ended", UNCHANGED agent \/ Revoke(p), flakes' \in {flakes, flakes + 1}
       PROVE  HiresStep
  <2>1. Stage(p) \in {"bound", "ending"} /\ Stage(p)' = "over"
    BY <1>1, <1>3, <1>17 DEF Worth
  <2>2. Own(p)' = None
    BY <1>6, <1>17 DEF Active
  <2>3. [q \in Pairings |-> Own(q)'] = [[q \in Pairings |-> Own(q)] EXCEPT ![p] = None]
    BY <1>1, <1>5, <2>2
  <2>4. Hires!Released(p)
    BY <2>3, OwnWallets DEF Hires!Released
  <2>5. Hires!Revoked(p) \/ UNCHANGED agent
    BY <1>17 DEF Hires!Revoked, Revoke
  <2>6. p \in {q \in Pairings : binance[q] = "live"} => flakes' > 0
    <3>1. binance'[p] = "live" => flakes' >= 1
      BY <1>1, <1>2, <1>11, <1>17 DEF RowTrue, Sound
    <3> QED
      BY <1>11, <3>1
  <2>7. Hires!End(p)
    BY <1>4, <1>9, <1>17, <2>1, <2>4, <2>5, <2>6 DEF Hires!End
  <2> QED
    BY <1>1, <2>7 DEF HiresStep, Hires!Next
<1>18. CASE r.st = s.st
  <2>1. Own(p)' = Own(p)
    BY <1>6, <1>18, <1>10
  <2>2. CASE r.st = "hiring" /\ r.facts # s.facts
    <3>1. ~s.facts /\ r.facts /\ UNCHANGED <<agent, flakes>>
      BY <1>7, <1>18, <2>2 DEF s
    <3>2. Stage(p) = "hired" /\ Stage(p)' = "gated"
      BY <1>1, <1>3, <1>18, <2>2, <3>1 DEF Worth
    <3> QED
      BY <1>15, <2>1, <3>1, <3>2
  <2>3. CASE ~(r.st = "hiring" /\ r.facts # s.facts)
    <3>1. Stage(p)' = Stage(p)
      BY <1>1, <1>3, <1>7, <1>18, <2>3 DEF Worth, Over, States
    <3>2. CASE UNCHANGED <<agent, flakes>>
      BY <1>12, <2>1, <3>1, <3>2
    <3>3. CASE UNCHANGED agent /\ flakes' = flakes + 1
      BY <1>13, <2>1, <3>1, <3>3
    <3> QED
      BY <1>18, <3>2, <3>3 DEF s
  <2> QED
    BY <2>2, <2>3
<1>19. CASE r.st # s.st
  <2>1. r.st \in Transitions[s.st] /\ r.facts = s.facts
    BY <1>8, <1>19
  <2>2. CASE r.st = "ended"
    <3>1. s.st \in {"bound", "ending"}
      BY <1>7, <2>1, <2>2 DEF Transitions, States
    <3>2. (UNCHANGED agent \/ Revoke(p)) /\ flakes' \in {flakes, flakes + 1}
      BY <1>19, <2>2 DEF s
    <3> QED
      BY <1>17, <2>2, <3>1, <3>2
  <2>3. CASE r.st # "ended"
    <3>1. UNCHANGED <<agent, flakes>>
      BY <1>19, <2>3 DEF s
    <3>2. CASE s.st = "paired" /\ r.st = "hiring"
      BY <1>16, <3>1, <3>2
    <3>3. CASE s.st = "hiring" /\ r.st = "bound"
      <4>1. r.facts /\ agent[p] = "armed"
        BY <1>1, <1>2, <1>11, <3>3 DEF RowOK, AgentsInv, Serving, s
      <4>2. Stage(p) = "gated" /\ Stage(p)' = "bound" /\ Own(p)' = Own(p)
        BY <1>1, <1>3, <1>6, <1>10, <2>1, <3>3, <4>1 DEF Worth, Active
      <4> QED
        BY <1>15, <3>1, <4>1, <4>2
    <3>4. CASE s.st = "bound" /\ r.st = "ending"
      <4>1. Stage(p) = "bound" /\ Stage(p)' = "ending" /\ Own(p)' = Own(p)
        BY <1>1, <1>3, <1>6, <1>10, <3>4 DEF Worth, Active
      <4> QED
        BY <1>15, <3>1, <4>1
    <3>5. CASE s.st \in {"waiting", "verified", "paired", "hiring"} /\ r.st \in Over
      <4>1. s.st = "hiring" => ~s.facts
        BY <1>2, <1>7, <2>1, <3>5 DEF RowOK, Over, Active
      <4>2. Stage(p) \in {"open", "hired"} /\ Stage(p)' = "closed" /\ Own(p)' = None
        BY <1>1, <1>3, <1>6, <3>5, <4>1 DEF Worth, Over, Active
      <4> QED
        BY <1>14, <3>1, <4>2
    <3>6. CASE s.st \in {"waiting", "verified", "cleaning"} /\ r.st \in {"verified", "paired", "failed", "expired"}
               /\ ~(s.st \in {"waiting", "verified"} /\ r.st \in Over)
      <4>1. Stage(p)' = Stage(p) /\ Own(p)' = Own(p)
        BY <1>1, <1>3, <1>6, <2>1, <3>6 DEF Worth, Over, Active, Transitions
      <4> QED
        BY <1>12, <3>1, <4>1
    <3> QED
      BY <1>7, <2>1, <2>3, <3>2, <3>3, <3>4, <3>5, <3>6 DEF Transitions, States, Over
  <2> QED
    BY <2>2, <2>3
<1> QED
  BY <1>18, <1>19

\* Where no row is written and no agent moves: somebody is signed out, or status was misread.
Still ==
  /\ UNCHANGED <<row, agent>>
  /\ \/ UNCHANGED flakes /\ (UNCHANGED binance \/ \E p \in Pairings : SignOut(p))
     \/ UNCHANGED binance /\ flakes' = flakes + 1

LEMMA StillHires ==
  ASSUME HireInv, Still
  PROVE  HiresStep /\ Onward
<1>1. UNCHANGED [q \in Pairings |-> Stage(q)] /\ UNCHANGED [q \in Pairings |-> IF Hiring(q) THEN row[q].w ELSE None]
  BY DEF Still, Stage, Hiring
<1>2. Onward
  BY DEF Still, Onward, Live
<1>3. ASSUME UNCHANGED <<binance, flakes>> PROVE HiresStep
  BY <1>1, <1>3, SameSessions DEF HiresStep, Hires!hires, Still
<1>4. ASSUME UNCHANGED flakes, NEW p \in Pairings, SignOut(p)
      PROVE  HiresStep
  <2>1. binance \in [Pairings -> {"none", "live", "out"}]
    BY DEF HireInv, Types, WorldTypes
  <2>2. {q \in Pairings : binance'[q] = "live"} = {q \in Pairings : binance[q] = "live"} \ {p}
    BY <1>4, <2>1 DEF SignOut
  <2>3. Hires!SignOut(p)
    BY <1>1, <1>4, <2>2 DEF Hires!SignOut, Still
  <2> QED
    BY <2>3 DEF HiresStep, Hires!Next
<1>5. ASSUME UNCHANGED binance, flakes' = flakes + 1 PROVE HiresStep
  <2>1. Hires!Misread
    BY <1>1, <1>5, SameSessions DEF Hires!Misread, Still
  <2> QED
    BY <2>1 DEF HiresStep, Hires!Next
<1> QED
  BY <1>2, <1>3, <1>4, <1>5 DEF Still

\* What a task must know to stand at pc with the copy c.
Marked(pc, c, status) ==
  /\ pc \in {"staged", "bind"} => status # None
  /\ pc \in {"termed", "left", "revoke"} => c.st \in Serving

LEMMA GoMoves ==
  ASSUME HireInv, AgentsInv, Onward, UNCHANGED row, NEW t \in Tasks, task[t].at \notin {"idle", "off"},
         NEW pc \in Places, Go(t, pc), Marked(pc, task[t].row, agent'[task[t].p])
  PROVE  AgentsInv'
<1>1. task \in [Tasks -> TaskType] /\ task[t] \in TaskType
  BY DEF HireInv, Types
<1>2. \A s \in Tasks \ {t} : Stays(s)
  BY <1>1 DEF Go, Stays
<1>3. task'[t] = At(task[t], pc)
  BY <1>1 DEF Go
<1>4. pc = "idle" => task'[t].at = "idle"
  BY <1>1, <1>3, AtType, IdleType
<1>5. pc # "idle" => task'[t].at = pc /\ task'[t].p = task[t].p /\ task'[t].row = task[t].row
  BY <1>1, <1>3, AtType
<1>6. Served(task[t], row[task[t].p], agent[task[t].p])
  BY DEF AgentsInv
<1>7. Knowing(t)
  BY <1>4, <1>5, <1>6 DEF Knowing, Served, Marked
<1> QED
  BY <1>2, <1>7, AgentsKept

LEMMA ReadMoves ==
  ASSUME HireInv, AgentsInv, Onward, UNCHANGED row, NEW t \in Tasks, NEW p \in Pairings, NEW pc \in Places, Read(t, p, pc),
         Marked(pc, row[p], agent'[p])
  PROVE  AgentsInv'
<1>1. \A s \in Tasks \ {t} : Stays(s)
  BY DEF Read, Stays, HireInv, Types
<1>2. task'[t].at = pc /\ task'[t].p = p /\ task'[t].row = row'[p]
  BY DEF Read, HireInv, Types
<1>3. Knowing(t)
  BY <1>2 DEF Knowing, Served, Marked
<1> QED
  BY <1>1, <1>3, AgentsKept

LEMMA StoreMoves ==
  ASSUME HireInv, AgentsInv, Onward, NEW t \in Tasks, task[t].at \notin {"idle", "off"}, NEW r \in RowType,
         NEW pc \in Places, Store(t, task[t].p, r, pc), Marked(pc, r, agent'[task[t].p])
  PROVE  AgentsInv'
<1> DEFINE k == [task[t] EXCEPT !.row = r, !.fresh = TRUE]
           p == task[t].p
<1>1. task \in [Tasks -> TaskType] /\ task[t] \in TaskType /\ p \in Pairings /\ row \in [Pairings -> RowType \cup {None}]
  BY AtWork DEF HireInv, Types
<1>2. k \in TaskType /\ k.row = r /\ k.p = p
  BY <1>1 DEF TaskType
<1>3. task'[t] = At(k, pc) /\ row'[p] = r
  BY <1>1 DEF Store
<1>4. ASSUME NEW s \in Tasks \ {t} PROVE Stays(s)
  <2>1. task[s] \in TaskType /\ (task'[s] = task[s] \/ task'[s] = [task[s] EXCEPT !.fresh = FALSE])
    BY <1>1 DEF Store
  <2> QED
    BY <2>1 DEF Stays, TaskType
<1> HIDE DEF k
<1>5. pc = "idle" => task'[t].at = "idle"
  BY <1>2, <1>3, AtType, IdleType
<1>6. pc # "idle" => task'[t].at = pc /\ task'[t].p = p /\ task'[t].row = r
  BY <1>2, <1>3, AtType
<1>7. Knowing(t)
  BY <1>3, <1>5, <1>6 DEF Knowing, Served, Marked
<1> QED
  BY <1>4, <1>7, AgentsKept

\* A task goes on, or reads a row, and nothing is written that was promised.
LEMMA GoPromised ==
  ASSUME HireInv, AgentsInv, Still, NEW t \in Tasks, task[t].at \notin {"idle", "off"},
         NEW pc \in Places, Go(t, pc), Marked(pc, task[t].row, agent[task[t].p])
  PROVE  Promised
<1>1. HiresStep /\ Onward /\ UNCHANGED <<row, agent>>
  BY StillHires DEF Still
<1> QED
  BY <1>1, GoMoves DEF Promised

LEMMA ReadPromised ==
  ASSUME HireInv, AgentsInv, Still, NEW t \in Tasks, NEW p \in Pairings, NEW pc \in Places, Read(t, p, pc),
         Marked(pc, row[p], agent[p])
  PROVE  Promised
<1>1. HiresStep /\ Onward /\ UNCHANGED <<row, agent>>
  BY StillHires DEF Still
<1> QED
  BY <1>1, ReadMoves DEF Promised

\* What a write leaves as it was.
Keeps(c, r) ==
  /\ r \in RowType /\ r.w = c.w
  /\ r.facts = c.facts \/ (~c.facts /\ r.st = c.st)

LEMMA WriteOnward ==
  ASSUME HireInv, NEW p \in Live, NEW r \in RowType, row' = [row EXCEPT ![p] = r], Legal(row[p], r),
         UNCHANGED agent \/ (Revoke(p) /\ row[p].st \in Serving),
         r.st = "bound" /\ row[p].st # "bound" => agent[p] # None
  PROVE  Onward
<1> DEFINE s == row[p]
<1>1. p \in Pairings /\ s \in RowType /\ row'[p] = r /\ \A q \in Pairings \ {p} : row'[q] = row[q]
  BY DEF HireInv, Types, Live
<1>2. r # None /\ (s.st \in Serving => r.st \in Serving) /\ (r.st \in Serving => s.st \in Serving \/ r.st = "bound")
  <2>1. s.st \in States /\ (r.st # s.st => r.st \in Transitions[s.st])
    BY <1>1 DEF Legal, RowType
  <2> QED
    BY <2>1 DEF Transitions, States, Serving
<1>3. agent \in [Pairings -> {None, "armed", "revoked"}]
  BY DEF HireInv, Types, WorldTypes
<1> HIDE DEF s
<1>4. \A q \in Live : row'[q] # None /\ (row[q].st \in Serving => row'[q].st \in Serving)
  BY <1>1, <1>2 DEF Live, s
<1>5. \A q \in Pairings : row'[q] # None /\ row'[q].st \in Serving => q \in Live /\ (row[q].st \in Serving \/ agent[q] # None)
  BY <1>1, <1>2 DEF Live, s, Serving
<1>6. \A q \in Pairings : agent[q] # None => agent'[q] # None
  BY <1>3 DEF Revoke
<1>7. \A q \in Pairings : agent'[q] = "revoked" => agent[q] = "revoked" \/ (q \in Live /\ row[q].st \in Serving)
  BY <1>3 DEF Revoke
<1> QED
  BY <1>4, <1>5, <1>6, <1>7 DEF Onward

\* The stored row, as its writer knows it.
LEMMA WriterKnows ==
  ASSUME HireInv, NEW t \in Tasks, task[t].at \notin {"idle", "off"}, NEW r, Wins(t, r), Keeps(task[t].row, r)
  PROVE  /\ task[t].p \in Live /\ row[task[t].p].st = task[t].row.st /\ row[task[t].p].facts = task[t].row.facts
         /\ Legal(row[task[t].p], r) /\ OnlyHire(task[t].p, r)
         /\ r.w = row[task[t].p].w \/ r.st \notin Active
<1> DEFINE s == row[task[t].p]
           c == task[t].row
<1>1. task[t].p \in Live /\ s.st = c.st /\ s.facts = c.facts /\ s \in RowType /\ TaskTrue(t)
      /\ (task[t].at \notin {"admit", "reread", "store", "undo"} => s = c)
  BY AtWork, FreshRow DEF Wins
<1>2. Legal(s, r) /\ OnlyHire(task[t].p, r)
  BY <1>1 DEF Wins, Legal
<1>3. CASE task[t].at \in {"admit", "reread", "store", "undo"}
  <2>1. s.st \in Unpaired
    BY <1>1, <1>3 DEF TaskTrue, VerifierOf, Verifying
  <2>2. r.st \notin Active
    BY <1>2, <2>1 DEF Legal, Transitions, Unpaired, Active
  <2> QED
    BY <1>1, <1>2, <2>2
<1> QED
  BY <1>1, <1>2, <1>3 DEF Keeps

LEMMA PatchPromised ==
  ASSUME HireInv, HireInv', AgentsInv, NEW t \in Tasks, task[t].at \notin {"idle", "off"},
         NEW r, Keeps(task[t].row, r), NEW pc \in Places, NEW lost \in Places, Patch(t, r, pc, lost),
         Marked(pc, r, agent[task[t].p]), Marked(lost, task[t].row, agent[task[t].p]),
         r.st = "bound" /\ task[t].row.st # "bound" => task[t].at = "bind",
         UNCHANGED <<agent, binance>>,
         \/ UNCHANGED flakes
         \/ r.st = task[t].row.st /\ r.facts = task[t].row.facts /\ flakes' = flakes + 1
         \/ r.st = "ended" /\ task[t].row.st # "ended" /\ flakes' \in {flakes, flakes + 1}
  PROVE  Promised
<1> DEFINE p == task[t].p
<1>1. CASE Wins(t, r)
  <2>1. Store(t, p, r, pc) /\ row' = [row EXCEPT ![p] = r] /\ r \in RowType
    BY <1>1 DEF Patch, Store, Keeps
  <2>2. /\ p \in Live /\ row[p].st = task[t].row.st /\ row[p].facts = task[t].row.facts
        /\ Legal(row[p], r) /\ OnlyHire(p, r) /\ (r.w = row[p].w \/ r.st \notin Active)
    BY <1>1, WriterKnows
  <2>3. r.st = "bound" /\ row[p].st # "bound" => agent[p] # None
    BY <2>2 DEF AgentsInv, Served
  <2>4. Onward
    BY <2>1, <2>2, <2>3, WriteOnward
  <2>5. AgentsInv'
    BY <2>1, <2>4, StoreMoves
  <2>6. r.facts = row[p].facts \/ (~row[p].facts /\ r.st = row[p].st)
    BY <2>2 DEF Keeps
  <2>7. \/ UNCHANGED <<agent, flakes>>
        \/ r.st = row[p].st /\ UNCHANGED agent /\ r.facts = row[p].facts /\ flakes' = flakes + 1
        \/ r.st = "ended" /\ row[p].st # "ended" /\ (UNCHANGED agent \/ Revoke(p)) /\ flakes' \in {flakes, flakes + 1}
    BY <2>2
  <2>8. HiresStep
    BY <2>1, <2>2, <2>3, <2>6, <2>7, WriteStep
  <2> QED
    BY <2>5, <2>8 DEF Promised
<1>2. CASE ~Wins(t, r)
  <2>1. Go(t, lost) /\ UNCHANGED row
    BY <1>2 DEF Patch
  <2>2. Still
    BY <2>1 DEF Still
  <2> QED
    BY <2>1, <2>2, GoPromised
<1> QED
  BY <1>1, <1>2

LEMMA Unmarked ==
  ASSUME NEW pc, pc \notin {"staged", "bind", "termed", "left", "revoke"}, NEW c, NEW x
  PROVE  Marked(pc, c, x)
BY DEF Marked

\* A row whose state alone is written.
LEMMA StateKeeps ==
  ASSUME NEW c \in RowType, NEW st \in States
  PROVE  /\ Keeps(c, [c EXCEPT !.st = st]) /\ [c EXCEPT !.st = st].st = st /\ [c EXCEPT !.st = st].facts = c.facts
         /\ Keeps(c, c)
BY DEF Keeps, RowType

\* Steps that change nothing the promised hires know of.
LEMMA Untouched ==
  ASSUME UNCHANGED <<row, agent, binance, flakes>>
  PROVE  Still
BY DEF Still

LEMMA CreatePromised ==
  ASSUME HireInv, HireInv', AgentsInv, NEW p \in Pairings, Create(p)
  PROVE  Promised
<1>1. /\ row[p] = None /\ task[p] = Idle /\ row' = [row EXCEPT ![p] = NewRow]
      /\ task' = [task EXCEPT ![p] = [at |-> "signin", p |-> p, row |-> NewRow, fresh |-> TRUE, age |-> 0]]
      /\ UNCHANGED <<agent, binance, flakes>>
  BY DEF Create, world, bounds
<1>2. row \in [Pairings -> RowType \cup {None}] /\ task \in [Tasks -> TaskType] /\ p \in Tasks
  BY Nobody DEF HireInv, Types
<1>3. row'[p] = NewRow /\ NewRow # None /\ NewRow.st = "waiting" /\ \A q \in Pairings \ {p} : row'[q] = row[q]
  <2>1. 0 \in 0..Attempts
    OBVIOUS
  <2>2. NewRow \in RowType /\ NewRow.st = "waiting"
    BY <2>1 DEF NewRow, RowType, States
  <2> QED
    BY <1>1, <1>2, <2>2
<1>4. Onward
  BY <1>1, <1>3 DEF Onward, Live, Serving
<1>5. AgentsInv'
  <2>1. \A s \in Tasks \ {p} : Stays(s)
    BY <1>1, <1>2 DEF Stays
  <2>2. Knowing(p)
    BY <1>1, <1>2, <1>3 DEF Knowing, Served, Serving
  <2> QED
    BY <1>4, <2>1, <2>2, AgentsKept
<1>6. Stage(p) = "none" /\ Stage(p)' = "open"
  BY <1>1, <1>3, StageWorth DEF Worth
<1>7. \A q \in Pairings : Own(q)' = Own(q)
  BY <1>1, <1>3 DEF Own, Hiring, Active
<1>8. Hires!Pair(p)
  <2>1. Hires!Turn(p, "none", "open")
    BY <1>3, <1>6, HireTurn
  <2> QED
    BY <1>1, <1>7, <2>1, SameWallets, SameSessions DEF Hires!Pair
<1> QED
  BY <1>5, <1>8 DEF Promised, HiresStep, Hires!Next

LEMMA SignInPromised ==
  ASSUME HireInv, HireInv', AgentsInv, NEW p \in Pairings, SignIn(p)
  PROVE  Promised
<1> DEFINE c == task[p].row
           r == [c EXCEPT !.st = "failed"]
<1>1. task[p].at = "signin" /\ UNCHANGED <<agent, binance, flakes>> /\ p \in Tasks
  BY Nobody DEF SignIn, world, bounds
<1>2. c \in RowType /\ "failed" \in States /\ "scan" \in Places /\ "idle" \in Places
  BY <1>1, AtWork DEF States, Places
<1>3. Keeps(c, r) /\ r.st = "failed" /\ Keeps(c, c)
  BY <1>2, StateKeeps
<1>4. \A pc \in {"scan", "idle"} : \A x, y : Marked(pc, x, y)
  BY Unmarked
<1>5. Patch(p, r, "idle", "idle") \/ Patch(p, c, "scan", "idle")
  BY DEF SignIn, Last
<1> HIDE DEF r
<1> QED
  BY <1>1, <1>2, <1>3, <1>4, <1>5, PatchPromised

LEMMA ScanPromised ==
  ASSUME HireInv, HireInv', AgentsInv, NEW p \in Pairings, Scan(p)
  PROVE  Promised
<1>1. task[p].at = "scan" /\ UNCHANGED <<row, agent, flakes>> /\ p \in Tasks
  BY Nobody DEF Scan, bounds
<1>2. CASE Go(p, "undo") /\ UNCHANGED binance
  BY <1>1, <1>2, Untouched, Unmarked, GoPromised DEF Places
<1>3. ASSUME binance' = [binance EXCEPT ![p] = "live"], NEW w \in Wallets,
             task' = [task EXCEPT ![p].at = IF p \in cancel THEN "undo" ELSE "admit", ![p].row.w = w]
      PROVE  Promised
  <2>1. task \in [Tasks -> TaskType] /\ task[p] \in TaskType /\ task[p].row \in RowType /\ TaskTrue(p)
        /\ binance \in [Pairings -> {"none", "live", "out"}]
    BY <1>1, AtWork DEF HireInv, Types, WorldTypes
  <2>2. /\ task'[p].at \in {"undo", "admit"} /\ task'[p].p = task[p].p /\ task'[p].row.st = task[p].row.st
        /\ \A s \in Tasks \ {p} : task'[s] = task[s]
    BY <1>1, <1>3, <2>1 DEF TaskType, RowType
  <2>3. p \in Live /\ row[p].st \in Unpaired /\ task[p].p = p
    BY <1>1, <2>1 DEF TaskTrue, VerifierOf, Verifying
  <2>4. Onward
    BY <1>1 DEF Onward, Live
  <2>5. AgentsInv'
    <3>1. Served(task[p], row[p], agent[p])
      BY <1>1, <2>3 DEF AgentsInv
    <3>2. Knowing(p)
      BY <1>1, <2>2, <2>3, <3>1 DEF Knowing, Served
    <3>3. \A s \in Tasks \ {p} : Stays(s)
      BY <2>2 DEF Stays
    <3> QED
      BY <2>4, <3>2, <3>3, AgentsKept
  <2>6. Hires!SignIn(p)
    <3>1. Stage(p) \in {"open", "closed"}
      BY <2>3, StageWorth DEF Worth, Unpaired, Over, Live
    <3>2. UNCHANGED [q \in Pairings |-> Stage(q)] /\ UNCHANGED [q \in Pairings |-> IF Hiring(q) THEN row[q].w ELSE None]
      BY <1>1 DEF Stage, Hiring
    <3>3. {q \in Pairings : binance'[q] = "live"} = {q \in Pairings : binance[q] = "live"} \cup {p}
      BY <1>3, <2>1
    <3> QED
      BY <1>1, <3>1, <3>2, <3>3 DEF Hires!SignIn
  <2> QED
    BY <2>5, <2>6 DEF Promised, HiresStep, Hires!Next
<1> QED
  BY <1>2, <1>3 DEF Scan

LEMMA RereadPromised ==
  ASSUME HireInv, HireInv', AgentsInv, NEW p \in Pairings, Reread(p)
  PROVE  Promised
<1>1. task[p].at = "reread" /\ UNCHANGED <<row, agent, binance, flakes>> /\ p \in Tasks
  BY Nobody DEF Reread, world, bounds
<1>2. CASE row[p].st = "waiting"
  <2>1. task' = [task EXCEPT ![p].at = "store", ![p].row = [row[p] EXCEPT !.w = task[p].row.w], ![p].fresh = TRUE]
    BY <1>2 DEF Reread
  <2>2. task[p] \in TaskType /\ task[p].p = p /\ row[p] \in RowType
    BY <1>1, AtWork DEF TaskTrue, VerifierOf, Verifying
  <2>3. /\ task'[p].at = "store" /\ task'[p].p = p /\ task'[p].row.st = row[p].st
        /\ \A s \in Tasks \ {p} : task'[s] = task[s]
    BY <1>1, <2>1, <2>2 DEF HireInv, Types, TaskType, RowType
  <2>4. Onward /\ HiresStep
    BY <1>1, Untouched, StillHires
  <2>5. Knowing(p)
    BY <1>1, <2>3 DEF Knowing, Served
  <2>6. \A s \in Tasks \ {p} : Stays(s)
    BY <2>3 DEF Stays
  <2> QED
    BY <2>4, <2>5, <2>6, AgentsKept DEF Promised
<1>3. CASE row[p].st # "waiting"
  <2>1. Go(p, "undo")
    BY <1>3 DEF Reread
  <2> QED
    BY <1>1, <2>1, Untouched, Unmarked, GoPromised DEF Places
<1> QED
  BY <1>2, <1>3

LEMMA VerifyPromised ==
  ASSUME HireInv, HireInv', AgentsInv, NEW p \in Pairings, Verify(p)
  PROVE  Promised
<1>1. p \in Tasks /\ {"idle", "undo", "reread", "fail"} \subseteq Places /\ {"failed", "expired", "verified"} \subseteq States
  BY Nobody DEF Places, States
<1>2. \A pc \in {"idle", "undo", "reread", "fail"} : \A x, y : Marked(pc, x, y)
  BY Unmarked
<1>3. CASE Admit(p)
  BY <1>1, <1>2, <1>3, Untouched, GoPromised DEF Admit, world, bounds
<1>4. CASE StoreVerified(p)
  <2> DEFINE c == task[p].row
             r == [c EXCEPT !.st = "verified", !.session = TRUE]
  <2>1. task[p].at = "store" /\ UNCHANGED <<agent, binance, flakes>> /\ Patch(p, r, "idle", "undo")
    BY <1>4 DEF StoreVerified, bounds
  <2>2. c \in RowType
    BY <1>1, <2>1, AtWork
  <2>3. Keeps(c, r) /\ r.st = "verified"
    BY <1>1, <2>2 DEF Keeps, RowType
  <2> HIDE DEF r
  <2> QED
    BY <1>1, <1>2, <2>1, <2>3, PatchPromised
<1>5. CASE Undo(p)
  <2>1. task[p].at = "undo" /\ UNCHANGED <<row, agent, flakes>> /\ (SignOut(p) \/ UNCHANGED binance)
        /\ (Read(p, p, "fail") \/ Go(p, "idle"))
    BY <1>5 DEF Undo, bounds, Done
  <2>2. Still
    BY <2>1 DEF Still
  <2> QED
    BY <1>1, <1>2, <2>1, <2>2, GoPromised, ReadPromised
<1>6. CASE VerifyFailed(p)
  <2>1. task[p].at = "fail" /\ UNCHANGED <<agent, binance, flakes>>
    BY <1>6 DEF VerifyFailed, world, bounds
  <2>2. PICK st \in {"failed", "expired"} : Patch(p, [task[p].row EXCEPT !.st = st], "idle", "idle")
    BY <1>6 DEF VerifyFailed, Last
  <2> DEFINE r == [task[p].row EXCEPT !.st = st]
  <2>3. Keeps(task[p].row, r) /\ r.st = st
    BY <1>1, <2>1, AtWork, StateKeeps
  <2> HIDE DEF r
  <2> QED
    BY <1>1, <1>2, <2>1, <2>2, <2>3, PatchPromised DEF r
<1> QED
  BY <1>3, <1>4, <1>5, <1>6, SignInPromised, ScanPromised, RereadPromised DEF Verify

\* The places where a task needs no more than HireInv says.
Ordinary == Places \ {"staged", "bind", "termed", "left", "revoke"}

LEMMA InOrdinary ==
  {"idle", "code", "facts", "accept", "fence", "stop", "await", "close", "gate", "gated", "refuse", "arm", "thrown",
   "clean", "cleaning", "signout", "cleaned", "end", "leave", "logout", "record", "verify", "drain", "exits", "mark",
   "term", "probe", "status", "rest", "halt", "turn", "settings", "claim", "child"} \subseteq Ordinary
BY DEF Ordinary, Places

LEMMA GoOrdinary ==
  ASSUME HireInv, AgentsInv, Still, NEW t \in Tasks, task[t].at \notin {"idle", "off"}, NEW pc \in Ordinary, Go(t, pc)
  PROVE  Promised
BY GoPromised, Unmarked DEF Ordinary

LEMMA ReadOrdinary ==
  ASSUME HireInv, AgentsInv, Still, NEW t \in Tasks, NEW p \in Pairings, NEW pc \in Ordinary, Read(t, p, pc)
  PROVE  Promised
BY ReadPromised, Unmarked DEF Ordinary

LEMMA PatchOrdinary ==
  ASSUME HireInv, HireInv', AgentsInv, NEW t \in Tasks, task[t].at \notin {"idle", "off"},
         NEW r, Keeps(task[t].row, r), NEW pc \in Ordinary, NEW lost \in Ordinary, Patch(t, r, pc, lost),
         r.st = "bound" => task[t].row.st = "bound", UNCHANGED <<agent, binance, flakes>>
  PROVE  Promised
<1>1. Marked(pc, r, agent[task[t].p]) /\ Marked(lost, task[t].row, agent[task[t].p])
  BY Unmarked DEF Ordinary
<1> QED
  BY <1>1, PatchPromised DEF Ordinary

LEMMA ReadsPromised ==
  ASSUME HireInv, AgentsInv, NEW t \in Tasks, NEW p \in Pairings, Call(t, p) \/ Sweep(t, p) \/ Cycle(t, p) \/ Quote(t, p)
  PROVE  Promised
<1>1. Still
  BY Untouched DEF Call, Sweep, Cycle, Quote, world, bounds
<1>2. ASSUME NEW pc \in Ordinary, Read(t, p, pc) PROVE Promised
  BY <1>1, <1>2, ReadOrdinary
<1>3. CASE Call(t, p)
  BY <1>2, <1>3, InOrdinary DEF Call
<1>4. CASE Cycle(t, p) \/ Quote(t, p)
  BY <1>2, <1>4, InOrdinary DEF Cycle, Quote
<1>5. CASE Sweep(t, p)
  <2>1. CASE row[p].st = "ended" /\ Read(t, p, "revoke")
    <3>1. Marked("revoke", row[p], agent[p])
      BY <2>1 DEF Marked, Serving
    <3> QED
      BY <1>1, <2>1, <3>1, ReadPromised DEF Places
  <2> QED
    BY <1>2, <1>5, <2>1, InOrdinary DEF Sweep
<1> QED
  BY <1>3, <1>4, <1>5

LEMMA CallsPromised ==
  ASSUME HireInv, HireInv', AgentsInv, NEW t \in Tasks, Stop(t) \/ Await(t) \/ Close(t) \/ Finalize(t)
  PROVE  Promised
<1> DEFINE c == task[t].row
<1>1. /\ task[t].at \in {"stop", "await", "close", "facts"} /\ UNCHANGED <<agent, binance, flakes>>
      /\ c \in RowType /\ task[t].p \in Pairings
  <2>1. task[t].at \in {"stop", "await", "close", "facts"} /\ UNCHANGED <<agent, binance, flakes>>
    BY DEF Stop, Await, Close, Finalize, world, bounds
  <2> QED
    BY <2>1, AtWork
<1>2. CASE Stop(t) \/ Await(t)
  <2>1. Still /\ (Go(t, "await") \/ Read(t, task[t].p, "close") \/ Go(t, "idle"))
    BY <1>1, <1>2, Untouched DEF Stop, Await, Reclose, Done
  <2> QED
    BY <1>1, <2>1, InOrdinary, GoOrdinary, ReadOrdinary
<1>3. ASSUME NEW st \in {"failed", "expired", "paired"}, Last(t, [c EXCEPT !.st = st])
      PROVE  Promised
  <2> DEFINE r == [c EXCEPT !.st = st]
  <2>1. Keeps(c, r) /\ r.st = st
    <3>1. st \in States
      BY <1>3 DEF States
    <3> QED
      BY <1>1, <3>1, StateKeeps
  <2>2. Patch(t, r, "idle", "idle")
    BY <1>3 DEF Last
  <2> HIDE DEF r
  <2> QED
    BY <1>1, <2>1, <2>2, InOrdinary, PatchOrdinary
<1>4. CASE Close(t)
  BY <1>3, <1>4 DEF Close
<1>5. CASE Finalize(t)
  <2>1. CASE Go(t, "idle") /\ UNCHANGED row
    BY <1>1, <2>1, Untouched, InOrdinary, GoOrdinary
  <2> QED
    BY <1>3, <1>5, <2>1 DEF Finalize, Done
<1> QED
  BY <1>2, <1>4, <1>5

LEMMA CodePromised ==
  ASSUME HireInv, HireInv', AgentsInv, NEW t \in Tasks, Code(t)
  PROVE  Promised
<1> DEFINE c == task[t].row
           r == [c EXCEPT !.att = @ + 1]
           m == [r EXCEPT !.matched = TRUE]
<1>1. task[t].at = "code" /\ UNCHANGED <<agent, binance, flakes>>
  BY DEF Code, world, bounds
<1>2. c \in RowType /\ c.att < Attempts
  BY <1>1, AtWork DEF Fits
<1>3. c.att + 1 \in 0..Attempts
  BY <1>2 DEF RowType
<1>4. Keeps(c, r) /\ r.st = c.st /\ Keeps(c, m) /\ m.st = c.st
  BY <1>2, <1>3 DEF Keeps, RowType
<1>5. \/ Patch(t, m, "idle", "idle") \/ Patch(t, r, "idle", "idle")
      \/ Patch(t, r, "stop", "idle") \/ Patch(t, r, "clean", "idle")
  BY DEF Code, Last
<1> HIDE DEF r, m
<1> QED
  BY <1>1, <1>4, <1>5, InOrdinary, PatchOrdinary

LEMMA AcceptHirePromised ==
  ASSUME HireInv, HireInv', AgentsInv, NEW t \in Tasks, AcceptHire(t)
  PROVE  Promised
<1> DEFINE c == task[t].row
           r(sell) == [c EXCEPT !.st = "hiring", !.hired = TRUE, !.sell = sell]
<1>1. task[t].at = "accept" /\ UNCHANGED <<agent, binance, flakes>>
  BY DEF AcceptHire, bounds
<1>2. c \in RowType
  BY <1>1, AtWork
<1>3. CASE Go(t, "idle") /\ UNCHANGED row
  BY <1>1, <1>3, Untouched, InOrdinary, GoOrdinary
<1>4. ASSUME Wins(t, r(TRUE)), NEW sell \in BOOLEAN, Store(t, task[t].p, r(sell), "fence")
      PROVE  Promised
  <2> DEFINE x == r(sell)
  <2>1. Keeps(c, x) /\ x.st = "hiring" /\ x.session = c.session /\ x.w = c.w
    BY <1>2 DEF Keeps, RowType, States
  <2>2. r(TRUE).st = "hiring" /\ r(TRUE).session = c.session /\ r(TRUE).w = c.w
    BY <1>2 DEF RowType
  <2>3. Wins(t, x)
    BY <1>4, <2>1, <2>2 DEF Wins, Legal, OnlyHire
  <2>4. Patch(t, x, "fence", "idle")
    BY <1>4, <2>3 DEF Patch
  <2> HIDE DEF x
  <2> QED
    BY <1>1, <2>1, <2>4, InOrdinary, PatchOrdinary
<1> QED
  BY <1>3, <1>4 DEF AcceptHire, Done

LEMMA HirePromised ==
  ASSUME HireInv, HireInv', AgentsInv, NEW t \in Tasks, ResumeHire(t) \/ Gate(t) \/ Gated(t) \/ Refuse(t) \/ Thrown(t)
  PROVE  Promised
<1> DEFINE c == task[t].row
           p == task[t].p
<1>1. task[t].at \in {"fence", "gate", "gated", "refuse", "thrown"} /\ UNCHANGED <<agent, binance, flakes>>
  BY DEF ResumeHire, Gate, Gated, Refuse, Thrown, world, bounds
<1>2. c \in RowType /\ p \in Pairings
  BY <1>1, AtWork
<1>3. ASSUME UNCHANGED row, NEW pc \in Ordinary, Go(t, pc) \/ Read(t, p, pc)
      PROVE  Promised
  BY <1>1, <1>2, <1>3, Untouched, GoOrdinary, ReadOrdinary
<1>4. CASE ResumeHire(t)
  BY <1>3, <1>4, InOrdinary DEF ResumeHire, Busy, Done
<1>5. CASE Gate(t)
  BY <1>3, <1>5, InOrdinary DEF Gate
<1>6. CASE Thrown(t)
  BY <1>3, <1>6, InOrdinary DEF Thrown, Done
<1>7. CASE Gated(t)
  <2> DEFINE r == [c EXCEPT !.facts = TRUE]
  <2>1. Keeps(c, r) /\ r.st = c.st
    BY <1>2 DEF Keeps, RowType
  <2>2. Patch(t, r, "arm", "refuse")
    BY <1>7 DEF Gated
  <2> HIDE DEF r
  <2> QED
    BY <1>1, <2>1, <2>2, InOrdinary, PatchOrdinary
<1>8. CASE Refuse(t)
  <2> DEFINE r == [c EXCEPT !.st = "cleaning"]
  <2>1. Keeps(c, r) /\ r.st = "cleaning"
    BY <1>2, StateKeeps DEF States
  <2>2. Patch(t, r, "thrown", "thrown")
    BY <1>8 DEF Refuse
  <2> HIDE DEF r
  <2> QED
    BY <1>1, <2>1, <2>2, InOrdinary, PatchOrdinary
<1> QED
  BY <1>4, <1>5, <1>6, <1>7, <1>8

\* An agent is created while its hire is gated, or was created before.
LEMMA CreateAgentPromised ==
  ASSUME HireInv, HireInv', AgentsInv, NEW t \in Tasks, CreateAgent(t)
  PROVE  Promised
<1> DEFINE p == task[t].p
<1>1. /\ task[t].at = "arm" /\ Go(t, "staged") /\ UNCHANGED <<row, binance, flakes>>
      /\ agent' = IF agent[p] = None THEN [agent EXCEPT ![p] = "armed"] ELSE agent
  BY DEF CreateAgent, world, bounds
<1>2. p \in Live /\ p \in Pairings /\ row[p] \in RowType /\ RowOK(row[p]) /\ row[p].facts
  BY <1>1, AtWork DEF TaskTrue, Fits, Knows, Follows
<1>3. agent \in [Pairings -> {None, "armed", "revoked"}] /\ agent'[p] # None
      /\ \A q \in Pairings : agent'[q] # agent[q] => agent'[q] = "armed"
  BY <1>1, <1>2 DEF HireInv, Types, WorldTypes
<1>4. Onward
  BY <1>1, <1>3 DEF Onward, Live
<1>5. AgentsInv'
  <2>1. Marked("staged", task[t].row, agent'[p])
    BY <1>3 DEF Marked
  <2> QED
    BY <1>1, <1>4, <2>1, GoMoves DEF Places
<1>6. CASE agent[p] # None
  BY <1>1, <1>5, <1>6, Untouched, StillHires DEF Promised
<1>7. CASE agent[p] = None
  <2>1. row[p].st = "hiring"
    BY <1>2, <1>7 DEF AgentsInv, RowOK, Serving, Active
  <2>2. Stage(p) = "gated"
    BY <1>2, <2>1, StageWorth DEF Worth, Live
  <2>3. UNCHANGED [q \in Pairings |-> Stage(q)] /\ UNCHANGED [q \in Pairings |-> IF Hiring(q) THEN row[q].w ELSE None]
    BY <1>1 DEF Stage, Hiring
  <2>4. Hires!Arm(p)
    BY <1>1, <1>2, <1>7, <2>2, <2>3, SameSessions DEF Hires!Arm
  <2> QED
    BY <1>2, <1>5, <2>4 DEF Promised, HiresStep, Hires!Next
<1> QED
  BY <1>6, <1>7

LEMMA BindPromised ==
  ASSUME HireInv, HireInv', AgentsInv, NEW t \in Tasks, Staged(t) \/ Bind(t)
  PROVE  Promised
<1> DEFINE c == task[t].row
<1>1. task[t].at \in {"staged", "bind"} /\ UNCHANGED <<agent, binance, flakes>>
  BY DEF Staged, Bind, world, bounds
<1>2. c \in RowType /\ agent[task[t].p] # None
  BY <1>1, AtWork DEF AgentsInv, Served
<1>3. \A x : Marked("bind", x, agent[task[t].p]) /\ Marked("thrown", x, agent[task[t].p])
  BY <1>2 DEF Marked
<1>4. CASE Staged(t)
  <2>1. Patch(t, c, "bind", "thrown")
    BY <1>4 DEF Staged
  <2>2. Keeps(c, c)
    BY <1>2 DEF Keeps
  <2>3. "bind" \in Places /\ "thrown" \in Places
    BY DEF Places
  <2>4. c.st = "bound" /\ c.st # "bound" => FALSE
    OBVIOUS
  <2> HIDE DEF c
  <2> QED
    BY <1>1, <1>3, <2>1, <2>2, <2>3, <2>4, PatchPromised DEF c
<1>5. CASE Bind(t)
  <2> DEFINE r == [c EXCEPT !.st = "bound"]
  <2>1. Keeps(c, r)
    BY <1>2, StateKeeps DEF States
  <2>2. Patch(t, r, "thrown", "thrown") /\ task[t].at = "bind"
    BY <1>5 DEF Bind
  <2> HIDE DEF r
  <2>3. "thrown" \in Places
    BY DEF Places
  <2> QED
    BY <1>1, <1>3, <2>1, <2>2, <2>3, PatchPromised
<1> QED
  BY <1>4, <1>5

LEMMA CleaningPromised ==
  ASSUME HireInv, HireInv', AgentsInv, NEW t \in Tasks, Clean(t) \/ CleanFence(t) \/ CleanSignOut(t) \/ Cleaned(t)
  PROVE  Promised
<1> DEFINE c == task[t].row
           p == task[t].p
<1>1. /\ task[t].at \in {"clean", "cleaning", "signout", "cleaned"} /\ UNCHANGED <<agent, flakes>>
      /\ UNCHANGED binance \/ SignOut(p)
  BY DEF Clean, CleanFence, CleanSignOut, Cleaned, world, bounds
<1>2. c \in RowType /\ p \in Pairings
  BY <1>1, AtWork
<1>3. ASSUME UNCHANGED row, NEW pc \in Ordinary, Go(t, pc)
      PROVE  Promised
  <2>1. Still
    BY <1>1, <1>2, <1>3 DEF Still
  <2> QED
    BY <1>1, <1>3, <2>1, GoOrdinary
<1>4. CASE CleanFence(t)
  BY <1>3, <1>4, InOrdinary DEF CleanFence, Busy, Done
<1>5. CASE CleanSignOut(t)
  BY <1>3, <1>5, InOrdinary DEF CleanSignOut
<1>6. CASE Clean(t)
  <2> DEFINE r == [c EXCEPT !.st = "cleaning"]
  <2>1. Keeps(c, r) /\ r.st = "cleaning"
    BY <1>2, StateKeeps DEF States
  <2>2. UNCHANGED binance /\ (Patch(t, r, "cleaning", "idle") \/ (Go(t, "cleaning") /\ UNCHANGED row))
    BY <1>6 DEF Clean, world
  <2> HIDE DEF r
  <2> QED
    BY <1>1, <1>3, <2>1, <2>2, InOrdinary, PatchOrdinary
<1>7. CASE Cleaned(t)
  <2>1. PICK st \in {"failed", "expired"} : Patch(t, [c EXCEPT !.st = st, !.session = FALSE], "idle", "idle")
    BY <1>7 DEF Cleaned, Last
  <2> DEFINE r == [c EXCEPT !.st = st, !.session = FALSE]
  <2>2. st \in States /\ st # "bound" /\ UNCHANGED binance
    BY <1>7, <2>1 DEF States, Cleaned, world
  <2>3. Keeps(c, r) /\ r.st = st
    BY <1>2, <2>2 DEF Keeps, RowType
  <2>4. Patch(t, r, "idle", "idle")
    BY <2>1
  <2> HIDE DEF r
  <2> QED
    BY <1>1, <2>2, <2>3, <2>4, InOrdinary, PatchOrdinary
<1> QED
  BY <1>4, <1>5, <1>6, <1>7

\* An agent is revoked, and no row is written.
LEMMA RevokePromised ==
  ASSUME HireInv, AgentsInv, UNCHANGED <<row, binance, flakes>>, NEW p \in Live, row[p].st \in Serving, Revoke(p)
  PROVE  Onward /\ HiresStep
<1>1. agent \in [Pairings -> {None, "armed", "revoked"}] /\ p \in Pairings /\ row[p] # None
  BY DEF HireInv, Types, WorldTypes, Live
<1>2. Onward
  BY <1>1 DEF Onward, Live, Revoke
<1>3. UNCHANGED [q \in Pairings |-> Stage(q)] /\ UNCHANGED [q \in Pairings |-> IF Hiring(q) THEN row[q].w ELSE None]
  BY DEF Stage, Hiring
<1>4. CASE agent[p] = "armed"
  <2>1. Stage(p) \in {"bound", "ending", "over"}
    BY <1>1, StageWorth DEF Worth, Serving
  <2>2. Hires!Revoke(p)
    BY <1>1, <1>3, <1>4, <2>1, SameSessions DEF Hires!Revoke, Hires!Revoked, Revoke
  <2> QED
    BY <1>1, <1>2, <2>2 DEF HiresStep, Hires!Next
<1>5. CASE agent[p] # "armed"
  BY <1>2, <1>5, Untouched, StillHires DEF Revoke
<1> QED
  BY <1>4, <1>5

LEMMA RevokesPromised ==
  ASSUME HireInv, HireInv', AgentsInv, NEW t \in Tasks, RevokeEnded(t) \/ RevokeLeft(t)
  PROVE  Promised
<1> DEFINE p == task[t].p
<1>1. /\ task[t].at \in {"termed", "left", "revoke"} /\ UNCHANGED <<row, binance, flakes>> /\ Revoke(p)
      /\ Go(t, "idle") \/ Go(t, "rest") \/ Go(t, "probe")
  BY DEF RevokeEnded, RevokeLeft, Done, world, bounds
<1>2. p \in Live /\ row[p].st \in Serving
  BY <1>1, AtWork DEF AgentsInv, Served
<1>3. Onward /\ HiresStep
  BY <1>1, <1>2, RevokePromised
<1>4. \A pc \in {"idle", "rest", "probe"} : pc \in Places /\ Marked(pc, task[t].row, agent'[p])
  BY Unmarked DEF Places
<1> QED
  BY <1>1, <1>3, <1>4, GoMoves DEF Promised

\* A hire that ends with the maximum time of its session is over and revoked at once.
LEMMA EndingPromised ==
  ASSUME HireInv, HireInv', AgentsInv, NEW t \in Tasks, Ending(t)
  PROVE  Promised
<1> DEFINE p == task[t].p
           c == task[t].row
           r == Ended(c)
<1>1. task[t].at = "end" /\ UNCHANGED <<binance, flakes>> /\ Revoke(p)
  BY DEF Ending, world, bounds
<1>2. p \in Live /\ p \in Pairings /\ c \in RowType /\ c.st = "ending" /\ row[p].st \in Serving
  BY <1>1, AtWork DEF TaskTrue, Fits, Knows, Follows, Leaving, Serving
<1>3. \A pc \in {"idle", "leave"} : \A x, y : pc \in Places /\ Marked(pc, x, y)
  BY Unmarked DEF Places
<1>4. ASSUME UNCHANGED row, NEW pc \in {"idle", "leave"}, Go(t, pc)
      PROVE  Promised
  <2>1. Onward /\ HiresStep
    BY <1>1, <1>2, <1>4, RevokePromised
  <2> QED
    BY <1>1, <1>3, <1>4, <2>1, GoMoves DEF Promised
<1>5. ASSUME Wins(t, r), Store(t, p, r, "idle")
      PROVE  Promised
  <2>1. Keeps(c, r) /\ r.st = "ended"
    BY <1>2 DEF Ended, Keeps, RowType, States
  <2>2. row' = [row EXCEPT ![p] = r] /\ r \in RowType
    BY <1>5, <2>1 DEF Store, Keeps
  <2> HIDE DEF r
  <2>3. /\ row[p].st = c.st /\ row[p].facts = c.facts /\ Legal(row[p], r) /\ OnlyHire(p, r)
        /\ r.w = row[p].w \/ r.st \notin Active
    BY <1>1, <1>5, <2>1, WriterKnows
  <2>4. Onward
    BY <1>1, <1>2, <2>1, <2>2, <2>3, WriteOnward
  <2>5. AgentsInv'
    BY <1>1, <1>3, <1>5, <2>2, <2>4, StoreMoves
  <2>6. UNCHANGED agent \/ Revoke(p)
    BY <1>1
  <2>7. flakes' \in {flakes, flakes + 1} /\ row[p].st # "ended"
    BY <1>1, <1>2, <2>3
  <2>8. r.facts = row[p].facts \/ (~row[p].facts /\ r.st = row[p].st)
    BY <2>1, <2>3 DEF Keeps
  <2>9. HiresStep
    BY <1>1, <1>2, <2>1, <2>2, <2>3, <2>6, <2>7, <2>8, WriteStep
  <2> QED
    BY <2>5, <2>9 DEF Promised
<1>6. CASE age[p] >= 4
  BY <1>4, <1>5, <1>6 DEF Ending, Last, Patch
<1>7. CASE ~(age[p] >= 4)
  BY <1>4, <1>7 DEF Ending
<1> QED
  BY <1>6, <1>7

LEMMA LeavePromised ==
  ASSUME HireInv, HireInv', AgentsInv, NEW t \in Tasks, Leave(t)
  PROVE  Promised
<1> DEFINE c == task[t].row
           p == task[t].p
<1>1. ASSUME task[t].at \in {"leave", "logout", "record", "verify"}
      PROVE  c \in RowType /\ p \in Pairings /\ c.st = "ending" /\ flakes \in Nat
  BY <1>1, AtWork DEF Fits, HireInv, Types, WorldTypes
<1>2. CASE LeaveFence(t)
  <2>1. task[t].at = "leave" /\ Still
    BY <1>2, Untouched DEF LeaveFence, world, bounds
  <2>2. Go(t, "idle") \/ Read(t, p, "logout")
    BY <1>2 DEF LeaveFence, Busy, Done
  <2> QED
    BY <1>1, <2>1, <2>2, InOrdinary, GoOrdinary, ReadOrdinary
<1>3. CASE LogOut(t)
  <2>1. /\ task[t].at = "logout" /\ UNCHANGED <<row, agent, flakes>> /\ (UNCHANGED binance \/ SignOut(p))
        /\ Go(t, "idle") \/ Go(t, "record")
    BY <1>3 DEF LogOut, bounds, Done
  <2>2. Still
    BY <1>1, <2>1 DEF Still
  <2> QED
    BY <2>1, <2>2, InOrdinary, GoOrdinary
<1>4. CASE Record(t)
  <2> DEFINE r == [c EXCEPT !.logout = TRUE]
  <2>1. task[t].at = "record" /\ UNCHANGED <<agent, binance, flakes>> /\ Patch(t, r, "verify", "idle")
    BY <1>4 DEF Record, world, bounds
  <2>2. Keeps(c, r) /\ r.st = c.st
    BY <1>1, <2>1 DEF Keeps, RowType
  <2> HIDE DEF r
  <2> QED
    BY <2>1, <2>2, InOrdinary, PatchOrdinary
<1>5. CASE VerifyOut(t)
  <2>1. task[t].at = "verify" /\ UNCHANGED <<agent, binance>>
    BY <1>5 DEF VerifyOut, world
  <2>2. c \in RowType /\ c.st = "ending"
    BY <1>1, <2>1
  <2>3. \A x, y : Marked("idle", x, y) /\ "idle" \in Places
    BY Unmarked DEF Places
  <2>4. ASSUME NEW s, Reading(p, s), Last(t, IF s = "U" THEN Ended(c) ELSE c)
        PROVE  Promised
    <3>1. flakes' = flakes \/ (s = "U" /\ flakes' = flakes + 1)
      BY <2>4 DEF Reading
    <3>2. CASE s = "U"
      <4> DEFINE r == Ended(c)
      <4>1. Keeps(c, r) /\ r.st = "ended"
        BY <2>2 DEF Ended, Keeps, RowType, States
      <4>2. Patch(t, r, "idle", "idle")
        BY <2>4, <3>2 DEF Last
      <4> HIDE DEF r
      <4>3. r.st = "ended" /\ c.st # "ended" /\ flakes' \in {flakes, flakes + 1} /\ r.st # "bound"
        BY <2>2, <3>1, <4>1
      <4> QED
        BY <2>1, <2>3, <4>1, <4>2, <4>3, PatchPromised
    <3>3. CASE s # "U"
      <4>1. Patch(t, c, "idle", "idle") /\ UNCHANGED flakes
        BY <2>4, <3>1, <3>3 DEF Last
      <4>2. Keeps(c, c)
        BY <2>2 DEF Keeps
      <4> QED
        BY <2>1, <2>3, <4>1, <4>2, PatchPromised
    <3> QED
      BY <3>2, <3>3
  <2>5. CASE Holds(t)
    BY <1>5, <2>4, <2>5 DEF VerifyOut
  <2>6. CASE ~Holds(t)
    <3>1. Go(t, "idle") /\ UNCHANGED <<row, flakes>>
      BY <1>5, <2>6 DEF VerifyOut, Done
    <3> QED
      BY <2>1, <3>1, Untouched, InOrdinary, GoOrdinary
  <2> QED
    BY <2>5, <2>6
<1> QED
  BY <1>2, <1>3, <1>4, <1>5, EndingPromised, RevokesPromised DEF Leave

LEMMA CyclePromised ==
  ASSUME HireInv, HireInv', AgentsInv, NEW t \in Tasks,
         Drain(t) \/ Exits(t) \/ Mark(t) \/ TermEnd(t) \/ Probe(t) \/ Rest(t) \/ StopLoss(t) \/ Turn(t)
  PROVE  Promised
<1> DEFINE c == task[t].row
           p == task[t].p
<1>1. /\ task[t].at \in {"drain", "exits", "mark", "term", "probe", "rest", "halt", "turn"}
      /\ UNCHANGED <<agent, binance, flakes>>
  BY DEF Drain, Exits, Mark, TermEnd, Probe, Rest, StopLoss, Turn, world, bounds
<1>2. c \in RowType /\ p \in Pairings
  BY <1>1, AtWork
<1>3. ASSUME UNCHANGED row, NEW pc \in Ordinary, Go(t, pc) \/ Read(t, p, pc)
      PROVE  Promised
  BY <1>1, <1>2, <1>3, Untouched, GoOrdinary, ReadOrdinary
<1>4. CASE Drain(t)
  BY <1>3, <1>4, InOrdinary DEF Drain
<1>5. CASE Exits(t)
  BY <1>3, <1>5, InOrdinary DEF Exits
<1>6. CASE Mark(t)
  <2> DEFINE r == [c EXCEPT !.drain = TRUE]
  <2>1. Keeps(c, r) /\ r.st = c.st
    BY <1>2 DEF Keeps, RowType
  <2>2. Patch(t, r, "term", "term")
    BY <1>6 DEF Mark
  <2> HIDE DEF r
  <2> QED
    BY <1>1, <2>1, <2>2, InOrdinary, PatchOrdinary
<1>7. CASE TermEnd(t)
  <2> DEFINE r == [c EXCEPT !.st = "ending"]
  <2>1. CASE c.st = "bound" /\ Patch(t, r, "termed", "termed")
    <3>1. Keeps(c, r) /\ r.st = "ending"
      BY <1>2, StateKeeps DEF States
    <3>2. Patch(t, r, "termed", "termed") /\ "termed" \in Places
      BY <2>1 DEF Places
    <3> HIDE DEF r
    <3>3. \A x : Marked("termed", r, x) /\ Marked("termed", c, x)
      BY <2>1, <3>1 DEF Marked, Serving
    <3> QED
      BY <1>1, <3>1, <3>2, <3>3, PatchPromised
  <2>2. CASE Go(t, "probe") /\ UNCHANGED row
    BY <1>3, <2>2, InOrdinary
  <2> QED
    BY <1>7, <2>1, <2>2 DEF TermEnd
<1>8. CASE Probe(t)
  BY <1>3, <1>8, InOrdinary DEF Probe
<1>9. CASE Rest(t)
  BY <1>3, <1>9, InOrdinary DEF Rest
<1>10. CASE StopLoss(t)
  <2> DEFINE r == [c EXCEPT !.st = "ending", !.why = "stop-loss"]
  <2>1. CASE Wins(t, r)
    <3>1. Keeps(c, r) /\ r.st = "ending"
      BY <1>2 DEF Keeps, RowType, States
    <3>2. Patch(t, r, "turn", "turn")
      BY <1>10, <2>1 DEF StopLoss, Patch
    <3> HIDE DEF r
    <3> QED
      BY <1>1, <3>1, <3>2, InOrdinary, PatchOrdinary
  <2>2. CASE ~Wins(t, r)
    BY <1>3, <1>10, <2>2, InOrdinary DEF StopLoss
  <2> QED
    BY <2>1, <2>2
<1>11. CASE Turn(t)
  <2>1. UNCHANGED row /\ (Go(t, "end") \/ (c.st = "ended" /\ Go(t, "revoke")) \/ Go(t, "idle"))
    BY <1>11 DEF Turn
  <2>2. CASE c.st = "ended" /\ Go(t, "revoke")
    <3>1. \A x : Marked("revoke", c, x)
      BY <2>2 DEF Marked, Serving
    <3> QED
      BY <1>1, <2>1, <2>2, <3>1, Untouched, GoPromised DEF Places
  <2> QED
    BY <1>3, <2>1, <2>2, InOrdinary
<1> QED
  BY <1>4, <1>5, <1>6, <1>7, <1>8, <1>9, <1>10, <1>11

\* A reading costs at most one wrong answer, and only "U" may be wrong.
LEMMA ReadingWrong ==
  ASSUME NEW p, NEW s, Reading(p, s)
  PROVE  flakes' = flakes \/ (s = "U" /\ flakes' = flakes + 1)
BY DEF Reading

LEMMA StatusPromised ==
  ASSUME HireInv, HireInv', AgentsInv, NEW t \in Tasks, Status(t)
  PROVE  Promised
<1> DEFINE c == task[t].row
           p == task[t].p
           over == [c EXCEPT !.st = "ended", !.session = FALSE, !.why = "owner-signed-out"]
           seen(gone) == [c EXCEPT !.u = gone]
<1>1. task[t].at = "status" /\ UNCHANGED <<agent, binance>>
  BY DEF Status, world
<1>2. c \in RowType
  BY <1>1, AtWork
<1>3. \A x, y : Marked("rest", x, y)
  BY Unmarked
<1>4. "rest" \in Places /\ "left" \in Places
  BY DEF Places
<1>5. CASE Go(t, "rest") /\ UNCHANGED <<row, flakes>>
  BY <1>1, <1>5, Untouched, InOrdinary, GoOrdinary
<1>6. ASSUME NEW s, Reading(p, s), c.st = "bound", Patch(t, over, "left", "left")
      PROVE  Promised
  <2> DEFINE r == over
  <2>1. Keeps(c, r) /\ r.st = "ended"
    BY <1>2 DEF Keeps, RowType, States
  <2>2. Patch(t, r, "left", "left")
    BY <1>6
  <2> HIDE DEF r
  <2>3. \A x : Marked("left", r, x) /\ Marked("left", c, x)
    BY <1>6, <2>1 DEF Marked, Serving
  <2>4. flakes' \in {flakes, flakes + 1}
    BY <1>6, ReadingWrong
  <2> QED
    BY <1>1, <1>4, <1>6, <2>1, <2>2, <2>3, <2>4, PatchPromised
<1>7. ASSUME NEW s, Reading(p, s), NEW gone \in BOOLEAN, Patch(t, seen(gone), "rest", "rest")
      PROVE  Promised
  <2> DEFINE r == seen(gone)
  <2>1. Keeps(c, r) /\ r.st = c.st /\ r.facts = c.facts
    BY <1>2 DEF Keeps, RowType
  <2>2. Patch(t, r, "rest", "rest")
    BY <1>7
  <2> HIDE DEF r
  <2>3. flakes' = flakes \/ flakes' = flakes + 1
    BY <1>7, ReadingWrong
  <2> QED
    BY <1>1, <1>3, <1>4, <2>1, <2>2, <2>3, PatchPromised
<1>8. \/ Go(t, "rest") /\ UNCHANGED <<row, flakes>>
      \/ \E s : Reading(p, s) /\ c.st = "bound" /\ Patch(t, over, "left", "left")
      \/ \E s : Reading(p, s) /\ Patch(t, seen(s = "U"), "rest", "rest")
  BY DEF Status
<1>9. \A s : (s = "U") \in BOOLEAN
  OBVIOUS
<1> QED
  BY <1>5, <1>6, <1>7, <1>8, <1>9

LEMMA WorkPromised ==
  ASSUME HireInv, HireInv', AgentsInv, NEW t \in Tasks, Work(t)
  PROVE  Promised
BY CyclePromised, StatusPromised, LeavePromised, RevokesPromised DEF Work

LEMMA ServePromised ==
  ASSUME HireInv, HireInv', AgentsInv, NEW t \in Tasks, Serve(t)
  PROVE  Promised
BY CallsPromised, CodePromised, AcceptHirePromised, HirePromised, CreateAgentPromised, BindPromised,
   CleaningPromised, LeavePromised DEF Serve

LEMMA TradePromised ==
  ASSUME HireInv, HireInv', AgentsInv, NEW t \in Tasks, Trade(t)
  PROVE  Promised
<1> DEFINE c == task[t].row
           p == task[t].p
           next == [c EXCEPT !.u = TRUE]
<1>1. CASE Settings(t)
  <2>1. task[t].at = "settings" /\ UNCHANGED <<agent, binance>>
    BY <1>1 DEF Settings
  <2>2. c \in RowType
    BY <2>1, AtWork
  <2>3. PICK s \in {"U", "connected", "unreachable"} :
          /\ Reading(p, s)
          /\ \/ s # "U" /\ UNCHANGED row /\ (Go(t, "claim") \/ Go(t, "idle"))
             \/ s = "U" /\ Patch(t, next, "idle", "idle")
    BY <1>1 DEF Settings, Last, Done
  <2>4. CASE s # "U"
    <3>1. Still
      BY <2>1, <2>3, <2>4, ReadingWrong, Untouched
    <3> QED
      BY <2>1, <2>3, <2>4, <3>1, InOrdinary, GoOrdinary
  <2>5. CASE s = "U"
    <3> DEFINE r == next
    <3>1. Keeps(c, r) /\ r.st = c.st /\ r.facts = c.facts
      BY <2>2 DEF Keeps, RowType
    <3>2. Patch(t, r, "idle", "idle")
      BY <2>3, <2>5
    <3> HIDE DEF r
    <3>3. flakes' = flakes \/ flakes' = flakes + 1
      BY <2>3, ReadingWrong
    <3>4. \A x, y : Marked("idle", x, y) /\ "idle" \in Places
      BY Unmarked DEF Places
    <3> QED
      BY <2>1, <3>1, <3>2, <3>3, <3>4, PatchPromised
  <2> QED
    BY <2>4, <2>5
<1>2. CASE Claim(t) \/ ChildEnds(t)
  <2>1. /\ task[t].at \in {"claim", "child"} /\ UNCHANGED <<row, agent, binance, flakes>>
        /\ Go(t, "child") \/ Go(t, "idle")
    BY <1>2 DEF Claim, ChildEnds, Done, bounds
  <2> QED
    BY <2>1, Untouched, InOrdinary, GoOrdinary
<1> QED
  BY <1>1, <1>2 DEF Trade

\* The world's own steps.
LEMMA WorldPromised ==
  ASSUME HireInv, AgentsInv, NEW p \in Pairings, Resolve(p) \/ Tick(p) \/ Minute(p) \/ OwnerSignsOut(p) \/ Touch(p)
  PROVE  Promised
<1>1. Still
  BY DEF Still, Resolve, Tick, Minute, OwnerSignsOut, Touch, world, bounds
<1>2. ASSUME NEW s \in Tasks PROVE Stays(s)
  <2>1. task[s] \in TaskType /\ (task'[s] = task[s] \/ task'[s] = [task[s] EXCEPT !.fresh = FALSE])
    BY DEF Resolve, Tick, Minute, OwnerSignsOut, Touch, HireInv, Types
  <2> QED
    BY <2>1 DEF Stays, TaskType
<1> QED
  BY <1>1, <1>2, StillHires, AgentsKept DEF Promised

LEMMA LapsePromised ==
  ASSUME HireInv, AgentsInv, NEW w, Lapse(w)
  PROVE  Promised
<1>1. Still /\ \A s \in Tasks : Stays(s)
  BY Untouched DEF Lapse, world, bounds, Stays
<1> QED
  BY <1>1, StillHires, AgentsKept DEF Promised

LEMMA DeathMoves ==
  ASSUME HireInv, AgentsInv, Onward, NEW S, Dies(S)
  PROVE  AgentsInv'
<1>1. \A s \in Tasks : Stays(s) \/ Knowing(s)
  BY IdleType DEF Dies, Stays, Knowing
<1> QED
  BY <1>1, AgentsKept

LEMMA WorkerDiesPromised ==
  ASSUME HireInv, AgentsInv, NEW t, WorkerDies(t)
  PROVE  Promised
<1>1. Still /\ Dies({t})
  BY Untouched DEF WorkerDies, world
<1> QED
  BY <1>1, StillHires, DeathMoves DEF Promised

\* A restart closes every pairing that waited.
LEMMA ApiRestartsPromised ==
  ASSUME HireInv, HireInv', AgentsInv, ApiRestarts
  PROVE  Promised
<1>1. /\ Dies(Api) /\ UNCHANGED <<agent, binance, flakes>>
      /\ row' = [p \in Pairings |-> IF p \in Live /\ row[p].st = "waiting" THEN [row[p] EXCEPT !.st = "expired"] ELSE row[p]]
  BY DEF ApiRestarts, world
<1>2. row \in [Pairings -> RowType \cup {None}]
  BY DEF HireInv, Types
<1>3. PICK P \in SUBSET Pairings : P = {p \in Pairings : p \in Live /\ row[p].st = "waiting"}
  OBVIOUS
<1>4. ASSUME NEW q \in P
      PROVE  q \in Pairings /\ row[q] # None /\ row[q].st = "waiting" /\ row'[q] # None /\ row'[q].st = "expired"
  <2>1. row[q] \in RowType /\ row[q].st = "waiting" /\ row'[q] = [row[q] EXCEPT !.st = "expired"]
    BY <1>1, <1>2, <1>3 DEF Live
  <2>2. row'[q] \in RowType /\ row'[q].st = "expired"
    BY <2>1 DEF RowType, States
  <2> QED
    BY <2>1, <2>2
<1>5. \A q \in Pairings \ P : row'[q] = row[q]
  BY <1>1, <1>3
<1>6. Onward
  <2>1. \A q \in Live : row'[q] # None /\ (row[q].st \in Serving => row'[q].st \in Serving)
    BY <1>4, <1>5 DEF Live, Serving
  <2>2. \A q \in Pairings : row'[q] # None /\ row'[q].st \in Serving => q \in Live /\ row[q].st \in Serving
    BY <1>4, <1>5 DEF Live, Serving
  <2> QED
    BY <1>1, <2>1, <2>2 DEF Onward
<1>7. \A q \in P : Stage(q) = "open" /\ Stage(q)' = "closed" /\ Own(q) = None /\ Own(q)' = None
  BY <1>4, StageWorth DEF Worth, Over, Own, Hiring, Active
<1>8. \A q \in Pairings \ P : Stage(q)' = Stage(q) /\ Own(q)' = Own(q)
  BY <1>5 DEF Stage, Own, Hiring
<1>9. Hires!Close(P)
  <2>1. [q \in Pairings |-> Stage(q)]' = [q \in Pairings |-> IF q \in P THEN "closed" ELSE [x \in Pairings |-> Stage(x)][q]]
    BY <1>7, <1>8
  <2>2. [q \in Pairings |-> Own(q)'] = [q \in Pairings |-> IF q \in P THEN None ELSE [x \in Pairings |-> Own(x)][q]]
    BY <1>7, <1>8
  <2>3. \A q \in P : [x \in Pairings |-> Stage(x)][q] \in {"open", "hired"}
    BY <1>3, <1>7
  <2> QED
    BY <1>1, <2>1, <2>2, <2>3, OwnWallets, SameSessions DEF Hires!Close
<1>10. AgentsInv'
  BY <1>1, <1>6, DeathMoves
<1>11. HiresStep
  BY <1>9 DEF HiresStep, Hires!Next
<1> QED
  BY <1>10, <1>11 DEF Promised

LEMMA HiresNext ==
  ASSUME HireInv, HireInv', AgentsInv, [Next]_vars
  PROVE  Promised
<1>1. Routes \subseteq Tasks /\ Sweepers \subseteq Tasks /\ Workers \subseteq Tasks /\ Traders \subseteq Tasks
  BY DEF Tasks, Api
<1>2. ASSUME NEW p \in Pairings,
             Create(p) \/ Verify(p) \/ Resolve(p) \/ Tick(p) \/ Minute(p) \/ OwnerSignsOut(p) \/ Touch(p)
      PROVE  Promised
  BY <1>2, CreatePromised, VerifyPromised, WorldPromised
<1>3. ASSUME NEW t \in Routes, Serve(t) \/ \E p \in Pairings : Call(t, p) PROVE Promised
  BY <1>1, <1>3, ServePromised, ReadsPromised
<1>4. ASSUME NEW t \in Sweepers, Serve(t) \/ \E p \in Pairings : Sweep(t, p) PROVE Promised
  BY <1>1, <1>4, ServePromised, ReadsPromised
<1>5. ASSUME NEW t \in Workers, Work(t) \/ WorkerDies(t) \/ \E p \in Pairings : Cycle(t, p) PROVE Promised
  BY <1>1, <1>5, WorkPromised, WorkerDiesPromised, ReadsPromised
<1>6. ASSUME NEW t \in Traders, Trade(t) \/ WorkerDies(t) \/ \E p \in Pairings : Quote(t, p) PROVE Promised
  BY <1>1, <1>6, TradePromised, WorkerDiesPromised, ReadsPromised
<1>7. CASE UNCHANGED vars
  <2>1. Still /\ \A s \in Tasks : Stays(s)
    BY <1>7, Untouched DEF vars, Stays
  <2> QED
    BY <2>1, StillHires, AgentsKept DEF Promised
<1>8. CASE Next
  BY <1>2, <1>3, <1>4, <1>5, <1>6, <1>8, LapsePromised, ApiRestartsPromised DEF Next
<1> QED
  BY <1>7, <1>8

LEMMA HiresInit == Init => AgentsInv /\ Hires!Init
<1> SUFFICES ASSUME Init PROVE AgentsInv /\ Hires!Init
  OBVIOUS
<1>1. /\ row = [p \in Pairings |-> None] /\ task = [t \in Tasks |-> Idle] /\ agent = [p \in Pairings |-> None]
      /\ binance = [p \in Pairings |-> "none"] /\ flakes = 0 /\ Live = {}
  BY DEF Init, Live
<1>2. AgentsInv
  BY <1>1, IdleType DEF AgentsInv
<1>3. \A p \in Pairings : Stage(p) = "none" /\ Own(p) = None
  BY <1>1, StageWorth DEF Worth, Own, Hiring
<1>4. Hires!Init
  BY <1>1, <1>3, OwnWallets DEF Hires!Init
<1> QED
  BY <1>2, <1>4

\* A hire is bound with an agent, which is revoked only then, as far as the rows
\* and every task's copy of them can tell.
THEOREM AgentsInvariant == Spec => []AgentsInv
<1>1. HireInv /\ HireInv' /\ AgentsInv /\ [Next]_vars => AgentsInv'
  BY HiresNext DEF Promised
<1> QED
  BY <1>1, HiresInit, HireInvariant, PTL DEF Spec

\* Every step of the API, of a worker, of Binance or of a crash is at most one step
\* of the promised hires.
THEOREM HireStepsAlways == Spec => ImplementsHires
<1>1. HireInv /\ HireInv' /\ AgentsInv /\ [Next]_vars => [Hires!Next]_(Hires!hires)
  BY HiresNext DEF Promised, HiresStep
<1> QED
  BY <1>1, HireInvariant, AgentsInvariant, PTL DEF Spec, ImplementsHires

\* AgenticHire implements WalletHires.
THEOREM HireImplementsHires == Spec => Hires!Spec
<1>1. HireInv /\ HireInv' /\ AgentsInv /\ [Next]_vars => [Hires!Next]_(Hires!hires)
  BY HiresNext DEF Promised, HiresStep
<1> QED
  BY <1>1, HiresInit, HireInvariant, AgentsInvariant, PTL DEF Spec, Hires!Spec
=============================================================================
