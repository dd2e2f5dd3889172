------------------------ MODULE IdentityMinterProofs ------------------------
(***************************************************************************)
(* Proofs about IdentityMinter, for every set of agents and processes,     *)
(* every limit, lost sessions, crashes, reorganisations and other users of *)
(* the key included.  A recorded transaction never changes but for its     *)
(* outcome, and what is final on the chain stays: a fact about either is   *)
(* still true when a process that has long lost the lock uses it.          *)
(***************************************************************************)
EXTENDS IdentityMinter, TLAPS

-----------------------------------------------------------------------------
(* The invariant.                                                          *)

\* A transaction that is the one of its row.
Known(t) == t.key \in Recorded /\ t = Tx(t.key)

\* A recorded transaction with that id is final on the chain.
Final(k, id) == k \in Recorded /\ OnChain(k, id)

\* What a job, or a copy of it that a process still holds, says of the chain.
JobFinal(a, j) ==
  /\ j.minted # None => Final(<<a, "register">>, j.minted)
  /\ j.status = "registered" => Final(<<a, "update">>, None)

LedgerInv ==
  /\ \A k \in Recorded : jobs[k[1]] # None
  /\ \A a \in Enrolled : JobFinal(a, jobs[a])

SourceInv == \A a \in Agents : source[a].existing # None =>
  Final(<<a, "register">>, source[a].existing) /\ Final(<<a, "update">>, None)

\* Only a registration that succeeded has an id.
ChainInv ==
  /\ \A t \in Published : Known(t)
  /\ \A i \in DOMAIN chain.mined : chain.mined[i].tx # None =>
       ((chain.mined[i].id # None) <=> (chain.mined[i].tx.key[2] = "register" /\ chain.mined[i].out = "success"))

\* The steps at which a process works on a job, has a transaction in hand.
OnJob == {"shrink", "quote", "sign", "broadcast", "receipt", "nonces", "judge", "mint", "settle", "project", "project-blocked"}
InHand == {"broadcast", "receipt", "nonces", "judge", "mint", "settle"}

\* A receipt a process judged is the final one of its transaction.
SeenFinal(p) ==
  /\ task[p].seen.pos \in 1 .. chain.final /\ chain.mined[task[p].seen.pos] = task[p].seen.entry
  /\ task[p].seen.entry.out = "success"

\* What a process remembers.
TaskFacts(p) ==
  /\ task[p].at \in OnJob => task[p].job # None
  /\ task[p].at \in {"block", "reread"} => task[p].a \in Enrolled
  /\ task[p].at = "block" => task[p].code # None
  /\ task[p].at \in InHand => task[p].tx # None
  /\ task[p].at = "sign" => task[p].quote # None
  /\ task[p].job # None => task[p].a \in Enrolled /\ JobFinal(task[p].a, task[p].job)
  /\ task[p].tx # None => task[p].a \in Enrolled /\ Known(task[p].tx) /\ task[p].tx.key[1] = task[p].a
  /\ task[p].at \in {"judge", "mint", "settle"} => task[p].seen # None /\ task[p].seen.pos > 0 /\ task[p].seen.entry.tx = task[p].tx
  /\ task[p].at \in {"mint", "settle"} => SeenFinal(p)
  /\ task[p].at = "mint" => task[p].tx.key[2] = "register"
TasksInv == \A p \in Procs : TaskFacts(p)

\* Together they are kept by every step.
MinterInv == TypeOK /\ LedgerInv /\ SourceInv /\ ChainInv /\ TasksInv
-----------------------------------------------------------------------------
(* What stays: recorded transactions, the final chain, enrolled agents.    *)

USE MinterAssumption, NullAssumption

Grows ==
  /\ \A k \in Recorded : k \in Recorded' /\ Tx(k)' = Tx(k)
  /\ chain.final <= chain'.final
  /\ \A i \in 1 .. chain.final : chain'.mined[i] = chain.mined[i]
  /\ Enrolled \subseteq Enrolled'

\* What is final stays final.
LEMMA FinalStays ==
  ASSUME TypeOK, TypeOK', Grows, NEW k, NEW id, Final(k, id)
  PROVE  Final(k, id)'
<1>1. k \in Recorded /\ k \in Recorded' /\ Tx(k)' = Tx(k)
  BY DEF Final, Grows
<1>2. PICK i \in 1 .. chain.final : chain.mined[i].tx = Tx(k) /\ chain.mined[i].out = "success" /\ chain.mined[i].id = id
  BY DEF Final, OnChain
<1>3. i \in 1 .. chain'.final /\ chain'.mined[i] = chain.mined[i]
  BY <1>2 DEF Grows, TypeOK
<1> QED
  BY <1>1, <1>2, <1>3 DEF Final, OnChain

\* What a copy of a job says stays true.
LEMMA JobFinalStays ==
  ASSUME TypeOK, TypeOK', Grows, NEW a, NEW j, JobFinal(a, j)
  PROVE  JobFinal(a, j)'
BY FinalStays DEF JobFinal

\* A transaction that is the one of its row stays it.
LEMMA KnownStays ==
  ASSUME Grows, NEW t, Known(t)
  PROVE  Known(t)'
BY DEF Known, Grows

\* What a process remembers stays true.
LEMMA FactsStay ==
  ASSUME TypeOK, TypeOK', Grows, NEW q \in Procs, TaskFacts(q), task'[q] = task[q]
  PROVE  TaskFacts(q)'
<1>1. task[q].job # None => JobFinal(task[q].a, task[q].job)'
  BY FinalStays DEF TaskFacts, JobFinal
<1>2. task[q].tx # None => Known(task[q].tx)'
  BY DEF TaskFacts, Known, Grows
<1>3. task[q].a \in Enrolled => task[q].a \in Enrolled'
  BY DEF Grows
<1>4. SeenFinal(q) => SeenFinal(q)'
  <2>1. chain.final \in Nat /\ chain'.final \in Nat
    BY DEF TypeOK
  <2> QED
    BY <2>1 DEF SeenFinal, Grows
<1> QED
  BY <1>1, <1>2, <1>3, <1>4 DEF TaskFacts

LEMMA LedgerKeeps ==
  ASSUME TypeOK, TypeOK', Grows, LedgerInv, UNCHANGED jobs, Recorded' \subseteq Recorded
  PROVE  LedgerInv'
<1>1. \A k \in Recorded' : jobs'[k[1]] # None
  BY DEF LedgerInv
<1>2. \A a \in Enrolled' : JobFinal(a, jobs[a])'
  <2> SUFFICES ASSUME NEW a \in Enrolled' PROVE JobFinal(a, jobs[a])'
    OBVIOUS
  <2>1. a \in Enrolled /\ JobFinal(a, jobs[a])
    BY DEF LedgerInv, Enrolled
  <2> QED
    BY <2>1, FinalStays DEF JobFinal
<1> QED
  BY <1>1, <1>2 DEF LedgerInv

LEMMA SourceKeeps ==
  ASSUME TypeOK, TypeOK', Grows, SourceInv, UNCHANGED source
  PROVE  SourceInv'
BY FinalStays DEF SourceInv

LEMMA ChainKeeps ==
  ASSUME ChainInv, Grows, UNCHANGED chain
  PROVE  ChainInv'
BY KnownStays DEF ChainInv, Published

\* The other processes remember what they did.
LEMMA TasksKeep ==
  ASSUME TypeOK, TypeOK', Grows, TasksInv, NEW p \in Procs,
         \A q \in Procs \ {p} : task'[q] = task[q], TaskFacts(p)'
  PROVE  TasksInv'
<1> SUFFICES ASSUME NEW q \in Procs PROVE TaskFacts(q)'
  BY DEF TasksInv
<1>1. CASE q = p
  BY <1>1
<1>2. CASE q # p
  <2>1. TaskFacts(q) /\ task[q] \in TaskType
    BY DEF TasksInv, TypeOK
  <2>2. task'[q] = task[q]
    BY <1>2
  <2> QED
    BY <2>1, <2>2, FactsStay
<1> QED
  BY <1>1, <1>2
-----------------------------------------------------------------------------
(* Where a process goes.                                                   *)

\* Only p moves, within the types.
Only(p) == task' \in [Procs -> TaskType] /\ \A q \in Procs \ {p} : task'[q] = task[q]

LEMMA AtType ==
  ASSUME NEW pc \in Places
  PROVE  At(pc) \in TaskType
BY DEF At, TaskType, Codes

LEMMA Moves ==
  ASSUME TypeOK, NEW p \in Procs, NEW r \in TaskType, task' = [task EXCEPT ![p] = r]
  PROVE  Only(p) /\ task'[p] = r
BY DEF TypeOK, Only

LEMMA GotoMoves ==
  ASSUME TypeOK, NEW p \in Procs, NEW pc \in Places, Goto(p, pc)
  PROVE  Only(p) /\ task'[p] = [task[p] EXCEPT !.at = pc]
<1>1. task[p] \in TaskType
  BY DEF TypeOK
<1>2. [task[p] EXCEPT !.at = pc] \in TaskType
  BY <1>1 DEF TaskType
<1> QED
  BY <1>2, Moves DEF Goto

\* A process that is given up, done or off remembers nothing.
LEMMA AtMoves ==
  ASSUME TypeOK, NEW p \in Procs, NEW pc \in Places \ (OnJob \cup InHand \cup {"block", "reread"}),
         task' = [task EXCEPT ![p] = At(pc)]
  PROVE  Only(p) /\ TaskFacts(p)'
<1>1. Only(p) /\ task'[p] = At(pc)
  BY Moves, AtType
<1> QED
  BY <1>1 DEF TaskFacts, At, OnJob, InHand

LEMMA EndMoves ==
  ASSUME TypeOK, NEW p \in Procs, End(p)
  PROVE  Only(p) /\ TaskFacts(p)'
BY AtMoves DEF End, Places, OnJob, InHand

LEMMA FailMoves ==
  ASSUME TypeOK, NEW p \in Procs, task[p].a \in Enrolled, Enrolled \subseteq Enrolled',
         NEW code \in Codes \ {None}, Fail(p, code)
  PROVE  Only(p) /\ TaskFacts(p)'
<1> DEFINE r == [At("block") EXCEPT !.a = task[p].a, !.code = code]
<1>1. r \in TaskType
  BY DEF At, TaskType, Places, Codes, Enrolled
<1>2. Only(p) /\ task'[p] = r
  BY <1>1, Moves DEF Fail
<1> QED
  BY <1>2 DEF TaskFacts, At, OnJob, InHand

LEMMA LookMoves ==
  ASSUME TypeOK, NEW p \in Procs, task[p].a \in Enrolled, Look(p)
  PROVE  Only(p) /\ (Enrolled \subseteq Enrolled' => TaskFacts(p)')
<1> DEFINE r == [At("reread") EXCEPT !.a = task[p].a, !.over = task[p].over]
<1>1. task[p] \in TaskType
  BY DEF TypeOK
<1>2. r \in TaskType
  BY <1>1 DEF At, TaskType, Places, Codes, Enrolled
<1>3. Only(p) /\ task'[p] = r
  BY <1>2, Moves DEF Look
<1> QED
  BY <1>3 DEF TaskFacts, At, OnJob, InHand
-----------------------------------------------------------------------------
(* Steps that change only what a process remembers, and the lock.          *)

Same == UNCHANGED <<source, ledger, world>>

LEMMA SameGrows ==
  ASSUME TypeOK, Same
  PROVE  Grows /\ Enrolled' = Enrolled /\ Recorded' = Recorded
BY DEF Same, ledger, world, Grows, Tx, Enrolled, Recorded, TypeOK

LEMMA TaskStep ==
  ASSUME MinterInv, NEW p \in Procs, Same, fence' \in Procs \cup {None}, Only(p), TaskFacts(p)'
  PROVE  MinterInv'
<1>1. TypeOK'
  BY DEF MinterInv, TypeOK, Same, ledger, world, Only, Enrolled, Height
<1>2. Grows /\ Recorded' = Recorded
  BY SameGrows DEF MinterInv
<1>3. LedgerInv'
  BY <1>1, <1>2, LedgerKeeps DEF MinterInv, Same, ledger
<1>4. SourceInv' /\ ChainInv'
  BY <1>1, <1>2, SourceKeeps, ChainKeeps DEF MinterInv, Same, world
<1>5. TasksInv'
  BY <1>1, <1>2, TasksKeep DEF MinterInv, Only
<1> QED
  BY <1>1, <1>3, <1>4, <1>5 DEF MinterInv

LEMMA AcquireKeeps ==
  ASSUME MinterInv, NEW p \in Procs, Acquire(p)
  PROVE  MinterInv'
<1>1. Only(p) /\ TaskFacts(p)'
  BY AtMoves DEF Acquire, MinterInv, Places, OnJob, InHand
<1> QED
  BY <1>1, TaskStep DEF Acquire, Same

LEMMA LoopOrExitKeeps ==
  ASSUME MinterInv, NEW p \in Procs, LoopOrExit(p)
  PROVE  MinterInv'
<1>1. Only(p) /\ TaskFacts(p)'
  BY AtMoves DEF LoopOrExit, MinterInv, Places, OnJob, InHand
<1>2. fence' \in Procs \cup {None}
  BY DEF LoopOrExit, MinterInv, TypeOK
<1> QED
  BY <1>1, <1>2, TaskStep DEF LoopOrExit, Same

LEMMA OffKeeps ==
  ASSUME MinterInv, NEW p \in Procs, LockLost(p) \/ Crash(p) \/ Unavailable(p)
  PROVE  MinterInv'
<1>1. Only(p) /\ TaskFacts(p)'
  BY AtMoves DEF LockLost, Crash, Unavailable, End, MinterInv, Places, OnJob, InHand
<1>2. fence' \in Procs \cup {None} /\ Same
  BY DEF LockLost, Crash, Unavailable, MinterInv, TypeOK, Same
<1> QED
  BY <1>1, <1>2, TaskStep

\* The fence alone changes hands: nobody's memory does.
LEMMA SessionBreaksKeeps ==
  ASSUME MinterInv, NEW p \in Procs, SessionBreaks(p)
  PROVE  MinterInv'
<1>1. TypeOK'
  BY DEF MinterInv, TypeOK, SessionBreaks, ledger, world, Enrolled, Height
<1>2. Same /\ UNCHANGED task
  BY DEF SessionBreaks, Same
<1>3. Grows /\ Recorded' = Recorded
  BY <1>2, SameGrows DEF MinterInv
<1>4. LedgerInv' /\ SourceInv' /\ ChainInv'
  BY <1>1, <1>2, <1>3, LedgerKeeps, SourceKeeps, ChainKeeps DEF MinterInv, Same, ledger, world
<1>5. TasksInv'
  BY <1>1, <1>2, <1>3, FactsStay DEF MinterInv, TasksInv
<1> QED
  BY <1>1, <1>4, <1>5 DEF MinterInv

\* Nothing the ledger or the chain holds has changed, and neither has what p knows of it.
LEMMA SameFacts ==
  ASSUME UNCHANGED <<ledger, world>>, NEW p \in Procs, TaskFacts(p), UNCHANGED <<task[p].a, task[p].job, task[p].tx>>
  PROVE  /\ task'[p].a \in Enrolled => task'[p].a \in Enrolled'
         /\ task'[p].job # None => task'[p].a \in Enrolled' /\ JobFinal(task[p].a, task[p].job)'
         /\ task'[p].tx # None => task'[p].a \in Enrolled' /\ Known(task[p].tx)' /\ task'[p].tx.key[1] = task'[p].a
BY DEF ledger, world, TaskFacts, JobFinal, Final, OnChain, Known, Tx, Recorded, Enrolled

LEMMA RereadKeeps ==
  ASSUME MinterInv, NEW p \in Procs, Reread(p)
  PROVE  MinterInv'
<1>1. Same /\ UNCHANGED fence /\ TaskFacts(p) /\ task[p].at = "reread" /\ task[p].a \in Enrolled
  BY DEF Reread, Same, MinterInv, TasksInv, TaskFacts
<1>2. Enrolled' = Enrolled
  BY <1>1, SameGrows DEF MinterInv
<1>3. CASE Fail(p, "fee_limit")
  <2>1. Only(p) /\ TaskFacts(p)'
    BY <1>1, <1>2, <1>3, FailMoves DEF MinterInv, Codes
  <2> QED
    BY <1>1, <2>1, TaskStep DEF MinterInv, TypeOK
<1>4. CASE task' = [task EXCEPT ![p] = [At("project") EXCEPT !.a = task[p].a, !.job = jobs[task[p].a]]]
  <2> DEFINE r == [At("project") EXCEPT !.a = task[p].a, !.job = jobs[task[p].a]]
  <2>1. task[p].a \in Agents /\ jobs[task[p].a] \in Job /\ JobFinal(task[p].a, jobs[task[p].a])
    BY <1>1 DEF Enrolled, MinterInv, TypeOK, LedgerInv
  <2>2. r \in TaskType
    BY <2>1 DEF At, TaskType, Places, Codes
  <2>3. Only(p) /\ task'[p] = r
    BY <1>4, <2>2, Moves DEF MinterInv
  <2>4. /\ r.at = "project" /\ r.a = task[p].a /\ r.job = jobs[task[p].a] /\ r.tx = None
    BY DEF At
  <2>5. TaskFacts(p)'
    BY <1>1, <1>2, <2>1, <2>3, <2>4
       DEF TaskFacts, OnJob, InHand, JobFinal, Final, OnChain, Tx, Recorded, Same, ledger, world
  <2> QED
    BY <1>1, <2>3, <2>5, TaskStep DEF MinterInv, TypeOK
<1> QED
  BY <1>3, <1>4 DEF Reread

LEMMA QuoteKeeps ==
  ASSUME MinterInv, NEW p \in Procs, Quote(p)
  PROVE  MinterInv'
<1>1. /\ Same /\ UNCHANGED fence /\ TaskFacts(p) /\ task[p] \in TaskType
      /\ task[p].at = "quote" /\ task[p].job # None /\ task[p].a \in Enrolled
  BY DEF Quote, Same, MinterInv, TasksInv, TaskFacts, OnJob, TypeOK
<1>2. Enrolled' = Enrolled
  BY <1>1, SameGrows DEF MinterInv
<1>3. ASSUME NEW code \in Codes \ {None}, Fail(p, code) PROVE MinterInv'
  <2>1. Only(p) /\ TaskFacts(p)'
    BY <1>1, <1>2, <1>3, FailMoves DEF MinterInv
  <2> QED
    BY <1>1, <2>1, TaskStep DEF MinterInv, TypeOK
<1>4. ASSUME NEW c \in Costs, NEW f \in Funds,
             task' = [task EXCEPT ![p].at = "sign", ![p].quote =
                        [latest |-> Height, pending |-> Pending, cost |-> c, funds |-> f]]
      PROVE  MinterInv'
  <2> DEFINE q == [latest |-> Height, pending |-> Pending, cost |-> c, funds |-> f]
             r == [task[p] EXCEPT !.at = "sign", !.quote = q]
  <2>1. Height \in Nat /\ Pending \in Nat
    BY DEF MinterInv, TypeOK, Height, Pending
  <2>2. q \in Quotes
    BY <2>1 DEF Quotes
  <2>3. r \in TaskType
    BY <1>1, <2>2 DEF TaskType, Places
  <2>4. task' = [task EXCEPT ![p] = r]
    BY <1>4, <1>1 DEF TaskType, MinterInv, TypeOK
  <2>5. Only(p) /\ task'[p] = r
    BY <2>3, <2>4, Moves DEF MinterInv
  <2>6. /\ r.at = "sign" /\ r.quote = q
        /\ r.a = task[p].a /\ r.job = task[p].job /\ r.tx = task[p].tx
    BY <1>1 DEF TaskType
  <2>7. q # None
    BY <2>2
  <2>8. TaskFacts(p)'
    BY <1>1, <1>2, <2>5, <2>6, <2>7, SameFacts DEF Same, TaskFacts, OnJob, InHand
  <2> QED
    BY <1>1, <2>5, <2>8, TaskStep DEF MinterInv, TypeOK
<1> QED
  BY <1>3, <1>4 DEF Quote, Codes

LEMMA ReceiptKeeps ==
  ASSUME MinterInv, NEW p \in Procs, Receipt(p)
  PROVE  MinterInv'
<1>1. /\ Same /\ UNCHANGED fence /\ TaskFacts(p) /\ task[p] \in TaskType
      /\ task[p].at = "receipt" /\ task[p].job # None /\ task[p].tx # None /\ task[p].a \in Enrolled
  BY DEF Receipt, Same, MinterInv, TasksInv, TaskFacts, OnJob, InHand, TypeOK
<1>2. Enrolled' = Enrolled
  BY <1>1, SameGrows DEF MinterInv
<1>3. CASE Look(p)
  BY <1>1, <1>2, <1>3, LookMoves, TaskStep DEF MinterInv, TypeOK
<1>4. CASE Fail(p, "other")
  BY <1>1, <1>2, <1>4, FailMoves, TaskStep DEF MinterInv, TypeOK, Codes
<1>5. CASE Goto(p, "nonces")
  <2>1. Only(p) /\ task'[p] = [task[p] EXCEPT !.at = "nonces"]
    BY <1>5, GotoMoves DEF MinterInv, Places
  <2>2. TaskFacts(p)'
    BY <1>1, <2>1, SameFacts DEF Same, TaskFacts, OnJob, InHand, TaskType
  <2> QED
    BY <1>1, <2>1, <2>2, TaskStep DEF MinterInv, TypeOK
<1>6. ASSUME NEW i \in Mined(task[p].tx),
             task' = [task EXCEPT ![p].at = "judge", ![p].seen = [pos |-> i, entry |-> chain.mined[i]]]
      PROVE  MinterInv'
  <2> DEFINE s == [pos |-> i, entry |-> chain.mined[i]]
             r == [task[p] EXCEPT !.at = "judge", !.seen = s]
  <2>1. i \in DOMAIN chain.mined /\ chain.mined[i].tx = task[p].tx
    BY DEF Mined
  <2>2. i \in Nat /\ i > 0 /\ chain.mined[i] \in Entry
    BY <2>1 DEF MinterInv, TypeOK
  <2>3. s \in Receipts /\ s # None
    BY <2>2 DEF Receipts
  <2>4. r \in TaskType
    BY <1>1, <2>3 DEF TaskType, Places
  <2>5. task' = [task EXCEPT ![p] = r]
    BY <1>6, <1>1 DEF TaskType, MinterInv, TypeOK
  <2>6. Only(p) /\ task'[p] = r
    BY <2>4, <2>5, Moves DEF MinterInv
  <2>7. /\ r.at = "judge" /\ r.seen = s
        /\ r.a = task[p].a /\ r.job = task[p].job /\ r.tx = task[p].tx
    BY <1>1 DEF TaskType
  <2>8. task'[p].seen # None /\ task'[p].seen.pos > 0 /\ task'[p].seen.entry.tx = task'[p].tx
    BY <2>1, <2>2, <2>3, <2>6, <2>7
  <2>9. task'[p].at = "judge" /\ UNCHANGED <<task[p].a, task[p].job, task[p].tx>>
    BY <2>6, <2>7
  <2>10. TaskFacts(p)'
    BY <1>1, <1>2, <2>8, <2>9, SameFacts DEF Same, TaskFacts, OnJob, InHand
  <2> QED
    BY <1>1, <2>6, <2>10, TaskStep DEF MinterInv, TypeOK
<1> QED
  BY <1>3, <1>4, <1>5, <1>6 DEF Receipt

LEMMA NoncesKeeps ==
  ASSUME MinterInv, NEW p \in Procs, Nonces(p)
  PROVE  MinterInv'
<1>1. /\ Same /\ UNCHANGED fence /\ TaskFacts(p) /\ task[p] \in TaskType
      /\ task[p].at = "nonces" /\ task[p].job # None /\ task[p].tx # None /\ task[p].a \in Enrolled
  BY DEF Nonces, Same, MinterInv, TasksInv, TaskFacts, OnJob, InHand, TypeOK
<1>2. Enrolled' = Enrolled
  BY <1>1, SameGrows DEF MinterInv
<1>3. CASE Fail(p, "nonce_conflict")
  BY <1>1, <1>2, <1>3, FailMoves, TaskStep DEF MinterInv, TypeOK, Codes
<1>4. CASE Goto(p, "broadcast")
  <2>1. Only(p) /\ task'[p] = [task[p] EXCEPT !.at = "broadcast"]
    BY <1>4, GotoMoves DEF MinterInv, Places
  <2>2. TaskFacts(p)'
    BY <1>1, <2>1, SameFacts DEF Same, TaskFacts, OnJob, InHand, TaskType
  <2> QED
    BY <1>1, <2>1, <2>2, TaskStep DEF MinterInv, TypeOK
<1> QED
  BY <1>3, <1>4 DEF Nonces

-----------------------------------------------------------------------------
(* Steps of the chain: the ledger does not know of them.                   *)

ChainType == [mined : Seq(Entry), final : Nat, pool : SUBSET TxBytes]

\* Only a registration that succeeded has an id.
IdRight(e) == e.tx # None => ((e.id # None) <=> (e.tx.key[2] = "register" /\ e.out = "success"))

\* A new chain keeps what was final, and holds nothing new that is not recorded.
NextChain(c) ==
  /\ c \in ChainType /\ chain.final <= c.final /\ c.final <= Len(c.mined)
  /\ \A i \in 1 .. chain.final : c.mined[i] = chain.mined[i]
  /\ \A t \in c.pool : Known(t)
  /\ \A i \in DOMAIN c.mined : IdRight(c.mined[i]) /\ (c.mined[i].tx # None => Known(c.mined[i].tx))

LEMMA ChainNow ==
  ASSUME MinterInv
  PROVE  /\ NextChain(chain) /\ chain.final \in Nat /\ chain.final <= Len(chain.mined)
         /\ chain.mined \in Seq(Entry) /\ chain.pool \subseteq TxBytes
BY DEF MinterInv, TypeOK, Height, ChainInv, Published, NextChain, ChainType, IdRight

LEMMA ChainStep ==
  ASSUME MinterInv, UNCHANGED <<source, ledger, fence>>, NextChain(chain'),
         clock' \in Nat, foreign' \in Nat, reorgs' \in Nat, task' \in [Procs -> TaskType]
  PROVE  TypeOK' /\ Grows /\ LedgerInv' /\ SourceInv' /\ ChainInv'
<1>1. TypeOK'
  BY DEF MinterInv, TypeOK, ledger, Enrolled, Height, NextChain, ChainType
<1>2. Grows /\ Recorded' = Recorded
  BY DEF Grows, NextChain, ledger, Tx, Recorded, Enrolled
<1>3. LedgerInv' /\ SourceInv'
  BY <1>1, <1>2, LedgerKeeps, SourceKeeps DEF MinterInv, ledger
<1>4. ASSUME NEW t \in Published' PROVE Known(t)'
  <2>1. Known(t)
    BY <1>4 DEF Published, NextChain
  <2> QED
    BY <1>2, <2>1, KnownStays
<1>5. ChainInv'
  BY <1>4 DEF ChainInv, NextChain, IdRight
<1> QED
  BY <1>1, <1>2, <1>3, <1>5

LEMMA ChainAlone ==
  ASSUME MinterInv, UNCHANGED <<source, ledger, fence, task>>, NextChain(chain'),
         clock' \in Nat, foreign' \in Nat, reorgs' \in Nat
  PROVE  MinterInv'
<1>1. TypeOK' /\ Grows /\ LedgerInv' /\ SourceInv' /\ ChainInv'
  BY ChainStep DEF MinterInv, TypeOK
<1>2. TasksInv'
  BY <1>1, FactsStay DEF MinterInv, TasksInv
<1> QED
  BY <1>1, <1>2 DEF MinterInv

LEMMA BroadcastKeeps ==
  ASSUME MinterInv, NEW p \in Procs, Broadcast(p)
  PROVE  MinterInv'
<1>1. /\ TaskFacts(p) /\ task[p] \in TaskType /\ UNCHANGED <<source, ledger, fence, clock, foreign, reorgs>>
      /\ task[p].tx # None /\ Known(task[p].tx) /\ task[p].tx \in TxBytes /\ task[p].a \in Enrolled
  BY DEF Broadcast, MinterInv, TasksInv, TaskFacts, OnJob, InHand, TypeOK, TaskType
<1>2. NextChain(chain')
  <2>1. CASE UNCHANGED chain
    BY <2>1, ChainNow
  <2>2. CASE chain' = [chain EXCEPT !.pool = @ \cup {task[p].tx}]
    BY <1>1, <2>2, ChainNow DEF NextChain, ChainType
  <2> QED
    BY <2>1, <2>2 DEF Broadcast
<1>3. Enrolled' = Enrolled
  BY <1>1 DEF ledger, Enrolled
<1>4. Only(p) /\ TaskFacts(p)'
  BY <1>1, <1>3, LookMoves, EndMoves DEF Broadcast, MinterInv
<1>5. TypeOK' /\ Grows /\ LedgerInv' /\ SourceInv' /\ ChainInv'
  BY <1>1, <1>2, <1>4, ChainStep DEF Only, MinterInv, TypeOK
<1>6. TasksInv'
  BY <1>4, <1>5, TasksKeep DEF MinterInv, Only
<1> QED
  BY <1>5, <1>6 DEF MinterInv

\* One entry is appended, with a right id and of a transaction that is recorded.
LEMMA ExtendKeeps ==
  ASSUME MinterInv, NEW e \in Entry, IdRight(e), e.tx # None => Known(e.tx)
  PROVE  NextChain(Extend(e))
<1> DEFINE c == Extend(e)
<1>0. /\ chain \in ChainType /\ Append(chain.mined, e) \in Seq(Entry)
  BY ChainNow DEF NextChain
<1>1. /\ c \in ChainType /\ c.final = chain.final /\ c.mined = Append(chain.mined, e) /\ c.pool \subseteq chain.pool
  BY <1>0 DEF Extend, ChainType
<1>2. /\ Len(c.mined) = Len(chain.mined) + 1 /\ c.mined[Len(chain.mined) + 1] = e
      /\ \A i \in 1 .. Len(chain.mined) : c.mined[i] = chain.mined[i]
      /\ DOMAIN c.mined = 1 .. (Len(chain.mined) + 1) /\ DOMAIN chain.mined = 1 .. Len(chain.mined)
  BY <1>1, ChainNow
<1>3. Len(chain.mined) \in Nat
  BY ChainNow
<1>4. ASSUME NEW i \in DOMAIN c.mined PROVE IdRight(c.mined[i]) /\ (c.mined[i].tx # None => Known(c.mined[i].tx))
  <2>1. CASE i = Len(chain.mined) + 1
    BY <1>2, <2>1
  <2>2. CASE i \in DOMAIN chain.mined
    <3>1. c.mined[i] = chain.mined[i]
      BY <1>2, <2>2
    <3> QED
      BY <2>2, <3>1, ChainNow DEF NextChain
  <2> QED
    BY <1>2, <1>3, <1>4, <2>1, <2>2
<1>5. c.final <= Len(c.mined) /\ \A i \in 1 .. chain.final : c.mined[i] = chain.mined[i]
  BY <1>1, <1>2, <1>3, ChainNow
<1> QED
  BY <1>1, <1>4, <1>5, ChainNow DEF NextChain

LEMMA MineKeeps ==
  ASSUME MinterInv, NEW t \in chain.pool, Mine(t)
  PROVE  MinterInv'
<1>1. PICK out \in Outcomes, id \in (Ids \ Taken) \cup {None} :
        /\ (id # None) <=> (t.key[2] = "register" /\ out = "success")
        /\ chain' = Extend([tx |-> t, out |-> out, id |-> id, time |-> clock])
  BY DEF Mine
<1> DEFINE e == [tx |-> t, out |-> out, id |-> id, time |-> clock]
<1>2. t \in TxBytes /\ Known(t)
  BY ChainNow DEF NextChain
<1>3. e \in Entry /\ IdRight(e) /\ e.tx = t
  BY <1>1, <1>2 DEF Entry, IdRight, MinterInv, TypeOK
<1>4. NextChain(chain')
  BY <1>1, <1>2, <1>3, ExtendKeeps
<1> QED
  BY <1>4, ChainAlone DEF Mine, MinterInv, TypeOK

LEMMA MineForeignKeeps ==
  ASSUME MinterInv, MineForeign
  PROVE  MinterInv'
<1> DEFINE e == [tx |-> None, out |-> "success", id |-> None, time |-> clock]
<1>1. e \in Entry /\ IdRight(e) /\ e.tx = None
  BY DEF Entry, IdRight, MinterInv, TypeOK
<1>2. NextChain(chain')
  BY <1>1, ExtendKeeps DEF MineForeign
<1> QED
  BY <1>2, ChainAlone DEF MineForeign, MinterInv, TypeOK

LEMMA EvictKeeps ==
  ASSUME MinterInv, NEW t \in chain.pool, Evict(t)
  PROVE  MinterInv'
<1>1. NextChain(chain')
  BY ChainNow DEF Evict, NextChain, ChainType
<1> QED
  BY <1>1, ChainAlone DEF Evict, MinterInv, TypeOK

LEMMA ReorgKeeps ==
  ASSUME MinterInv, Reorg
  PROVE  MinterInv'
<1>1. PICK n \in chain.final .. (Height - 1) :
        \E back \in SUBSET ({chain.mined[i].tx : i \in (n + 1) .. Height} \ {None}) :
          chain' = [chain EXCEPT !.mined = SubSeq(@, 1, n), !.pool = @ \cup back]
  BY DEF Reorg
<1>2. PICK back \in SUBSET ({chain.mined[i].tx : i \in (n + 1) .. Height} \ {None}) :
          chain' = [chain EXCEPT !.mined = SubSeq(@, 1, n), !.pool = @ \cup back]
  BY <1>1
<1>3. n \in Nat /\ chain.final <= n /\ n < Len(chain.mined) /\ Len(chain.mined) \in Nat
  BY ChainNow DEF Height
<1>4. /\ SubSeq(chain.mined, 1, n) \in Seq(Entry) /\ Len(SubSeq(chain.mined, 1, n)) = n
      /\ \A i \in 1 .. n : SubSeq(chain.mined, 1, n)[i] = chain.mined[i]
  BY <1>3, ChainNow
<1>5. ASSUME NEW t \in back PROVE t \in TxBytes /\ Known(t)
  <2>1. PICK i \in (n + 1) .. Height : t = chain.mined[i].tx /\ t # None
    BY <1>2
  <2>2. i \in DOMAIN chain.mined
    BY <1>3, ChainNow DEF Height
  <2>3. chain.mined[i] \in Entry
    BY <2>2, ChainNow
  <2> QED
    BY <2>1, <2>2, <2>3, ChainNow DEF NextChain, Entry
<1> DEFINE m == SubSeq(chain.mined, 1, n)
<1>6. /\ chain' \in ChainType /\ chain'.final = chain.final
      /\ chain'.mined = m /\ chain'.pool = chain.pool \cup back
  <2>1. m \in Seq(Entry) /\ chain \in ChainType /\ back \subseteq TxBytes
    BY <1>4, <1>5, ChainNow DEF NextChain
  <2> HIDE DEF m
  <2>2. chain' = [chain EXCEPT !.mined = m, !.pool = chain.pool \cup back]
    BY <1>2, <2>1 DEF m, ChainType
  <2> QED
    BY <2>1, <2>2 DEF ChainType
<1>7. DOMAIN chain'.mined = 1 .. n
  BY <1>4, <1>6
<1>8. \A i \in DOMAIN chain'.mined : i \in DOMAIN chain.mined /\ chain'.mined[i] = chain.mined[i]
  BY <1>3, <1>4, <1>6, <1>7, ChainNow
<1>9. NextChain(chain')
  BY <1>3, <1>4, <1>5, <1>6, <1>8, ChainNow DEF NextChain
<1>10. /\ UNCHANGED <<source, ledger, fence, task>>
       /\ clock' \in Nat /\ foreign' \in Nat /\ reorgs' \in Nat
  BY DEF Reorg, MinterInv, TypeOK
<1> QED
  BY <1>9, <1>10, ChainAlone

LEMMA FinalizeKeeps ==
  ASSUME MinterInv, Finalize
  PROVE  MinterInv'
<1>1. /\ chain \in ChainType /\ chain.final \in Nat /\ chain.final + 1 <= Len(chain.mined)
      /\ chain' = [chain EXCEPT !.final = chain.final + 1]
  BY ChainNow DEF Finalize, NextChain, ChainType, Height
<1> DEFINE n == chain.final + 1
<1>2. /\ chain' \in ChainType /\ chain'.final = n
      /\ chain'.mined = chain.mined /\ chain'.pool = chain.pool
  <2>1. n \in Nat /\ chain' = [chain EXCEPT !.final = n] /\ chain \in ChainType
    BY <1>1
  <2> HIDE DEF n
  <2> QED
    BY <2>1 DEF ChainType
<1>3. NextChain(chain')
  BY <1>1, <1>2, ChainNow DEF NextChain
<1> QED
  BY <1>3, ChainAlone DEF Finalize, MinterInv, TypeOK

LEMMA TickKeeps ==
  ASSUME MinterInv, Tick
  PROVE  MinterInv'
<1>1. NextChain(chain')
  BY ChainNow DEF Tick
<1> QED
  BY <1>1, ChainAlone DEF Tick, MinterInv, TypeOK

-----------------------------------------------------------------------------
(* Steps that write an agent's record.                                     *)

LEMMA SourceStep ==
  ASSUME MinterInv, NEW p \in Procs, UNCHANGED <<ledger, fence, world>>,
         NEW a \in Agents, NEW r \in Source, source' = [source EXCEPT ![a] = r],
         r.existing # None => Final(<<a, "register">>, r.existing) /\ Final(<<a, "update">>, None),
         Only(p), TaskFacts(p)'
  PROVE  MinterInv'
<1>1. TypeOK'
  BY DEF MinterInv, TypeOK, ledger, world, Only, Enrolled, Height
<1>2. Grows /\ Recorded' = Recorded /\ UNCHANGED <<jobs, chain>>
  BY DEF ledger, world, Grows, Tx, Enrolled, Recorded, MinterInv, TypeOK
<1>3. LedgerInv' /\ ChainInv'
  BY <1>1, <1>2, LedgerKeeps, ChainKeeps DEF MinterInv
<1>4. SourceInv'
  <2> SUFFICES ASSUME NEW b \in Agents, source'[b].existing # None
               PROVE  Final(<<b, "register">>, source[b].existing)' /\ Final(<<b, "update">>, None)'
    BY DEF SourceInv
  <2>1. CASE b = a
    <3>1. source'[b] = r
      BY <2>1 DEF MinterInv, TypeOK
    <3> QED
      BY <1>1, <1>2, <2>1, <3>1, FinalStays DEF MinterInv
  <2>2. CASE b # a
    <3>1. source'[b] = source[b]
      BY <2>2 DEF MinterInv, TypeOK
    <3> QED
      BY <1>1, <1>2, <3>1, FinalStays DEF MinterInv, SourceInv
  <2> QED
    BY <2>1, <2>2
<1>5. TasksInv'
  BY <1>1, <1>2, TasksKeep DEF MinterInv, Only
<1> QED
  BY <1>1, <1>3, <1>4, <1>5 DEF MinterInv

\* What #project writes of a job that a process holds is true of the chain.
LEMMA ViewTrue ==
  ASSUME MinterInv, NEW a \in Agents, NEW j \in Job, JobFinal(a, j), Projectable(a, j)
  PROVE  /\ View(a, j) \in Source
         /\ View(a, j).existing # None =>
              Final(<<a, "register">>, View(a, j).existing) /\ Final(<<a, "update">>, None)
<1>1. source[a] \in Source
  BY DEF MinterInv, TypeOK
<1>2. View(a, j) \in Source
  BY <1>1 DEF View, Job, Source
<1>4. CASE j.status = "registered"
  <2>1. View(a, j).existing = j.minted
    BY <1>4 DEF View
  <2> QED
    BY <1>2, <1>4, <2>1 DEF JobFinal
<1>5. CASE j.status # "registered"
  <2>1. View(a, j).existing = source[a].existing
    BY <1>5 DEF View
  <2> QED
    BY <1>2, <2>1 DEF MinterInv, SourceInv
<1> QED
  BY <1>4, <1>5

LEMMA ReprojectKeeps ==
  ASSUME MinterInv, NEW p \in Procs, Reproject(p)
  PROVE  MinterInv'
<1>1. UNCHANGED <<ledger, fence, world>>
  BY DEF Reproject
<1>2. CASE Goto(p, "step") /\ UNCHANGED source
  <2>1. Only(p) /\ task'[p] = [task[p] EXCEPT !.at = "step"]
    BY <1>2, GotoMoves DEF MinterInv, Places
  <2>2. Same /\ TaskFacts(p) /\ task[p] \in TaskType
    BY <1>1, <1>2 DEF Same, MinterInv, TasksInv, TypeOK
  <2>3. TaskFacts(p)'
    BY <2>1, <2>2, SameFacts DEF Same, TaskFacts, OnJob, InHand, TaskType
  <2> QED
    BY <1>1, <2>1, <2>2, <2>3, TaskStep DEF MinterInv, TypeOK
<1>3. ASSUME NEW a \in Lagging(p), source' = [source EXCEPT ![a] = View(a, jobs[a])], UNCHANGED task
      PROVE  MinterInv'
  <2>1. a \in Agents /\ jobs[a] \in Job /\ JobFinal(a, jobs[a]) /\ Projectable(a, jobs[a])
    BY DEF Lagging, Enrolled, MinterInv, TypeOK, LedgerInv
  <2>2. Only(p)
    BY <1>3 DEF Only, MinterInv, TypeOK
  <2>3. TaskFacts(p)'
    <3>1. Enrolled' = Enrolled /\ UNCHANGED <<chain, task>> /\ TaskFacts(p)
      BY <1>1, <1>3 DEF MinterInv, TasksInv, ledger, world, Enrolled
    <3> QED
      BY <1>1, <3>1, SameFacts DEF TaskFacts, SeenFinal
  <2> DEFINE r == View(a, jobs[a])
  <2>4. r \in Source /\ (r.existing # None => Final(<<a, "register">>, r.existing) /\ Final(<<a, "update">>, None))
    BY <2>1, ViewTrue
  <2> HIDE DEF r
  <2>5. source' = [source EXCEPT ![a] = r]
    BY <1>3 DEF r
  <2> QED
    BY <1>1, <2>1, <2>2, <2>3, <2>4, <2>5, SourceStep
<1> QED
  BY <1>2, <1>3 DEF Reproject

LEMMA ProjectKeeps ==
  ASSUME MinterInv, NEW p \in Procs, Project(p)
  PROVE  MinterInv'
<1> DEFINE a == task[p].a
           j == task[p].job
<1>1. /\ UNCHANGED <<ledger, fence, world>> /\ a \in Agents /\ a \in Enrolled /\ j \in Job /\ JobFinal(a, j)
      /\ Enrolled' = Enrolled
  BY DEF Project, ledger, Enrolled, OnJob, MinterInv, TypeOK, TaskType, TasksInv, TaskFacts
<1>2. CASE Projectable(a, j) /\ source' = [source EXCEPT ![a] = View(a, j)] /\ End(p)
  <2>1. Only(p) /\ TaskFacts(p)'
    BY <1>2, EndMoves DEF MinterInv
  <2> DEFINE r == View(a, j)
  <2>2. r \in Source /\ (r.existing # None => Final(<<a, "register">>, r.existing) /\ Final(<<a, "update">>, None))
    BY <1>1, <1>2, ViewTrue
  <2>3. source' = [source EXCEPT ![a] = r]
    BY <1>2
  <2> HIDE DEF r, a
  <2> QED
    BY <1>1, <2>1, <2>2, <2>3, SourceStep
<1>3. CASE (Fail(p, "other") \/ End(p)) /\ UNCHANGED source
  <2>1. Only(p) /\ TaskFacts(p)'
    BY <1>1, <1>3, EndMoves, FailMoves DEF MinterInv, Codes
  <2> QED
    BY <1>1, <1>3, <2>1, TaskStep DEF Same, MinterInv, TypeOK
<1> QED
  BY <1>2, <1>3 DEF Project

LEMMA EnrollKeeps ==
  ASSUME MinterInv, NEW a \in Agents, Enroll(a)
  PROVE  MinterInv'
<1>1. source' \in [Agents -> Source] /\ \A b \in Agents : source'[b].existing = source[b].existing
  <2> DEFINE r == [source[a] EXCEPT !.status = "pending"]
  <2>1. source[a] \in Source /\ source \in [Agents -> Source]
    BY DEF MinterInv, TypeOK
  <2>2. r \in Source /\ r.existing = source[a].existing
    BY <2>1 DEF Source, Statuses
  <2>3. source' = [source EXCEPT ![a] = r]
    BY DEF Enroll
  <2> HIDE DEF r
  <2> QED
    BY <2>1, <2>2, <2>3
<1>2. TypeOK'
  BY <1>1 DEF Enroll, MinterInv, TypeOK, ledger, world, Enrolled, Height
<1>3. Grows /\ Recorded' = Recorded /\ UNCHANGED <<jobs, chain, task>>
  BY DEF Enroll, ledger, world, Grows, Tx, Enrolled, Recorded, MinterInv, TypeOK
<1>4. LedgerInv' /\ ChainInv' /\ TasksInv'
  BY <1>2, <1>3, LedgerKeeps, ChainKeeps, FactsStay DEF MinterInv, TasksInv
<1>5. SourceInv'
  BY <1>1, <1>2, <1>3, FinalStays DEF MinterInv, SourceInv
<1> QED
  BY <1>2, <1>4, <1>5 DEF MinterInv

-----------------------------------------------------------------------------
(* Steps that write the ledger.                                            *)

RowsKept ==
  /\ txs' \in [Key -> TxRow \cup {None}]
  /\ \A k \in Recorded : k \in Recorded' /\ Tx(k)' = Tx(k)

LEMMA RowsSame ==
  ASSUME TypeOK, UNCHANGED txs
  PROVE  RowsKept /\ Recorded' = Recorded
BY DEF RowsKept, Recorded, Tx, TypeOK

\* A row that is marked is the same transaction.
LEMMA OutSet ==
  ASSUME TypeOK, NEW k \in Recorded, NEW out \in {"open", "success", "reverted"}, txs' = [txs EXCEPT ![k].out = out]
  PROVE  RowsKept /\ Recorded' = Recorded
<1> DEFINE r == [txs[k] EXCEPT !.out = out]
<1>1. k \in Key /\ txs[k] \in TxRow /\ txs \in [Key -> TxRow \cup {None}]
  BY DEF TypeOK, Recorded, Key
<1>2. r \in TxRow /\ r.nonce = txs[k].nonce /\ r.cost = txs[k].cost /\ r # None
  BY <1>1 DEF TxRow
<1>3. txs' = [txs EXCEPT ![k] = r]
  OBVIOUS
<1> HIDE DEF r
<1> QED
  BY <1>1, <1>2, <1>3 DEF RowsKept, Recorded, Tx, Key

\* A process writes its agent's job, and perhaps a row of that job.
LEMMA JobGrows ==
  ASSUME MinterInv, NEW p \in Procs, NEW a \in Enrolled, NEW j \in Job,
         jobs' = [jobs EXCEPT ![a] = j], (j.status = "blocked") <=> (j.error # None), JobFinal(a, j),
         RowsKept, \A k \in Recorded' : k \in Recorded \/ k[1] = a,
         next' \in Nat \cup {None}, UNCHANGED <<source, fence, world>>, Only(p)
  PROVE  TypeOK' /\ Grows /\ Enrolled' = Enrolled
<1>1. a \in Agents /\ jobs' \in [Agents -> Job \cup {None}] /\ jobs'[a] = j /\ j # None
      /\ \A b \in Agents \ {a} : jobs'[b] = jobs[b]
  BY DEF Enrolled, MinterInv, TypeOK
<1>2. Enrolled' = Enrolled
  BY <1>1 DEF Enrolled
<1>3. \A b \in Enrolled : (jobs'[b].status = "blocked") <=> (jobs'[b].error # None)
  BY <1>1, <1>2 DEF MinterInv, TypeOK, Enrolled
<1>4. TypeOK'
  BY <1>1, <1>2, <1>3 DEF MinterInv, TypeOK, world, Only, RowsKept, Height
<1>5. Grows
  BY <1>2 DEF Grows, RowsKept, world, MinterInv, TypeOK
<1> QED
  BY <1>2, <1>4, <1>5

LEMMA JobStep ==
  ASSUME MinterInv, NEW p \in Procs, NEW a \in Enrolled, NEW j \in Job,
         jobs' = [jobs EXCEPT ![a] = j], (j.status = "blocked") <=> (j.error # None), JobFinal(a, j),
         RowsKept, \A k \in Recorded' : k \in Recorded \/ k[1] = a,
         next' \in Nat \cup {None}, UNCHANGED <<source, fence, world>>, Only(p), TaskFacts(p)'
  PROVE  MinterInv'
<1>1. a \in Agents /\ jobs' \in [Agents -> Job \cup {None}] /\ jobs'[a] = j /\ j # None
      /\ \A b \in Agents \ {a} : jobs'[b] = jobs[b]
  BY DEF Enrolled, MinterInv, TypeOK
<1>2. Enrolled' = Enrolled /\ TypeOK' /\ Grows
  BY JobGrows
<1>3. LedgerInv'
  <2>1. ASSUME NEW k \in Recorded' PROVE jobs'[k[1]] # None
    <3>1. jobs[k[1]] # None /\ k[1] \in Agents
      BY DEF MinterInv, LedgerInv, Recorded, Enrolled
    <3> QED
      BY <1>1, <3>1
  <2>2. ASSUME NEW b \in Enrolled' PROVE JobFinal(b, jobs[b])'
    <3>1. CASE b = a
      BY <1>1, <1>2, <3>1, FinalStays DEF JobFinal, MinterInv
    <3>2. CASE b # a
      <4>1. jobs'[b] = jobs[b] /\ JobFinal(b, jobs[b])
        BY <1>1, <1>2, <3>2 DEF MinterInv, LedgerInv, Enrolled
      <4> QED
        BY <1>2, <4>1, FinalStays DEF JobFinal, MinterInv
    <3> QED
      BY <3>1, <3>2
  <2> QED
    BY <2>1, <2>2 DEF LedgerInv
<1>4. SourceInv' /\ ChainInv'
  BY <1>2, SourceKeeps, ChainKeeps DEF MinterInv, world
<1>5. TasksInv'
  BY <1>2, TasksKeep DEF MinterInv, Only
<1> QED
  BY <1>2, <1>3, <1>4, <1>5 DEF MinterInv

\* A process fails or looks again without writing a job; a row may be marked.
LEMMA RowStep ==
  ASSUME MinterInv, NEW p \in Procs, RowsKept, Recorded' = Recorded,
         UNCHANGED <<jobs, next, source, fence, world>>, Only(p), TaskFacts(p)'
  PROVE  MinterInv'
<1>1. TypeOK'
  BY DEF MinterInv, TypeOK, world, Only, RowsKept, Enrolled, Height
<1>2. Grows
  BY DEF Grows, RowsKept, world, Enrolled, MinterInv, TypeOK
<1>3. LedgerInv' /\ SourceInv' /\ ChainInv'
  BY <1>1, <1>2, LedgerKeeps, SourceKeeps, ChainKeeps DEF MinterInv, world
<1>4. TasksInv'
  BY <1>1, <1>2, TasksKeep DEF MinterInv, Only
<1> QED
  BY <1>1, <1>3, <1>4 DEF MinterInv

\* What p keeps in hand stays true.
LEMMA KeptJob ==
  ASSUME TypeOK, TypeOK', Grows, NEW p \in Procs, TaskFacts(p), UNCHANGED <<task[p].a, task[p].job>>
  PROVE  task'[p].job # None => task'[p].a \in Enrolled' /\ JobFinal(task[p].a, task[p].job)'
<1>1. task[p].job # None => JobFinal(task[p].a, task[p].job)'
  BY FinalStays DEF TaskFacts, JobFinal
<1> QED
  BY <1>1 DEF TaskFacts, Grows

LEMMA KeptTx ==
  ASSUME Grows, NEW p \in Procs, TaskFacts(p), UNCHANGED <<task[p].a, task[p].tx>>
  PROVE  task'[p].tx # None => task'[p].a \in Enrolled' /\ Known(task[p].tx)' /\ task'[p].tx.key[1] = task'[p].a
BY DEF TaskFacts, Known, Grows

LEMMA BlockKeeps ==
  ASSUME MinterInv, NEW p \in Procs, Block(p)
  PROVE  MinterInv'
<1> DEFINE a == task[p].a
           j == IF jobs[a].done = 0
                THEN [jobs[a] EXCEPT !.status = "blocked", !.error = task[p].code] ELSE jobs[a]
           r == [At("project-blocked") EXCEPT !.a = a, !.job = j]
<1>1. /\ UNCHANGED <<source, txs, next, fence, world>> /\ task[p] \in TaskType
      /\ a \in Enrolled /\ jobs[a] \in Job /\ JobFinal(a, jobs[a]) /\ task[p].code # None
      /\ (jobs[a].status = "blocked") <=> (jobs[a].error # None)
  BY DEF Block, MinterInv, TypeOK, LedgerInv, TasksInv, TaskFacts, Enrolled
<1>2. j \in Job /\ ((j.status = "blocked") <=> (j.error # None)) /\ JobFinal(a, j)
  <2>1. CASE jobs[a].done = 0
    <3>1. j = [jobs[a] EXCEPT !.status = "blocked", !.error = task[p].code]
      BY <2>1
    <3>2. j \in Job /\ j.status = "blocked" /\ j.error = task[p].code /\ j.minted = jobs[a].minted
      BY <1>1, <3>1 DEF Job, Statuses, TaskType
    <3> QED
      BY <1>1, <3>2 DEF JobFinal
  <2>2. CASE jobs[a].done # 0
    BY <1>1, <2>2
  <2> QED
    BY <2>1, <2>2
<1>3. r \in TaskType /\ r.at = "project-blocked" /\ r.a = a /\ r.job = j /\ r.tx = None
  BY <1>1, <1>2 DEF At, TaskType, Places, Codes, Enrolled
<1>4. jobs' = [jobs EXCEPT ![a] = j] /\ task' = [task EXCEPT ![p] = r]
  BY DEF Block
<1> HIDE DEF a, j, r
<1>5. Only(p) /\ task'[p] = r
  BY <1>3, <1>4, Moves DEF MinterInv
<1>6. RowsKept /\ Recorded' = Recorded /\ next' \in Nat \cup {None}
  BY <1>1, RowsSame DEF MinterInv, TypeOK
<1>7. TypeOK' /\ Grows /\ Enrolled' = Enrolled
  BY <1>1, <1>2, <1>4, <1>5, <1>6, JobGrows
<1>8. JobFinal(a, j) /\ a = task'[p].a /\ j = task'[p].job
  BY <1>2, <1>3, <1>5
<1>9. JobFinal(task[p].a, task[p].job)'
  BY <1>7, <1>8, FinalStays DEF JobFinal, MinterInv
<1>10. /\ task'[p].at = "project-blocked" /\ task'[p].tx = None
       /\ task'[p].a \in Enrolled' /\ task'[p].job # None
  BY <1>1, <1>2, <1>3, <1>5, <1>7
<1>11. TaskFacts(p)'
  BY <1>9, <1>10 DEF TaskFacts, OnJob, InHand
<1> QED
  BY <1>1, <1>2, <1>4, <1>5, <1>6, <1>11, JobStep

\* The receipt in hand is the final one of the recorded transaction in hand.
LEMMA SeenIsFinal ==
  ASSUME MinterInv, NEW p \in Procs, task[p].at \in {"mint", "settle"}
  PROVE  /\ task[p].tx # None /\ task[p].tx.key \in Recorded /\ task[p].tx.key \in Key
         /\ task[p].tx.key[1] = task[p].a /\ task[p].a \in Enrolled
         /\ Final(task[p].tx.key, task[p].seen.entry.id)
         /\ task[p].seen.entry.id \in Ids \cup {None}
         /\ task[p].tx.key[2] # "register" => task[p].seen.entry.id = None
<1> DEFINE s == task[p].seen
           t == task[p].tx
<1>1. /\ t # None /\ t.key \in Recorded /\ t = Tx(t.key) /\ t.key[1] = task[p].a /\ task[p].a \in Enrolled
      /\ s.entry.tx = t /\ s.entry.out = "success" /\ s.pos \in 1 .. chain.final /\ chain.mined[s.pos] = s.entry
  BY DEF MinterInv, TasksInv, TaskFacts, InHand, SeenFinal, Known
<1>2. s.pos \in DOMAIN chain.mined /\ chain.mined[s.pos] \in Entry
  BY <1>1, ChainNow
<1>3. s.entry.id # None <=> t.key[2] = "register"
  BY <1>1, <1>2 DEF MinterInv, ChainInv
<1> QED
  BY <1>1, <1>2, <1>3 DEF Final, OnChain, Entry, Recorded, Key

LEMMA JudgeKeeps ==
  ASSUME MinterInv, NEW p \in Procs, Judge(p)
  PROVE  MinterInv'
<1> DEFINE s == task[p].seen
           t == task[p].tx
<1>1. /\ UNCHANGED <<source, jobs, next, fence, world>> /\ TaskFacts(p) /\ task[p] \in TaskType
      /\ task[p].at = "judge" /\ task[p].job # None /\ t # None /\ task[p].a \in Enrolled
      /\ t.key \in Recorded /\ s # None /\ s.pos > 0 /\ s \in Receipts
  BY DEF Judge, MinterInv, TasksInv, TaskFacts, OnJob, InHand, TypeOK, TaskType, Known
<1>2. Enrolled' = Enrolled /\ fence' \in Procs \cup {None}
  BY <1>1 DEF Enrolled, MinterInv, TypeOK
<1>3. CASE Look(p) /\ UNCHANGED txs
  <2>1. Only(p) /\ TaskFacts(p)'
    BY <1>1, <1>2, <1>3, LookMoves DEF MinterInv
  <2> QED
    BY <1>1, <1>3, <2>1, RowsSame, RowStep DEF MinterInv
<1>4. CASE Fail(p, "other") /\ (Finalized(t.key, "reverted") \/ UNCHANGED txs)
  <2>1. Only(p) /\ TaskFacts(p)'
    BY <1>1, <1>2, <1>4, FailMoves DEF MinterInv, Codes
  <2>2. RowsKept /\ Recorded' = Recorded
    BY <1>1, <1>4, RowsSame, OutSet DEF Finalized, MinterInv
  <2> QED
    BY <1>1, <2>1, <2>2, RowStep
<1>5. CASE /\ Settled(s) /\ s.entry.out = "success" /\ UNCHANGED txs
           /\ Goto(p, IF t.key[2] = "register" /\ task[p].job.minted = None THEN "mint" ELSE "settle")
  <2>1. PICK pc \in {"mint", "settle"} : Goto(p, pc) /\ (pc = "mint" => t.key[2] = "register")
    BY <1>5
  <2>2. Only(p) /\ task'[p] = [task[p] EXCEPT !.at = pc]
    <3>1. pc \in Places
      BY DEF Places
    <3> QED
      BY <2>1, <3>1, GotoMoves DEF MinterInv
  <2>3. task'[p].at = pc /\ UNCHANGED <<task[p].a, task[p].job, task[p].tx, task[p].seen, task[p].quote, task[p].code>>
    BY <1>1, <2>2 DEF TaskType
  <2>4. UNCHANGED <<ledger, world>>
    BY <1>1, <1>5 DEF ledger
  <2>5. SeenFinal(p)'
    BY <1>1, <1>5, <2>3, <2>4, ChainNow DEF SeenFinal, Settled, world, Receipts
  <2>6. TaskFacts(p)'
    BY <1>1, <1>2, <2>1, <2>3, <2>4, <2>5, SameFacts DEF TaskFacts, OnJob, InHand
  <2> QED
    BY <1>1, <1>5, <2>2, <2>6, RowsSame, RowStep DEF MinterInv
<1> QED
  BY <1>3, <1>4, <1>5 DEF Judge

\* The status a final receipt gives a job is not the last one.
LEMMA UnblockedJob ==
  ASSUME NEW j \in Job, (j.status = "blocked") <=> (j.error # None)
  PROVE  /\ Unblocked(j) \in Job /\ Unblocked(j).minted = j.minted /\ Unblocked(j).status # "registered"
         /\ (Unblocked(j).status = "blocked") <=> (Unblocked(j).error # None)
<1>1. CASE j.status = "blocked"
  BY <1>1 DEF Unblocked
<1>2. CASE j.status # "blocked"
  BY <1>2 DEF Unblocked, Job, Statuses
<1> QED
  BY <1>1, <1>2

LEMMA MintKeeps ==
  ASSUME MinterInv, NEW p \in Procs, Mint(p)
  PROVE  MinterInv'
<1> DEFINE a == task[p].a
           id == task[p].seen.entry.id
           u == Unblocked(jobs[a])
           j == [u EXCEPT !.minted = id]
<1>1. /\ UNCHANGED <<source, txs, next, fence, world>> /\ task[p] \in TaskType /\ TaskFacts(p)
      /\ a \in Enrolled /\ jobs[a] \in Job /\ task[p].at = "mint" /\ task[p].tx.key[2] = "register"
      /\ ((jobs[a].status = "blocked") <=> (jobs[a].error # None)) /\ task[p].tx # None
  BY DEF Mint, MinterInv, TypeOK, TasksInv, TaskFacts, Enrolled, OnJob, InHand
<1>2. id \in Ids \cup {None} /\ Final(<<a, "register">>, id)
  <2>1. task[p].tx.key = <<a, "register">>
    BY <1>1, SeenIsFinal DEF Key
  <2> QED
    BY <1>1, <2>1, SeenIsFinal
<1>3. /\ u \in Job /\ u.status # "registered" /\ ((u.status = "blocked") <=> (u.error # None))
  BY <1>1, UnblockedJob
<1>4. /\ j \in Job /\ ((j.status = "blocked") <=> (j.error # None))
      /\ j.minted = id /\ j.status # "registered"
  <2> HIDE DEF u, id
  <2> QED
    BY <1>2, <1>3 DEF Job
<1>5. JobFinal(a, j)
  <2> HIDE DEF j, a, id
  <2> QED
    BY <1>2, <1>4 DEF JobFinal
<1>6. CASE Fail(p, "other") /\ UNCHANGED jobs
  <2>1. Enrolled' = Enrolled /\ fence' \in Procs \cup {None}
    BY <1>1, <1>6 DEF Enrolled, MinterInv, TypeOK
  <2>2. Only(p) /\ TaskFacts(p)'
    BY <1>1, <1>6, <2>1, FailMoves DEF MinterInv, Codes
  <2> QED
    BY <1>1, <1>6, <2>2, RowsSame, RowStep DEF MinterInv
<1>7. CASE jobs' = [jobs EXCEPT ![a] = j] /\ Goto(p, "settle")
  <2>1. Only(p) /\ task'[p] = [task[p] EXCEPT !.at = "settle"]
    BY <1>7, GotoMoves DEF MinterInv, Places
  <2>2. task'[p].at = "settle" /\ UNCHANGED <<task[p].a, task[p].job, task[p].tx, task[p].seen>>
    BY <1>1, <2>1 DEF TaskType
  <2>3. RowsKept /\ Recorded' = Recorded /\ next' \in Nat \cup {None}
    BY <1>1, RowsSame DEF MinterInv, TypeOK
  <2>4. jobs' = [jobs EXCEPT ![a] = j]
    BY <1>7
  <2> HIDE DEF a, id, u, j
  <2>5. TypeOK' /\ Grows /\ Enrolled' = Enrolled
    BY <1>1, <1>4, <1>5, <2>1, <2>3, <2>4, JobGrows
  <2>6. /\ task'[p].job # None => task'[p].a \in Enrolled' /\ JobFinal(task[p].a, task[p].job)'
        /\ task'[p].tx # None => task'[p].a \in Enrolled' /\ Known(task[p].tx)' /\ task'[p].tx.key[1] = task'[p].a
    BY <1>1, <2>2, <2>5, KeptJob, KeptTx DEF MinterInv
  <2>7. SeenFinal(p)'
    BY <1>1, <2>2 DEF SeenFinal, TaskFacts, world
  <2>8. TaskFacts(p)'
    BY <1>1, <2>2, <2>6, <2>7 DEF TaskFacts, OnJob, InHand
  <2> QED
    BY <1>1, <1>4, <1>5, <2>1, <2>3, <2>4, <2>8, JobStep
<1> QED
  BY <1>6, <1>7 DEF Mint

LEMMA SettleKeeps ==
  ASSUME MinterInv, NEW p \in Procs, Settle(p)
  PROVE  MinterInv'
<1> DEFINE a == task[p].a
           k == task[p].tx.key
           done == [jobs[a] EXCEPT !.status = "registered", !.error = None, !.done = clock]
           j == IF k[2] = "register" THEN Unblocked(jobs[a]) ELSE done
<1>1. /\ UNCHANGED <<source, next, fence, world>> /\ task[p] \in TaskType /\ TaskFacts(p)
      /\ a \in Enrolled /\ jobs[a] \in Job /\ JobFinal(a, jobs[a]) /\ task[p].at = "settle"
      /\ ((jobs[a].status = "blocked") <=> (jobs[a].error # None)) /\ clock \in Nat
  BY DEF Settle, MinterInv, TypeOK, LedgerInv, TasksInv, TaskFacts, Enrolled, OnJob, InHand
<1>2. k \in Recorded /\ k \in Key /\ k[1] = a
  BY <1>1, SeenIsFinal
<1>3. CASE txs[k].out # "open" /\ Fail(p, "other") /\ UNCHANGED <<jobs, txs>>
  <2>1. Enrolled' = Enrolled
    BY <1>3 DEF Enrolled
  <2>2. Only(p) /\ TaskFacts(p)'
    BY <1>1, <1>3, <2>1, FailMoves DEF MinterInv, Codes
  <2> QED
    BY <1>1, <1>3, <2>2, RowsSame, RowStep DEF MinterInv
<1>4. CASE Finalized(k, "success") /\ jobs' = [jobs EXCEPT ![a] = j] /\ Look(p)
  <2>1. RowsKept /\ Recorded' = Recorded /\ next' \in Nat \cup {None}
    BY <1>1, <1>2, <1>4, OutSet DEF Finalized, MinterInv, TypeOK
  <2>2. j \in Job /\ ((j.status = "blocked") <=> (j.error # None)) /\ JobFinal(a, j)
    <3>1. CASE k[2] = "register"
      <4>1. j = Unblocked(jobs[a])
        BY <3>1
      <4> QED
        BY <1>1, <4>1, UnblockedJob DEF JobFinal
    <3>2. CASE k[2] # "register"
      <4>1. j = done /\ k = <<a, "update">>
        BY <1>2, <3>2 DEF Key, Phases
      <4>2. Final(<<a, "update">>, None)
        BY <1>1, <3>2, <4>1, SeenIsFinal
      <4>3. done \in Job /\ done.status = "registered" /\ done.error = None /\ done.minted = jobs[a].minted
        <5> DEFINE o == jobs[a]
        <5>1. o \in Job /\ clock \in Nat /\ done = [o EXCEPT !.status = "registered", !.error = None, !.done = clock]
          BY <1>1
        <5> HIDE DEF o
        <5> QED
          BY <5>1 DEF Job, Statuses, Codes
      <4> QED
        BY <1>1, <4>1, <4>2, <4>3 DEF JobFinal
    <3> QED
      BY <3>1, <3>2
  <2>3. jobs' = [jobs EXCEPT ![a] = j] /\ \A l \in Recorded' : l \in Recorded \/ l[1] = a
    BY <1>4, <2>1
  <2> HIDE DEF a, j
  <2>4. Only(p)
    BY <1>1, <1>4, LookMoves DEF MinterInv, a
  <2>5. TypeOK' /\ Grows /\ Enrolled' = Enrolled
    BY <1>1, <2>1, <2>2, <2>3, <2>4, JobGrows
  <2>6. TaskFacts(p)'
    BY <1>1, <1>4, <2>5, LookMoves DEF MinterInv, a
  <2> QED
    BY <1>1, <2>1, <2>2, <2>3, <2>4, <2>6, JobStep
<1> QED
  BY <1>3, <1>4 DEF Settle

\* Limits are amounts.
LEMMA EffectiveType ==
  ASSUME NEW p \in Procs, NEW j \in Job
  PROVE  Effective(p, j) \in Nat
BY DEF Effective, Smaller, Job

LEMMA ShrinkKeeps ==
  ASSUME MinterInv, NEW p \in Procs, Shrink(p)
  PROVE  MinterInv'
<1> DEFINE a == task[p].a
           low == Effective(p, task[p].job)
           j == [jobs[a] EXCEPT !.ceiling = low]
           pc == Ahead(task[p].job, task[p].tx, FALSE)
<1>1. /\ UNCHANGED <<source, txs, next, fence, world>> /\ task[p] \in TaskType /\ TaskFacts(p)
      /\ a \in Enrolled /\ jobs[a] \in Job /\ JobFinal(a, jobs[a]) /\ task[p].at = "shrink"
      /\ ((jobs[a].status = "blocked") <=> (jobs[a].error # None)) /\ task[p].job # None /\ task[p].job \in Job
  BY DEF Shrink, MinterInv, TypeOK, LedgerInv, TasksInv, TaskFacts, Enrolled, OnJob, InHand, TaskType
<1>2. CASE Fail(p, "fee_limit") /\ UNCHANGED jobs
  <2>1. Enrolled' = Enrolled
    BY <1>2 DEF Enrolled
  <2>2. Only(p) /\ TaskFacts(p)'
    BY <1>1, <1>2, <2>1, FailMoves DEF MinterInv, Codes
  <2> QED
    BY <1>1, <1>2, <2>2, RowsSame, RowStep DEF MinterInv
<1>3. CASE jobs' = [jobs EXCEPT ![a].ceiling = low] /\ Goto(p, pc)
  <2>1. low \in Nat
    BY <1>1, EffectiveType
  <2>2. j \in Job /\ ((j.status = "blocked") <=> (j.error # None)) /\ JobFinal(a, j)
    <3> HIDE DEF low
    <3>1. j \in Job /\ j.status = jobs[a].status /\ j.error = jobs[a].error /\ j.minted = jobs[a].minted
      BY <1>1, <2>1 DEF Job
    <3> HIDE DEF j, a
    <3> QED
      BY <1>1, <3>1 DEF JobFinal
  <2>3. pc \in {"reread", "receipt", "quote"} /\ (pc = "receipt" => task[p].tx # None)
    BY DEF Ahead
  <2>4. jobs' = [jobs EXCEPT ![a] = j]
    BY <1>3
  <2>5. Only(p) /\ task'[p] = [task[p] EXCEPT !.at = pc]
    <3>1. pc \in Places
      BY <2>3 DEF Places
    <3> QED
      BY <1>3, <3>1, GotoMoves DEF MinterInv
  <2>6. task'[p].at = pc /\ UNCHANGED <<task[p].a, task[p].job, task[p].tx>>
    BY <1>1, <2>5 DEF TaskType
  <2>7. RowsKept /\ Recorded' = Recorded /\ next' \in Nat \cup {None}
    BY <1>1, RowsSame DEF MinterInv, TypeOK
  <2> HIDE DEF a, j, pc, low
  <2>8. TypeOK' /\ Grows /\ Enrolled' = Enrolled
    BY <1>1, <2>2, <2>4, <2>5, <2>7, JobGrows
  <2>9. /\ task'[p].job # None => task'[p].a \in Enrolled' /\ JobFinal(task[p].a, task[p].job)'
        /\ task'[p].tx # None => task'[p].a \in Enrolled' /\ Known(task[p].tx)' /\ task'[p].tx.key[1] = task'[p].a
    BY <1>1, <2>6, <2>8, KeptJob, KeptTx DEF MinterInv
  <2>10. TaskFacts(p)'
    BY <1>1, <2>3, <2>6, <2>9 DEF TaskFacts, OnJob, InHand
  <2> QED
    BY <1>1, <2>2, <2>4, <2>5, <2>7, <2>10, JobStep
<1> QED
  BY <1>2, <1>3 DEF Shrink

\* A new row: no other is touched, and nothing was recorded there.
LEMMA RowAdded ==
  ASSUME TypeOK, NEW k \in Key, txs[k] = None, NEW r \in TxRow, txs' = [txs EXCEPT ![k] = r]
  PROVE  RowsKept /\ Recorded' = Recorded \cup {k}
         /\ Tx(k)' = [key |-> k, nonce |-> r.nonce, cost |-> r.cost]
<1>1. txs \in [Key -> TxRow \cup {None}] /\ txs'[k] = r /\ \A l \in Key \ {k} : txs'[l] = txs[l]
  BY DEF TypeOK
<1>2. k \notin Recorded /\ Recorded \subseteq Key
  BY DEF Recorded, Key
<1> QED
  BY <1>1, <1>2 DEF RowsKept, Recorded, Tx, Key

LEMMA RefusalType ==
  ASSUME NEW p, NEW k, NEW q
  PROVE  Refusal(p, k, q) \in Codes
BY DEF Refusal, Codes

LEMMA SignKeeps ==
  ASSUME MinterInv, NEW p \in Procs, Sign(p)
  PROVE  MinterInv'
<1> DEFINE a == task[p].a
           q == task[p].quote
           k == <<a, PhaseOf(task[p].job)>>
           o == jobs[a]
           first == k[2] = "register"
           env == Envelope(p, k, q)
           ceiling == Effective(p, o)
           j == [o EXCEPT !.status = IF first THEN "registering" ELSE "updating", !.error = None,
                          !.reg = TRUE, !.upd = ~first, !.env = env, !.ceiling = ceiling,
                          !.updLimit = IF o.updLimit = 0 THEN Limit[p] ELSE o.updLimit]
           row == [nonce |-> q.latest, cost |-> q.cost, out |-> "open"]
           t == [key |-> k, nonce |-> q.latest, cost |-> q.cost]
           r == [task[p] EXCEPT !.at = "broadcast", !.quote = None, !.tx = t]
<1>1. /\ UNCHANGED <<source, fence, world>> /\ task[p] \in TaskType /\ TaskFacts(p)
      /\ a \in Enrolled /\ a \in Agents /\ o \in Job /\ JobFinal(a, o) /\ task[p].at = "sign"
      /\ q # None /\ q \in Quotes /\ task[p].job # None
  BY DEF Sign, MinterInv, TypeOK, LedgerInv, TasksInv, TaskFacts, Enrolled, OnJob, InHand, TaskType
<1>2. CASE Refusal(p, k, q) # None /\ Fail(p, Refusal(p, k, q)) /\ UNCHANGED ledger
  <2>1. Same /\ Enrolled' = Enrolled
    BY <1>1, <1>2, SameGrows DEF Same, MinterInv
  <2>2. Refusal(p, k, q) \in Codes \ {None}
    BY <1>2, RefusalType
  <2>3. Only(p) /\ TaskFacts(p)'
    BY <1>1, <1>2, <2>1, <2>2, FailMoves DEF MinterInv
  <2> QED
    BY <1>1, <2>1, <2>3, TaskStep DEF MinterInv, TypeOK
<1>3. CASE /\ Refusal(p, k, q) = None
           /\ txs' = [txs EXCEPT ![k] = row] /\ next' = q.latest + 1
           /\ jobs' = [jobs EXCEPT ![a] = j]
           /\ task' = [task EXCEPT ![p].at = "broadcast", ![p].quote = None, ![p].tx = t]
  <2>0. jobs' = [jobs EXCEPT ![a] = j]
    BY <1>3
  <2>1. txs[k] = None
    BY <1>3 DEF Refusal, Conflicts
  <2>2. k \in Key /\ k[1] = a
    BY <1>1 DEF Key, Phases, PhaseOf
  <2>3. q.latest \in Nat /\ q.cost \in Costs /\ q.cost \in Nat
    BY <1>1 DEF Quotes
  <2>4. row \in TxRow /\ row.nonce = q.latest /\ row.cost = q.cost
    BY <2>3 DEF TxRow
  <2>5. env \in Nat /\ ceiling \in Nat /\ Limit[p] \in Nat
    BY <1>1, <2>2, <2>3, EffectiveType DEF Envelope, Job
  <2>6. first \in BOOLEAN
    OBVIOUS
  <2>7. j \in Job /\ ((j.status = "blocked") <=> (j.error # None)) /\ JobFinal(a, j)
    <3> HIDE DEF env, ceiling, first
    <3> DEFINE st == IF first THEN "registering" ELSE "updating"
               ul == IF o.updLimit = 0 THEN Limit[p] ELSE o.updLimit
    <3>1. /\ st \in Statuses \ {"none"} /\ st # "blocked" /\ st # "registered" /\ ul \in Nat
          /\ o \in Job
      BY <1>1, <2>5 DEF Statuses, Job
    <3>2. j = [o EXCEPT !.status = st, !.error = None, !.reg = TRUE, !.upd = ~first,
                        !.env = env, !.ceiling = ceiling, !.updLimit = ul]
      OBVIOUS
    <3> HIDE DEF st, ul, j, o
    <3>3. j \in Job /\ j.status = st /\ j.error = None /\ j.minted = o.minted
      BY <2>5, <2>6, <3>1, <3>2 DEF Job, Codes
    <3> HIDE DEF a
    <3> QED
      BY <1>1, <3>1, <3>3 DEF JobFinal
  <2>8. t \in TxBytes /\ t # None
    BY <2>2, <2>3 DEF TxBytes
  <2>9. r \in TaskType /\ r.at = "broadcast" /\ r.tx = t /\ r.a = a /\ r.job = task[p].job
    <3> HIDE DEF t
    <3> QED
      BY <1>1, <2>8 DEF TaskType, Places
  <2>10. task' = [task EXCEPT ![p] = r]
    <3> HIDE DEF t
    <3> QED
      BY <1>1, <1>3 DEF MinterInv, TypeOK, TaskType
  <2> HIDE DEF q, first, env, ceiling
  <2> HIDE DEF o, j, r
  <2>11. Only(p) /\ task'[p] = r
    BY <2>9, <2>10, Moves DEF MinterInv
  <2>12. RowsKept /\ Recorded' = Recorded \cup {k} /\ \A l \in Key : l = k => Tx(l)' = t
    BY <1>3, <2>1, <2>2, <2>4, RowAdded DEF MinterInv
  <2> HIDE DEF k, t, row, a
  <2>13. next' \in Nat \cup {None}
    BY <1>3, <2>3
  <2>14. TypeOK' /\ Grows /\ Enrolled' = Enrolled
    BY <1>1, <2>0, <2>2, <2>7, <2>11, <2>12, <2>13, JobGrows
  <2>15. task'[p].job # None => task'[p].a \in Enrolled' /\ JobFinal(task[p].a, task[p].job)'
    BY <1>1, <2>9, <2>11, <2>14, KeptJob DEF MinterInv, a
  <2>16. /\ task'[p].tx = t /\ t.key = k /\ k[1] = task'[p].a /\ task'[p].a \in Enrolled'
    BY <1>1, <2>2, <2>9, <2>11, <2>14 DEF t
  <2>17. Known(task[p].tx)'
    BY <2>2, <2>12, <2>16 DEF Known
  <2>18. task'[p].at = "broadcast" /\ task'[p].job # None /\ task'[p].tx.key[1] = task'[p].a
    BY <1>1, <2>9, <2>11, <2>16
  <2>19. TaskFacts(p)'
    BY <2>8, <2>15, <2>16, <2>17, <2>18 DEF TaskFacts, OnJob, InHand
  <2> QED
    BY <1>1, <2>0, <2>2, <2>7, <2>11, <2>12, <2>13, <2>19, JobStep
<1> QED
  BY <1>2, <1>3 DEF Sign

\* The outstanding transaction of an agent is the one of its row.
LEMMA OpenKnown ==
  ASSUME TypeOK, NEW a, NEW k \in OpenOf(a)
  PROVE  Tx(k) \in TxBytes /\ Known(Tx(k)) /\ Tx(k).key[1] = a
<1>1. k \in Recorded /\ k \in Key /\ k[1] = a /\ txs[k] \in TxRow
  BY DEF OpenOf, Open, Recorded, Key, TypeOK
<1>2. Tx(k).key = k
  BY DEF Tx
<1> QED
  BY <1>1, <1>2 DEF Tx, Known, TxBytes, TxRow

\* What step reads of the ledger for a candidate.
TxOf(a) == IF OpenOf(a) = {} THEN None ELSE Tx(CHOOSE k \in OpenOf(a) : TRUE)
HereOf(p, a) ==
  [At("step") EXCEPT !.a = a, !.job = jobs[a], !.tx = TxOf(a), !.over = OverSpent(p, jobs[a]),
                     !.send = jobs[a].status # "blocked" /\ ~OverSpent(p, jobs[a]),
                     !.code = IF OverSpent(p, jobs[a]) THEN "fee_limit" ELSE None]

LEMMA HereTrue ==
  ASSUME MinterInv, NEW p \in Procs, NEW a \in Candidate(p)
  PROVE  /\ a \in Enrolled /\ a \in Agents /\ jobs[a] \in Job /\ JobFinal(a, jobs[a])
         /\ ((jobs[a].status = "blocked") <=> (jobs[a].error # None))
         /\ TxOf(a) # None => TxOf(a) \in TxBytes /\ Known(TxOf(a)) /\ TxOf(a).key[1] = a
         /\ HereOf(p, a) \in TaskType /\ HereOf(p, a).a = a /\ HereOf(p, a).job = jobs[a]
         /\ HereOf(p, a).tx = TxOf(a)
         /\ HereOf(p, a).code = IF OverSpent(p, jobs[a]) THEN "fee_limit" ELSE None
<1>1. a \in Enrolled
  <2>1. \A k \in Open : k[1] \in Enrolled
    BY DEF Open, MinterInv, LedgerInv, Recorded, Enrolled
  <2> QED
    BY <2>1 DEF Candidate
<1>2. /\ a \in Agents /\ jobs[a] \in Job /\ JobFinal(a, jobs[a])
      /\ ((jobs[a].status = "blocked") <=> (jobs[a].error # None))
  BY <1>1 DEF Enrolled, MinterInv, TypeOK, LedgerInv
<1>3. OverSpent(p, jobs[a]) \in BOOLEAN
  BY DEF OverSpent
<1>4. TxOf(a) # None => TxOf(a) \in TxBytes /\ Known(TxOf(a)) /\ TxOf(a).key[1] = a
  <2>1. CASE OpenOf(a) = {}
    BY <2>1 DEF TxOf
  <2>2. CASE OpenOf(a) # {}
    <3>1. PICK k \in OpenOf(a) : TxOf(a) = Tx(k)
      BY <2>2 DEF TxOf
    <3> QED
      BY <3>1, OpenKnown DEF MinterInv
  <2> QED
    BY <2>1, <2>2
<1>5. /\ HereOf(p, a) \in TaskType /\ HereOf(p, a).a = a /\ HereOf(p, a).job = jobs[a]
      /\ HereOf(p, a).tx = TxOf(a)
      /\ HereOf(p, a).code = IF OverSpent(p, jobs[a]) THEN "fee_limit" ELSE None
  <2> DEFINE over == OverSpent(p, jobs[a])
             send == jobs[a].status # "blocked" /\ ~over
             code == IF over THEN "fee_limit" ELSE None
             here == [At("step") EXCEPT !.a = a, !.job = jobs[a], !.tx = TxOf(a), !.over = over,
                                        !.send = send, !.code = code]
  <2>1. over \in BOOLEAN /\ send \in BOOLEAN /\ code \in Codes /\ HereOf(p, a) = here
    BY <1>3 DEF Codes, HereOf
  <2> HIDE DEF over, send, code
  <2>2. here \in TaskType /\ here.a = a /\ here.job = jobs[a] /\ here.tx = TxOf(a) /\ here.code = code
    BY <1>2, <1>4, <2>1 DEF At, TaskType, Places
  <2> QED
    BY <2>1, <2>2 DEF code, over
<1> QED
  BY <1>1, <1>2, <1>4, <1>5

LEMMA SelectKeeps ==
  ASSUME MinterInv, NEW p \in Procs, Select(p)
  PROVE  MinterInv'
<1>1. UNCHANGED <<source, txs, next, fence, world>> /\ TypeOK
  BY DEF Select, MinterInv
<1>2. CASE End(p) /\ UNCHANGED jobs
  BY <1>1, <1>2, EndMoves, RowsSame, RowStep
<1>3. CASE ~(End(p) /\ UNCHANGED jobs)
  <2>1. PICK a \in Candidate(p) :
          /\ InScope(p, a)
          /\ IF jobs[a].status = "blocked" /\ TxOf(a) = None
             THEN IF Retryable(jobs[a])
                  THEN /\ jobs' = [jobs EXCEPT ![a] = [@ EXCEPT !.status = "pending", !.error = None]]
                       /\ task' = [task EXCEPT ![p] = [HereOf(p, a) EXCEPT !.at = "quote", !.job = jobs'[a]]]
                  ELSE /\ task' = [task EXCEPT ![p] = [At("project-blocked") EXCEPT !.a = a, !.job = jobs[a]]]
                       /\ UNCHANGED jobs
             ELSE /\ task' = [task EXCEPT ![p] = [HereOf(p, a) EXCEPT !.at =
                                IF Shrinks(p, jobs[a]) THEN "shrink" ELSE Ahead(jobs[a], TxOf(a), OverSpent(p, jobs[a]))]]
                  /\ UNCHANGED jobs
    BY <1>3 DEF Select, TxOf, HereOf
  <2> DEFINE j == jobs[a]
             tx == TxOf(a)
             over == OverSpent(p, jobs[a])
             here == HereOf(p, a)
  <2>2. /\ a \in Enrolled /\ a \in Agents /\ j \in Job /\ JobFinal(a, j)
        /\ ((j.status = "blocked") <=> (j.error # None))
        /\ tx # None => tx \in TxBytes /\ Known(tx) /\ tx.key[1] = a
        /\ here \in TaskType /\ here.a = a /\ here.job = j /\ here.tx = tx
        /\ here.code = IF over THEN "fee_limit" ELSE None
    BY <2>1, HereTrue DEF MinterInv
  <2>3. RowsKept /\ Recorded' = Recorded /\ next' \in Nat \cup {None}
    BY <1>1, RowsSame DEF TypeOK
  <2>4. IF j.status = "blocked" /\ tx = None
        THEN IF Retryable(j)
             THEN /\ jobs' = [jobs EXCEPT ![a] = [j EXCEPT !.status = "pending", !.error = None]]
                  /\ task' = [task EXCEPT ![p] = [here EXCEPT !.at = "quote", !.job = jobs'[a]]]
             ELSE /\ task' = [task EXCEPT ![p] = [At("project-blocked") EXCEPT !.a = a, !.job = j]]
                  /\ UNCHANGED jobs
        ELSE /\ task' = [task EXCEPT ![p] = [here EXCEPT !.at =
                           IF Shrinks(p, j) THEN "shrink" ELSE Ahead(j, tx, over)]]
             /\ UNCHANGED jobs
    BY <2>1
  <2> HIDE DEF tx, over, here
  <2>5. CASE j.status = "blocked" /\ tx = None /\ Retryable(j)
    <3> DEFINE n == [j EXCEPT !.status = "pending", !.error = None]
               r == [here EXCEPT !.at = "quote", !.job = n]
    <3>1. n \in Job /\ n.status = "pending" /\ n.error = None /\ n.minted = j.minted
      BY <2>2 DEF Job, Statuses, Codes
    <3>2. jobs' = [jobs EXCEPT ![a] = n] /\ jobs'[a] = n
      BY <1>1, <2>2, <2>4, <2>5 DEF TypeOK
    <3>3. JobFinal(a, n)
      BY <2>2, <3>1 DEF JobFinal
    <3> HIDE DEF n
    <3>4. r \in TaskType /\ r.at = "quote" /\ r.a = a /\ r.job = n /\ r.tx = None
      BY <2>2, <2>5, <3>1 DEF TaskType, Places
    <3>5. task' = [task EXCEPT ![p] = r]
      BY <2>4, <2>5, <3>2
    <3> HIDE DEF r
    <3>6. Only(p) /\ task'[p] = r
      BY <1>1, <3>4, <3>5, Moves
    <3>7. TypeOK' /\ Grows /\ Enrolled' = Enrolled
      BY <1>1, <2>2, <2>3, <3>1, <3>2, <3>3, <3>6, JobGrows
    <3>8. JobFinal(task[p].a, task[p].job)'
      BY <1>1, <3>3, <3>4, <3>6, <3>7, FinalStays DEF JobFinal
    <3>9. task'[p].at = "quote" /\ task'[p].tx = None /\ task'[p].a \in Enrolled' /\ task'[p].job # None
      BY <2>2, <3>1, <3>4, <3>6, <3>7
    <3>10. TaskFacts(p)'
      BY <3>8, <3>9 DEF TaskFacts, OnJob, InHand
    <3> QED
      BY <1>1, <2>2, <2>3, <3>1, <3>2, <3>3, <3>6, <3>10, JobStep
  <2>6. ASSUME NEW r \in TaskType, task' = [task EXCEPT ![p] = r], UNCHANGED jobs,
               r.a = a, r.job = j, r.tx \in {tx, None},
               r.at \in {"project-blocked", "shrink", "reread", "receipt", "quote", "block"},
               r.at = "receipt" => r.tx # None, r.at = "block" => r.code # None
        PROVE  MinterInv'
    <3>1. Only(p) /\ task'[p] = r
      BY <1>1, <2>6, Moves
    <3>2. Same /\ Enrolled' = Enrolled
      BY <1>1, <2>6, SameGrows DEF Same, ledger
    <3>3. UNCHANGED <<jobs, txs, chain>>
      BY <1>1, <2>6 DEF world
    <3>4. JobFinal(task[p].a, task[p].job)'
      BY <2>2, <2>6, <3>1, <3>3 DEF JobFinal, Final, OnChain, Recorded, Tx
    <3>5. task'[p].tx # None => Known(task[p].tx)' /\ task'[p].tx.key[1] = task'[p].a
      BY <2>2, <2>6, <3>1, <3>3 DEF Known, Recorded, Tx
    <3>6. task'[p].a \in Enrolled' /\ task'[p].job # None
      BY <2>2, <2>6, <3>1, <3>2
    <3>7. TaskFacts(p)'
      BY <2>6, <3>1, <3>4, <3>5, <3>6 DEF TaskFacts, OnJob, InHand
    <3> QED
      BY <1>1, <3>1, <3>2, <3>7, TaskStep DEF TypeOK
  <2>7. CASE j.status = "blocked" /\ tx = None /\ ~Retryable(j)
    <3> DEFINE r == [At("project-blocked") EXCEPT !.a = a, !.job = j]
    <3>1. r \in TaskType /\ r.at = "project-blocked" /\ r.a = a /\ r.job = j /\ r.tx = None
      BY <2>2 DEF At, TaskType, Places, Codes
    <3>2. task' = [task EXCEPT ![p] = r] /\ UNCHANGED jobs
      BY <2>4, <2>7
    <3> HIDE DEF r
    <3> QED
      BY <2>6, <3>1, <3>2
  <2>8. CASE ~(j.status = "blocked" /\ tx = None)
    <3> DEFINE pc == IF Shrinks(p, j) THEN "shrink" ELSE Ahead(j, tx, over)
               r == [here EXCEPT !.at = pc]
    <3>1. /\ pc \in {"shrink", "reread", "receipt", "quote", "block"}
          /\ pc = "receipt" => tx # None
          /\ pc = "block" => over
      BY DEF Ahead
    <3>2. task' = [task EXCEPT ![p] = r] /\ UNCHANGED jobs
      BY <2>4, <2>8
    <3> HIDE DEF pc
    <3>3. /\ r \in TaskType /\ r.at = pc /\ r.a = a /\ r.job = j /\ r.tx = tx
          /\ r.code = IF over THEN "fee_limit" ELSE None
      BY <2>2, <3>1 DEF TaskType, Places
    <3> HIDE DEF r
    <3>4. pc = "block" => r.code # None
      BY <3>1, <3>3
    <3> QED
      BY <2>6, <3>1, <3>2, <3>3, <3>4
  <2> QED
    BY <2>5, <2>7, <2>8
<1> QED
  BY <1>2, <1>3

\* Jobs are opened, or opened again, without a word of the chain: all keep their ids.
LEMMA JobsStep ==
  ASSUME MinterInv, jobs' \in [Agents -> Job \cup {None}], UNCHANGED <<txs, fence, world>>,
         source' \in [Agents -> Source], next' \in Nat \cup {None}, task' \in [Procs -> TaskType],
         \A a \in Agents : source'[a].existing = source[a].existing,
         \A a \in Agents : jobs[a] # None => jobs'[a] # None /\ jobs'[a].minted = jobs[a].minted,
         \A a \in Agents : jobs[a] = None => jobs'[a] = None \/ jobs'[a].minted = None,
         \A a \in Enrolled' : /\ (jobs'[a].status = "blocked") <=> (jobs'[a].error # None)
                              /\ jobs'[a].status = "registered" => a \in Enrolled /\ jobs[a].status = "registered"
  PROVE  TypeOK' /\ Grows /\ LedgerInv' /\ SourceInv' /\ ChainInv'
<1>1. TypeOK'
  BY DEF MinterInv, TypeOK, world, Height
<1>2. Grows /\ Recorded' = Recorded
  <2>1. UNCHANGED <<chain, txs>> /\ chain.final \in Nat
    BY DEF world, MinterInv, TypeOK
  <2>2. Enrolled \subseteq Enrolled'
    BY DEF Enrolled
  <2> QED
    BY <2>1, <2>2 DEF Grows, Tx, Recorded
<1>3. \A k \in Recorded' : jobs'[k[1]] # None
  BY <1>2 DEF MinterInv, LedgerInv, Recorded
<1>4. ASSUME NEW a \in Enrolled' PROVE JobFinal(a, jobs[a])'
  <2>1. a \in Agents /\ jobs'[a] # None
    BY DEF Enrolled
  <2>2. jobs'[a].minted # None => a \in Enrolled /\ JobFinal(a, jobs[a]) /\ jobs'[a].minted = jobs[a].minted
    BY <2>1 DEF Enrolled, MinterInv, LedgerInv
  <2>3. jobs'[a].status = "registered" => a \in Enrolled /\ JobFinal(a, jobs[a]) /\ jobs[a].status = "registered"
    BY DEF MinterInv, LedgerInv
  <2>4. jobs'[a].minted # None => Final(<<a, "register">>, jobs'[a].minted)
    BY <2>2 DEF JobFinal
  <2>5. jobs'[a].status = "registered" => Final(<<a, "update">>, None)
    BY <2>3 DEF JobFinal
  <2> QED
    BY <1>1, <1>2, <2>4, <2>5, FinalStays DEF JobFinal, MinterInv
<1>5. SourceInv'
  BY <1>1, <1>2, FinalStays DEF MinterInv, SourceInv
<1>6. ChainInv'
  BY <1>2, ChainKeeps DEF MinterInv, world
<1> QED
  BY <1>1, <1>2, <1>3, <1>4, <1>5, <1>6 DEF LedgerInv

LEMMA NewJobTrue ==
  NewJob \in Job /\ NewJob # None /\ NewJob.minted = None /\ NewJob.status = "pending" /\ NewJob.error = None
<1>1. NewJob \in Job /\ NewJob.minted = None /\ NewJob.status = "pending" /\ NewJob.error = None
  BY DEF NewJob, Job, Statuses, Codes
<1> QED
  BY <1>1

LEMMA DiscoverKeeps ==
  ASSUME MinterInv, NEW p \in Procs, Discover(p)
  PROVE  MinterInv'
<1> DEFINE opens(a) == InScope(p, a) /\ source[a].status = "pending"
<1>1. UNCHANGED <<source, txs, next, fence, world>>
  BY DEF Discover
<1>2. /\ jobs \in [Agents -> Job \cup {None}]
      /\ jobs' = [a \in Agents |-> IF jobs[a] = None /\ opens(a) THEN NewJob ELSE jobs[a]]
  BY DEF Discover, MinterInv, TypeOK
<1> HIDE DEF opens
<1>3. /\ jobs' \in [Agents -> Job \cup {None}]
      /\ \A a \in Agents : jobs[a] # None => jobs'[a] = jobs[a]
      /\ \A a \in Agents : jobs[a] = None => jobs'[a] \in {None, NewJob}
  BY <1>2, NewJobTrue
<1>4. \A a \in Agents : jobs[a] # None => jobs'[a] # None /\ jobs'[a].minted = jobs[a].minted
  BY <1>3
<1>5. \A a \in Agents : jobs[a] = None => jobs'[a] = None \/ jobs'[a].minted = None
  BY <1>3, NewJobTrue
<1>6. ASSUME NEW a \in Enrolled'
      PROVE  /\ (jobs'[a].status = "blocked") <=> (jobs'[a].error # None)
             /\ jobs'[a].status = "registered" => a \in Enrolled /\ jobs[a].status = "registered"
  <2>1. a \in Agents /\ jobs'[a] # None
    BY DEF Enrolled
  <2>2. CASE jobs[a] # None
    BY <1>3, <2>1, <2>2 DEF MinterInv, TypeOK, Enrolled
  <2>3. CASE jobs[a] = None
    BY <1>3, <2>1, <2>3, NewJobTrue
  <2> QED
    BY <2>2, <2>3
<1>7. PICK pc \in {"done", "reproject"} : Goto(p, pc)
  BY DEF Discover
<1>8. Only(p) /\ task'[p] = [task[p] EXCEPT !.at = pc]
  <2>1. pc \in Places
    BY DEF Places
  <2> QED
    BY <1>7, <2>1, GotoMoves DEF MinterInv
<1>9. TypeOK' /\ Grows /\ LedgerInv' /\ SourceInv' /\ ChainInv'
  <2>1. source' \in [Agents -> Source] /\ next' \in Nat \cup {None} /\ task' \in [Procs -> TaskType]
        /\ \A a \in Agents : source'[a].existing = source[a].existing
    BY <1>1, <1>8 DEF MinterInv, TypeOK, Only
  <2> QED
    BY <1>1, <1>3, <1>4, <1>5, <1>6, <2>1, JobsStep
<1>10. TaskFacts(p) /\ task[p] \in TaskType
  BY DEF MinterInv, TasksInv, TypeOK
<1>11. task'[p].at = pc /\ UNCHANGED <<task[p].a, task[p].job, task[p].tx>>
  BY <1>8, <1>10 DEF TaskType
<1>12. /\ task'[p].job # None => task'[p].a \in Enrolled' /\ JobFinal(task[p].a, task[p].job)'
       /\ task'[p].tx # None => task'[p].a \in Enrolled' /\ Known(task[p].tx)' /\ task'[p].tx.key[1] = task'[p].a
  BY <1>9, <1>10, <1>11, KeptJob, KeptTx DEF MinterInv
<1>13. TaskFacts(p)'
  BY <1>11, <1>12 DEF TaskFacts, OnJob, InHand
<1>14. TasksInv'
  BY <1>8, <1>9, <1>13, TasksKeep DEF MinterInv, Only
<1> QED
  BY <1>9, <1>14 DEF MinterInv

LEMMA ResyncKeeps ==
  ASSUME MinterInv, Resync
  PROVE  MinterInv'
<1> DEFINE j(a) == [jobs[a] EXCEPT !.status = "pending", !.error = None]
           s(a) == [source[a] EXCEPT !.status = "pending", !.error = None]
<1>1. /\ UNCHANGED <<txs, fence, task, world>> /\ next' = Height
      /\ jobs' = [a \in Agents |-> IF Cleared(a) THEN j(a) ELSE jobs[a]]
      /\ source' = [a \in Agents |-> IF Cleared(a) THEN s(a) ELSE source[a]]
      /\ jobs \in [Agents -> Job \cup {None}] /\ source \in [Agents -> Source]
  BY DEF Resync, MinterInv, TypeOK
<1>2. ASSUME NEW a \in Agents, jobs[a] # None
      PROVE  j(a) \in Job /\ j(a).minted = jobs[a].minted /\ j(a).status = "pending" /\ j(a).error = None
  <2>1. jobs[a] \in Job
    BY <1>1, <1>2
  <2> QED
    BY <2>1 DEF Job, Statuses, Codes
<1>3. ASSUME NEW a \in Agents PROVE s(a) \in Source /\ s(a).existing = source[a].existing
  <2>1. source[a] \in Source
    BY <1>1
  <2> QED
    BY <2>1 DEF Source, Statuses, Codes
<1> HIDE DEF j, s
<1>4. \A a \in Agents : Cleared(a) => jobs[a] # None
  BY DEF Cleared
<1>5. \A a \in Agents : jobs'[a] = IF Cleared(a) THEN j(a) ELSE jobs[a]
  BY <1>1
<1>6. jobs' \in [Agents -> Job \cup {None}]
  BY <1>1, <1>2, <1>4
<1>7. source' \in [Agents -> Source] /\ \A a \in Agents : source'[a].existing = source[a].existing
  BY <1>1, <1>3
<1>8. \A a \in Agents : jobs[a] # None => jobs'[a] # None /\ jobs'[a].minted = jobs[a].minted
  BY <1>2, <1>5
<1>9. \A a \in Agents : jobs[a] = None => jobs'[a] = None \/ jobs'[a].minted = None
  BY <1>4, <1>5
<1>10. ASSUME NEW a \in Enrolled'
       PROVE  /\ (jobs'[a].status = "blocked") <=> (jobs'[a].error # None)
              /\ jobs'[a].status = "registered" => a \in Enrolled /\ jobs[a].status = "registered"
  <2>1. a \in Agents /\ jobs[a] # None /\ a \in Enrolled
    BY <1>9, <1>4, <1>5 DEF Enrolled
  <2>2. CASE Cleared(a)
    BY <1>2, <1>5, <2>1, <2>2
  <2>3. CASE ~Cleared(a)
    BY <1>5, <2>1, <2>3 DEF MinterInv, TypeOK
  <2> QED
    BY <2>2, <2>3
<1>11. next' \in Nat \cup {None} /\ task' \in [Procs -> TaskType]
  BY <1>1, ChainNow DEF MinterInv, TypeOK, Height
<1>12. TypeOK' /\ Grows /\ LedgerInv' /\ SourceInv' /\ ChainInv'
  BY <1>1, <1>6, <1>7, <1>8, <1>9, <1>10, <1>11, JobsStep
<1>13. TasksInv'
  BY <1>1, <1>12, FactsStay DEF MinterInv, TasksInv
<1> QED
  BY <1>12, <1>13 DEF MinterInv
-----------------------------------------------------------------------------
(* The theorems.                                                           *)

LEMMA MinterInit == Init => MinterInv
<1> SUFFICES ASSUME Init PROVE MinterInv
  OBVIOUS
<1>1. /\ Enrolled = {} /\ Recorded = {} /\ Height = 0 /\ Published = {}
      /\ chain.pool = {} /\ chain.mined = <<>> /\ chain.final = 0
  BY DEF Init, Enrolled, Recorded, Height, Published
<1>2. source \in [Agents -> Source] /\ \A a \in Agents : source[a].existing = None
  BY DEF Init, Source, Statuses, Codes
<1>3. task \in [Procs -> TaskType] /\ \A p \in Procs : task[p] = At("off")
  <2>1. At("off") \in TaskType
    BY AtType DEF Places
  <2> QED
    BY <2>1 DEF Init
<1>4. chain \in ChainType
  BY DEF Init, ChainType
<1>5. TypeOK
  <2>1. jobs \in [Agents -> Job \cup {None}] /\ txs \in [Key -> TxRow \cup {None}]
    BY DEF Init, Key
  <2>2. chain \in [mined : Seq(Entry), final : Nat, pool : SUBSET TxBytes] /\ chain.final <= Height
    BY <1>1, <1>4 DEF ChainType
  <2>3. /\ next \in Nat \cup {None} /\ fence \in Procs \cup {None}
        /\ clock \in Nat /\ foreign \in Nat /\ reorgs \in Nat
    BY DEF Init
  <2> QED
    BY <1>1, <1>2, <1>3, <2>1, <2>2, <2>3 DEF TypeOK
<1>6. LedgerInv /\ SourceInv /\ ChainInv
  BY <1>1, <1>2 DEF LedgerInv, SourceInv, ChainInv
<1>7. TasksInv
  BY <1>3 DEF TasksInv, TaskFacts, At, OnJob, InHand
<1> QED
  BY <1>5, <1>6, <1>7 DEF MinterInv

LEMMA WorkKeeps ==
  ASSUME MinterInv, NEW p \in Procs, Work(p) \/ Unavailable(p) \/ SessionBreaks(p) \/ LockLost(p) \/ Crash(p)
  PROVE  MinterInv'
BY AcquireKeeps, LoopOrExitKeeps, DiscoverKeeps, ReprojectKeeps, SelectKeeps, ShrinkKeeps, QuoteKeeps,
   SignKeeps, BroadcastKeeps, ReceiptKeeps, NoncesKeeps, JudgeKeeps, MintKeeps, SettleKeeps, RereadKeeps,
   ProjectKeeps, BlockKeeps, OffKeeps, SessionBreaksKeeps DEF Work

LEMMA StutterKeeps ==
  ASSUME MinterInv, UNCHANGED vars
  PROVE  MinterInv'
<1>1. NextChain(chain') /\ clock' \in Nat /\ foreign' \in Nat /\ reorgs' \in Nat
  BY ChainNow DEF vars, MinterInv, TypeOK
<1> QED
  BY <1>1, ChainAlone DEF vars, ledger

LEMMA MinterStep == MinterInv /\ [Next]_vars => MinterInv'
<1> SUFFICES ASSUME MinterInv, [Next]_vars PROVE MinterInv'
  OBVIOUS
<1>1. ASSUME NEW p \in Procs, Work(p) \/ Unavailable(p) \/ SessionBreaks(p) \/ LockLost(p) \/ Crash(p)
      PROVE  MinterInv'
  BY <1>1, WorkKeeps
<1>2. ASSUME NEW a \in Agents, Enroll(a) PROVE MinterInv'
  BY <1>2, EnrollKeeps
<1>3. ASSUME NEW t \in chain.pool, Mine(t) \/ Evict(t) PROVE MinterInv'
  BY <1>3, MineKeeps, EvictKeeps
<1>4. CASE Resync \/ MineForeign \/ Reorg \/ Finalize \/ Tick
  BY <1>4, ResyncKeeps, MineForeignKeeps, ReorgKeeps, FinalizeKeeps, TickKeeps
<1>5. CASE UNCHANGED vars
  BY <1>5, StutterKeeps
<1> QED
  BY <1>1, <1>2, <1>3, <1>4, <1>5 DEF Next

\* The invariant is kept by every run of the minter: for every set of agents and processes,
\* whatever sessions break unnoticed, processes crash and blocks are reorganised.
THEOREM MinterInvariant == Spec => []MinterInv
BY MinterInit, MinterStep, PTL DEF Spec

\* Every variable keeps its type, and a job is blocked exactly when it has an error.
THEOREM MinterTypeCorrect == Spec => []TypeOK
<1>1. MinterInv => TypeOK
  BY DEF MinterInv
<1> QED
  BY <1>1, MinterInvariant, PTL

\* Nothing is on the chain or in a pool that the ledger does not hold: an agent is never
\* registered twice, whoever holds the lock (service.ts signs into the ledger first).
THEOREM PublishedIsRecordedAlways == Spec => []PublishedIsRecorded
<1>1. MinterInv => PublishedIsRecorded
  BY DEF MinterInv, ChainInv, Known, PublishedIsRecorded
<1> QED
  BY <1>1, MinterInvariant, PTL

\* A source names an id, and a job a minted id, only once the final chain holds it.
THEOREM RegisteredIsFinalAlways == Spec => []RegisteredIsFinal
<1>1. MinterInv => RegisteredIsFinal
  BY DEF MinterInv, LedgerInv, SourceInv, JobFinal, Final, RegisteredIsFinal
<1> QED
  BY <1>1, MinterInvariant, PTL
=============================================================================
