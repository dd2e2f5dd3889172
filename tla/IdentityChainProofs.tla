------------------------ MODULE IdentityChainProofs ------------------------
(***************************************************************************)
(* What the ledger and the minter's chain say of each other, for every set *)
(* of agents and processes.  The minter's transactions are mined at their  *)
(* nonces, so a recorded one has one place on the chain, and what the      *)
(* ledger decided is there, in a final block: IdentityMinter implements    *)
(* AgentRegistrations.  And what any day of the chain took in fees is      *)
(* within the envelopes that the ledger counts against the daily ceiling.  *)
(***************************************************************************)
EXTENDS IdentityFeeProofs

-----------------------------------------------------------------------------
(* The invariant.                                                          *)

\* The chain takes the key's transactions in the order of their nonces.
SlotsInv == \A i \in DOMAIN chain.mined : chain.mined[i].tx # None => chain.mined[i].tx.nonce = i - 1

\* A row that is decided says what its final block says.
DecidedInv == \A k \in Recorded : txs[k].out # "open" => Outcome(k) = txs[k].out

RegistrationsInv == FeeInv /\ SlotsInv /\ DecidedInv

USE MinterAssumption, NullAssumption
-----------------------------------------------------------------------------
(* What the operators of the mapping are.                                  *)

LEMMA RowIs ==
  ASSUME TypeOK, NEW k \in Recorded
  PROVE  k \in Key /\ txs[k] \in TxRow /\ Slot(k) \in Nat \ {0} /\ Tx(k) \in TxBytes /\ Tx(k) # None
<1>1. k \in Key /\ txs[k] \in TxRow
  BY DEF TypeOK, Recorded, Key
<1>2. txs[k].nonce \in Nat /\ txs[k].cost \in Costs
  BY <1>1 DEF TxRow
<1>3. Tx(k) \in TxBytes
  BY <1>1, <1>2 DEF Tx, TxBytes
<1> QED
  BY <1>1, <1>2, <1>3 DEF Slot

\* A final block of a recorded transaction is the one at its nonce.
LEMMA SlotIs ==
  ASSUME MinterInv, SlotsInv, NEW k \in Recorded, NEW i \in 1 .. chain.final, chain.mined[i].tx = Tx(k)
  PROVE  Slot(k) = i /\ InFinal(k) /\ Outcome(k) = chain.mined[i].out /\ chain.mined[i].out \in {"success", "reverted"}
<1>1. i \in DOMAIN chain.mined /\ chain.mined[i] \in Entry /\ i \in Nat
  BY ChainNow
<1>2. Tx(k) # None /\ Tx(k).nonce = txs[k].nonce /\ txs[k].nonce \in Nat
  BY RowIs DEF MinterInv, Tx, TxRow
<1>3. Slot(k) = i
  BY <1>1, <1>2 DEF SlotsInv, Slot
<1> QED
  BY <1>1, <1>3, ChainNow DEF InFinal, Outcome, Entry

LEMMA FinalIs ==
  ASSUME MinterInv, SlotsInv, NEW k, NEW id, Final(k, id)
  PROVE  Outcome(k) = "success" /\ chain.mined[Slot(k)].id = id
<1>1. k \in Recorded
  BY DEF Final
<1>2. PICK i \in 1 .. chain.final : /\ chain.mined[i].tx = Tx(k)
                                    /\ chain.mined[i].out = "success" /\ chain.mined[i].id = id
  BY DEF Final, OnChain
<1> QED
  BY <1>1, <1>2, SlotIs

\* Neither the ledger nor the final chain changes.
Settling == \A k \in Key : Registered(k)' = Registered(k) /\ Outcome(k)' = Outcome(k)
Naming == \A a \in Agents : MintedId(a)' = MintedId(a)
Silent == \A a \in Agents : source'[a].existing = source[a].existing

LEMMA SameRegistrations ==
  ASSUME Settling, Naming, Silent
  PROVE  UNCHANGED Registrations!registrations
<1>1. /\ UNCHANGED [k \in Key |-> Registered(k)]
      /\ UNCHANGED [k \in Key |-> Outcome(k)]
  BY DEF Settling
<1>2. UNCHANGED [a \in Agents |-> MintedId(a)]
  BY DEF Naming
<1>3. UNCHANGED [a \in Agents |-> source[a].existing]
  BY DEF Silent
<1> QED
  BY <1>1, <1>2, <1>3 DEF Registrations!registrations

\* Blocks that are not final come and go.
LEMMA FinalPart ==
  ASSUME MinterInv, UNCHANGED txs, chain'.final = chain.final,
         \A i \in 1 .. chain.final : chain'.mined[i] = chain.mined[i]
  PROVE  Settling /\ Naming /\ \A k \in Recorded : InFinal(k)' <=> InFinal(k)
<1>1. Recorded' = Recorded /\ chain.final \in Nat
  BY ChainNow DEF Recorded
<1>2. ASSUME NEW k \in Recorded
      PROVE  /\ Slot(k)' = Slot(k) /\ Tx(k)' = Tx(k) /\ (InFinal(k)' <=> InFinal(k))
             /\ InFinal(k) => chain'.mined[Slot(k)] = chain.mined[Slot(k)]
  <2>1. Slot(k)' = Slot(k) /\ Tx(k)' = Tx(k) /\ Slot(k) \in Nat \ {0}
    BY RowIs DEF MinterInv, Slot, Tx
  <2>2. Slot(k) <= chain.final => chain'.mined[Slot(k)] = chain.mined[Slot(k)]
    BY <1>1, <2>1
  <2> QED
    BY <1>1, <2>1, <2>2 DEF InFinal
<1>3. \A k \in Key : Outcome(k)' = Outcome(k) /\ (Outcome(k) # "open" => InFinal(k))
  BY <1>1, <1>2 DEF Outcome, InFinal
<1>4. Settling
  BY <1>1, <1>3 DEF Settling, Registered
<1>5. Naming
  <2> SUFFICES ASSUME NEW a \in Agents PROVE MintedId(a)' = MintedId(a)
    BY DEF Naming
  <2> DEFINE k == <<a, "register">>
  <2>1. k \in Key
    BY DEF Key, Phases
  <2>2. Outcome(k)' = Outcome(k) /\ (Outcome(k) = "success" => InFinal(k))
    BY <1>3, <2>1
  <2>3. InFinal(k) => k \in Recorded
    BY DEF InFinal
  <2>4. InFinal(k) => Slot(k)' = Slot(k) /\ chain'.mined[Slot(k)] = chain.mined[Slot(k)]
    BY <1>2, <2>3
  <2> QED
    BY <2>2, <2>4 DEF MintedId
<1> QED
  BY <1>2, <1>4, <1>5

\* Then what is decided stays true.
LEMMA DecidedStays ==
  ASSUME DecidedInv, Settling, TypeOK, UNCHANGED txs
  PROVE  DecidedInv'
<1>1. Recorded' = Recorded /\ Recorded \subseteq Key
  BY DEF Recorded, Key
<1> QED
  BY <1>1 DEF DecidedInv, Settling

-----------------------------------------------------------------------------
(* The chain: each step but Finalize leaves the final part as it is.       *)

\* What a step of the chain that is not final keeps.
Loose == /\ UNCHANGED <<source, txs>> /\ chain'.final = chain.final
         /\ \A i \in 1 .. chain.final : chain'.mined[i] = chain.mined[i]

LEMMA ExtendLoose ==
  ASSUME MinterInv, SlotsInv, NEW e \in Entry, e.tx # None => e.tx.nonce = Height,
         chain' = Extend(e), UNCHANGED <<source, txs>>
  PROVE  Loose /\ SlotsInv'
<1>1. chain \in ChainType /\ Append(chain.mined, e) \in Seq(Entry) /\ chain.mined \in Seq(Entry)
      /\ chain.final \in Nat /\ chain.final <= Len(chain.mined) /\ Len(chain.mined) \in Nat
  BY ChainNow DEF NextChain
<1>2. chain'.final = chain.final /\ chain'.mined = Append(chain.mined, e)
  BY <1>1 DEF Extend, ChainType
<1>3. /\ DOMAIN chain'.mined = 1 .. (Len(chain.mined) + 1) /\ DOMAIN chain.mined = 1 .. Len(chain.mined)
      /\ chain'.mined[Len(chain.mined) + 1] = e
      /\ \A i \in 1 .. Len(chain.mined) : chain'.mined[i] = chain.mined[i]
  BY <1>1, <1>2
<1>4. Loose
  BY <1>1, <1>2, <1>3 DEF Loose
<1>5. SlotsInv'
  <2> SUFFICES ASSUME NEW i \in DOMAIN chain'.mined, chain'.mined[i].tx # None
               PROVE  chain'.mined[i].tx.nonce = i - 1
    BY DEF SlotsInv
  <2>1. CASE i = Len(chain.mined) + 1
    BY <1>1, <1>3, <2>1 DEF Height
  <2>2. CASE i \in DOMAIN chain.mined
    BY <1>3, <2>2 DEF SlotsInv
  <2> QED
    BY <1>1, <1>3, <2>1, <2>2
<1> QED
  BY <1>4, <1>5

LEMMA MineLoose ==
  ASSUME MinterInv, SlotsInv, NEW t \in chain.pool, Mine(t)
  PROVE  Loose /\ SlotsInv'
<1>1. PICK out \in Outcomes, id \in (Ids \ Taken) \cup {None} :
        chain' = Extend([tx |-> t, out |-> out, id |-> id, time |-> clock])
  BY DEF Mine
<1> DEFINE e == [tx |-> t, out |-> out, id |-> id, time |-> clock]
<1>2. t \in TxBytes /\ t.nonce = Height /\ UNCHANGED <<source, txs>> /\ clock \in Nat
  BY ChainNow DEF Mine, ledger, MinterInv, TypeOK
<1>3. e \in Entry /\ e.tx = t
  BY <1>2 DEF Entry
<1> HIDE DEF e
<1> QED
  BY <1>1, <1>2, <1>3, ExtendLoose DEF e

LEMMA MineForeignLoose ==
  ASSUME MinterInv, SlotsInv, MineForeign
  PROVE  Loose /\ SlotsInv'
<1> DEFINE e == [tx |-> None, out |-> "success", id |-> None, time |-> clock]
<1>1. chain' = Extend(e) /\ UNCHANGED <<source, txs>> /\ clock \in Nat
  BY DEF MineForeign, ledger, MinterInv, TypeOK
<1>2. e \in Entry /\ e.tx = None
  BY <1>1 DEF Entry
<1> HIDE DEF e
<1> QED
  BY <1>1, <1>2, ExtendLoose

\* Only the pool changes.
LEMMA PoolLoose ==
  ASSUME MinterInv, SlotsInv, UNCHANGED <<source, txs>>, NEW s, chain' = [chain EXCEPT !.pool = s]
  PROVE  Loose /\ SlotsInv'
<1>1. chain \in ChainType
  BY ChainNow DEF NextChain
<1>2. chain'.final = chain.final /\ chain'.mined = chain.mined
  BY <1>1 DEF ChainType
<1> QED
  BY <1>2 DEF Loose, SlotsInv

LEMMA ReorgLoose ==
  ASSUME MinterInv, SlotsInv, Reorg
  PROVE  Loose /\ SlotsInv'
<1>1. PICK n \in chain.final .. (Height - 1) : \E s : chain' = [chain EXCEPT !.mined = SubSeq(@, 1, n), !.pool = s]
  BY DEF Reorg
<1>2. n \in Nat /\ chain.final <= n /\ n < Len(chain.mined) /\ chain.final \in Nat /\ Len(chain.mined) \in Nat
  BY ChainNow DEF Height
<1> DEFINE m == SubSeq(chain.mined, 1, n)
<1>3. m \in Seq(Entry) /\ Len(m) = n /\ DOMAIN m = 1 .. n /\ \A i \in 1 .. n : m[i] = chain.mined[i]
  BY <1>2, ChainNow
<1>4. chain'.final = chain.final /\ chain'.mined = m
  <2>0. PICK s : chain' = [chain EXCEPT !.mined = m, !.pool = s]
    BY <1>1
  <2>1. chain \in ChainType /\ chain' = [chain EXCEPT !.mined = m, !.pool = s]
    BY <2>0, ChainNow DEF NextChain
  <2> HIDE DEF m
  <2> QED
    BY <2>1 DEF ChainType
<1> HIDE DEF m
<1>5. UNCHANGED <<source, txs>> /\ DOMAIN chain.mined = 1 .. Len(chain.mined)
  BY ChainNow DEF Reorg, ledger
<1>6. Loose
  BY <1>2, <1>3, <1>4, <1>5 DEF Loose
<1>7. SlotsInv'
  <2> SUFFICES ASSUME NEW i \in 1 .. n, m[i].tx # None PROVE m[i].tx.nonce = i - 1
    BY <1>3, <1>4 DEF SlotsInv
  <2>1. i \in DOMAIN chain.mined
    BY <1>2, <1>5
  <2>2. m[i] = chain.mined[i]
    BY <1>3
  <2> QED
    BY <2>1, <2>2 DEF SlotsInv
<1> QED
  BY <1>6, <1>7

\* The blocks of the abstract ledger are the same then.
LEMMA LooseStep ==
  ASSUME RegistrationsInv, Loose, SlotsInv'
  PROVE  DecidedInv' /\ UNCHANGED Registrations!registrations
<1>1. MinterInv /\ TypeOK
  BY DEF RegistrationsInv, FeeInv, MinterInv
<1>2. Settling /\ Naming
  BY <1>1, FinalPart DEF Loose
<1>3. Silent
  BY DEF Loose, Silent
<1> QED
  BY <1>1, <1>2, <1>3, SameRegistrations, DecidedStays DEF RegistrationsInv, Loose

\* So it is when neither the ledger nor the chain changes.
LEMMA StillRegistrations ==
  ASSUME RegistrationsInv, UNCHANGED <<txs, chain>>
  PROVE  SlotsInv' /\ DecidedInv' /\ Settling /\ Naming
<1>1. MinterInv /\ TypeOK
  BY DEF RegistrationsInv, FeeInv, MinterInv
<1>2. Settling /\ Naming
  BY <1>1, FinalPart
<1> QED
  BY <1>1, <1>2, DecidedStays DEF RegistrationsInv, SlotsInv

-----------------------------------------------------------------------------
(* What moves one agent's registration.                                    *)

LEMMA LedgerTurns ==
  ASSUME NEW k \in Key, NEW v, Registered(k)' = v, \A x \in Key \ {k} : Registered(x)' = Registered(x)
  PROVE  [x \in Key |-> Registered(x)]' = [[x \in Key |-> Registered(x)] EXCEPT ![k] = v]
OBVIOUS

LEMMA FinalTurns ==
  ASSUME NEW k \in Key, NEW v, Outcome(k)' = v, \A x \in Key \ {k} : Outcome(x)' = Outcome(x)
  PROVE  [x \in Key |-> Outcome(x)]' = [[x \in Key |-> Outcome(x)] EXCEPT ![k] = v]
OBVIOUS

LEMMA KeysAgree ==
  Registrations!Key = Key
BY DEF Registrations!Key, Key, Phases

\* An agent has an id as soon as its registration is final, and succeeded.
LEMMA SameNaming ==
  ASSUME \A k \in Key : Outcome(k)' = Outcome(k),
         \A k \in Key : Outcome(k) = "success" => Slot(k)' = Slot(k) /\ chain'.mined[Slot(k)] = chain.mined[Slot(k)]
  PROVE  Naming
<1> SUFFICES ASSUME NEW a \in Agents PROVE MintedId(a)' = MintedId(a)
  BY DEF Naming
<1>1. <<a, "register">> \in Key
  BY DEF Key, Phases
<1> QED
  BY <1>1 DEF MintedId

\* A row is marked with the verdict of its final block.
LEMMA Marks ==
  ASSUME RegistrationsInv, NEW k \in Recorded, NEW out \in {"success", "reverted"},
         Finalized(k, out), Outcome(k) = out, UNCHANGED <<source, chain>>
  PROVE  SlotsInv' /\ DecidedInv' /\ Registrations!Decide(k)
<1>1. TypeOK /\ k \in Key /\ txs[k] \in TxRow /\ txs[k].out = "open"
  BY RowIs DEF RegistrationsInv, FeeInv, MinterInv, Finalized
<1> DEFINE r == [txs[k] EXCEPT !.out = out]
<1>2. r.nonce = txs[k].nonce /\ r.cost = txs[k].cost /\ r.out = out
  BY <1>1 DEF TxRow
<1>3. txs' = [txs EXCEPT ![k] = r]
  BY DEF Finalized
<1> HIDE DEF r
<1>4. txs'[k] = r /\ \A x \in Key \ {k} : txs'[x] = txs[x]
  BY <1>1, <1>3 DEF TypeOK
<1>5. RowsKept /\ Recorded' = Recorded /\ Recorded \subseteq Key
  BY <1>1, OutSet DEF Finalized, Recorded, Key
<1>6. \A x \in Key : x \in Recorded => Slot(x)' = Slot(x) /\ Tx(x)' = Tx(x)
  BY <1>2, <1>4, <1>5 DEF Slot, RowsKept
<1>7. \A x \in Key : Outcome(x)' = Outcome(x)
  BY <1>5, <1>6 DEF Outcome, InFinal
<1>8. \A x \in Key : Outcome(x) = "success" => Slot(x)' = Slot(x) /\ chain'.mined[Slot(x)] = chain.mined[Slot(x)]
  BY <1>6 DEF Outcome, InFinal
<1>9. Naming /\ Silent
  BY <1>7, <1>8, SameNaming DEF Silent
<1>10. /\ Registered(k) = "open" /\ Registered(k)' = out
       /\ \A x \in Key \ {k} : Registered(x)' = Registered(x)
  BY <1>1, <1>2, <1>4, <1>5 DEF Registered
<1>11. DecidedInv'
  <2> SUFFICES ASSUME NEW x \in Recorded, txs'[x].out # "open" PROVE Outcome(x)' = txs'[x].out
    BY <1>5 DEF DecidedInv
  <2>1. CASE x = k
    BY <1>2, <1>4, <1>7, <1>5, <2>1
  <2>2. CASE x # k
    BY <1>4, <1>5, <1>7, <2>2 DEF RegistrationsInv, DecidedInv
  <2> QED
    BY <2>1, <2>2
<1>12. [x \in Key |-> Registered(x)]' = [[x \in Key |-> Registered(x)] EXCEPT ![k] = out]
  BY <1>1, <1>10, LedgerTurns
<1>13. [x \in Key |-> Outcome(x)][k] = out /\ out # "open" /\ [x \in Key |-> Registered(x)][k] = "open"
  BY <1>1, <1>10
<1>14. /\ UNCHANGED [x \in Key |-> Outcome(x)]
       /\ UNCHANGED [a \in Agents |-> MintedId(a)]
       /\ UNCHANGED [a \in Agents |-> source[a].existing]
  BY <1>7, <1>9 DEF Naming, Silent
<1>15. Registrations!Decide(k)
  BY <1>12, <1>13, <1>14 DEF Registrations!Decide
<1> QED
  BY <1>11, <1>15 DEF RegistrationsInv, SlotsInv

\* Its receipt was judged against the chain that is final.
LEMMA SeenDecides ==
  ASSUME RegistrationsInv, NEW p \in Procs, task[p].tx # None, task[p].seen.entry.tx = task[p].tx,
         task[p].seen.pos \in 1 .. chain.final, chain.mined[task[p].seen.pos] = task[p].seen.entry
  PROVE  /\ task[p].tx.key \in Recorded /\ task[p].tx.key \in Key
         /\ Outcome(task[p].tx.key) = task[p].seen.entry.out
<1>1. MinterInv /\ SlotsInv
  BY DEF RegistrationsInv, FeeInv
<1>2. task[p].tx.key \in Recorded /\ task[p].tx = Tx(task[p].tx.key)
  BY <1>1 DEF MinterInv, TasksInv, TaskFacts, Known
<1> QED
  BY <1>1, <1>2, SlotIs DEF Recorded, Key

LEMMA JudgeRegistrations ==
  ASSUME RegistrationsInv, NEW p \in Procs, Judge(p)
  PROVE  /\ SlotsInv' /\ DecidedInv'
         /\ UNCHANGED Registrations!registrations \/ \E k \in Key : Registrations!Decide(k)
<1>1. /\ UNCHANGED <<source, chain>> /\ task[p].tx # None /\ task[p].seen.entry.tx = task[p].tx
      /\ task[p].seen.pos > 0 /\ task[p].seen \in Receipts
  BY DEF Judge, world, RegistrationsInv, FeeInv, MinterInv, TasksInv, TaskFacts, InHand, TypeOK, TaskType
<1>2. CASE UNCHANGED txs
  <2>1. SlotsInv' /\ DecidedInv' /\ Settling /\ Naming /\ Silent
    BY <1>1, <1>2, StillRegistrations DEF Silent
  <2> QED
    BY <2>1, SameRegistrations
<1>3. CASE Settled(task[p].seen) /\ task[p].seen.entry.out = "reverted" /\ Finalized(task[p].tx.key, "reverted")
  <2>1. task[p].seen.pos \in 1 .. chain.final /\ chain.mined[task[p].seen.pos] = task[p].seen.entry
    BY <1>1, <1>3, ChainNow DEF Settled, Receipts, RegistrationsInv, FeeInv
  <2>2. task[p].tx.key \in Recorded /\ task[p].tx.key \in Key /\ Outcome(task[p].tx.key) = "reverted"
    BY <1>1, <1>3, <2>1, SeenDecides
  <2> QED
    BY <1>1, <1>3, <2>2, Marks
<1> QED
  BY <1>2, <1>3 DEF Judge

LEMMA SettleRegistrations ==
  ASSUME RegistrationsInv, NEW p \in Procs, Settle(p)
  PROVE  /\ SlotsInv' /\ DecidedInv'
         /\ UNCHANGED Registrations!registrations \/ \E k \in Key : Registrations!Decide(k)
<1>1. /\ UNCHANGED <<source, chain>> /\ task[p].tx # None /\ task[p].seen.entry.tx = task[p].tx /\ SeenFinal(p)
  BY DEF Settle, world, RegistrationsInv, FeeInv, MinterInv, TasksInv, TaskFacts, InHand
<1>2. CASE UNCHANGED txs
  <2>1. SlotsInv' /\ DecidedInv' /\ Settling /\ Naming /\ Silent
    BY <1>1, <1>2, StillRegistrations DEF Silent
  <2> QED
    BY <2>1, SameRegistrations
<1>3. CASE Finalized(task[p].tx.key, "success")
  <2>1. task[p].tx.key \in Recorded /\ task[p].tx.key \in Key /\ Outcome(task[p].tx.key) = "success"
    BY <1>1, SeenDecides DEF SeenFinal
  <2> QED
    BY <1>1, <1>3, <2>1, Marks
<1> QED
  BY <1>2, <1>3 DEF Settle

\* The block at the end of the final part, which no row was judged by yet.
LEMMA FinalizeRegistrations ==
  ASSUME RegistrationsInv, Finalize
  PROVE  /\ SlotsInv' /\ DecidedInv'
         /\ \/ UNCHANGED Registrations!registrations
            \/ \E k \in Key, out \in {"success", "reverted"} : Registrations!Finalize(k, out)
<1> DEFINE n == chain.final + 1
           e == chain.mined[n]
<1>1. MinterInv /\ TypeOK /\ SlotsInv /\ DecidedInv
  BY DEF RegistrationsInv, FeeInv, MinterInv
<1>2. /\ chain \in ChainType /\ chain.final \in Nat /\ n <= Len(chain.mined)
      /\ chain' = [chain EXCEPT !.final = n]
  BY <1>1, ChainNow DEF Finalize, NextChain, ChainType, Height
<1>3. n \in Nat /\ n \in DOMAIN chain.mined
  BY <1>1, <1>2, ChainNow
<1> HIDE DEF n
<1>4. chain'.final = n /\ chain'.mined = chain.mined
  BY <1>2, <1>3 DEF ChainType
<1>5. UNCHANGED <<source, txs>> /\ SlotsInv' /\ Recorded' = Recorded /\ Recorded \subseteq Key /\ Silent
  BY <1>1, <1>4 DEF Finalize, ledger, SlotsInv, Recorded, Key, Silent
<1>6. \A x \in Key : Registered(x)' = Registered(x)
  BY <1>5 DEF Registered
<1>7. ASSUME NEW x \in Recorded
      PROVE  /\ Slot(x)' = Slot(x) /\ Tx(x)' = Tx(x) /\ Slot(x) \in Nat \ {0} /\ Tx(x) # None
             /\ InFinal(x) => InFinal(x)'
             /\ InFinal(x)' => InFinal(x) \/ (Slot(x) = n /\ e.tx = Tx(x))
  <2>1. Slot(x)' = Slot(x) /\ Tx(x)' = Tx(x)
    BY <1>5 DEF Slot, Tx
  <2>2. Slot(x) \in Nat \ {0} /\ Tx(x) # None
    BY <1>1, RowIs
  <2>3. (Slot(x) <= n) <=> (Slot(x) <= chain.final \/ Slot(x) = n)
    BY <1>2, <2>2 DEF n
  <2> QED
    BY <1>4, <1>5, <2>1, <2>2, <2>3 DEF InFinal
<1>8. \A x \in Key : Outcome(x) # "open" => InFinal(x) /\ x \in Recorded /\ Outcome(x)' = Outcome(x)
  BY <1>4, <1>7 DEF Outcome, InFinal
<1>9. DecidedInv'
  <2> SUFFICES ASSUME NEW x \in Recorded, txs[x].out # "open" PROVE Outcome(x)' = txs[x].out
    BY <1>5 DEF DecidedInv
  <2> QED
    BY <1>1, <1>5, <1>8 DEF DecidedInv
<1>10. CASE e.tx = None
  <2>1. \A x \in Key : Outcome(x)' = Outcome(x)
    BY <1>4, <1>5, <1>7, <1>10 DEF Outcome, InFinal
  <2>2. \A x \in Key : Outcome(x) = "success" => Slot(x)' = Slot(x) /\ chain'.mined[Slot(x)] = chain.mined[Slot(x)]
    BY <1>4, <1>7, <1>8
  <2>3. Settling /\ Naming
    BY <1>6, <2>1, <2>2, SameNaming DEF Settling
  <2> QED
    BY <1>5, <1>9, <2>3, SameRegistrations
<1>11. CASE e.tx # None
  <2>0. PICK k : k = e.tx.key
    OBVIOUS
  <2>1. k \in Recorded /\ e.tx = Tx(k) /\ e \in Entry /\ e.out \in {"success", "reverted"} /\ k \in Key
        /\ ((e.id # None) <=> (k[2] = "register" /\ e.out = "success")) /\ e.id \in Ids \cup {None}
    <3>1. e \in Entry /\ e.tx \in Published
      BY <1>1, <1>3, <1>11, ChainNow DEF Published
    <3> QED
      BY <1>1, <1>3, <1>5, <1>11, <2>0, <3>1 DEF MinterInv, ChainInv, Known, Entry
  <2>2. Slot(k) = n
    BY <1>1, <1>3, <1>11, <2>1, RowIs DEF SlotsInv, Slot, Tx, TxRow
  <2>3. ~InFinal(k) /\ Outcome(k) = "open" /\ Outcome(k)' = e.out
    <3>1. ~(n <= chain.final) /\ n <= n
      BY <1>2, <1>3 DEF n
    <3>2. ~InFinal(k) /\ Outcome(k) = "open"
      BY <2>2, <3>1 DEF InFinal, Outcome
    <3>3. k \in Recorded' /\ Slot(k)' = n /\ Tx(k)' = Tx(k)
      BY <1>5, <1>7, <2>1, <2>2
    <3>4. chain'.mined[n] = e
      BY <1>4
    <3> HIDE DEF e
    <3>5. InFinal(k)'
      BY <1>4, <2>1, <3>1, <3>3, <3>4 DEF InFinal
    <3> QED
      BY <3>2, <3>3, <3>4, <3>5 DEF Outcome
  <2>4. txs[k].out = "open" /\ Registered(k) = "open"
    BY <1>1, <2>1, <2>3 DEF DecidedInv, Registered
  <2>5. ASSUME NEW x \in Key \ {k} PROVE Outcome(x)' = Outcome(x)
    <3>1. x \in Recorded => e.tx # Tx(x)
      BY <2>1 DEF Tx
    <3> QED
      BY <1>4, <1>5, <1>7, <3>1 DEF Outcome, InFinal
  <2>6. [x \in Key |-> Outcome(x)]' = [[x \in Key |-> Outcome(x)] EXCEPT ![k] = e.out]
    BY <2>1, <2>3, <2>5, FinalTurns
  <2>7. ASSUME NEW a \in Agents, Reg(a) # k PROVE MintedId(a)' = MintedId(a)
    <3>1. Reg(a) \in Key
      BY DEF Reg, Key, Phases
    <3>2. Outcome(Reg(a))' = Outcome(Reg(a))
      BY <2>5, <2>7, <3>1
    <3>3. Outcome(Reg(a)) = "success" => Slot(Reg(a))' = Slot(Reg(a))
      BY <1>7, <1>8, <3>1
    <3> QED
      BY <1>4, <3>2, <3>3 DEF MintedId, Reg
  <2>8. CASE k[2] = "register" /\ e.out = "success"
    <3> DEFINE b == k[1]
    <3>1. b \in Agents /\ Reg(b) = k
      BY <2>1, <2>8 DEF Key, Reg, Phases
    <3>2. MintedId(b)' = e.id
      <4>1. Outcome(Reg(b))' = "success" /\ Slot(Reg(b))' = n /\ chain'.mined[n] = e
        BY <1>4, <1>7, <2>1, <2>2, <2>3, <2>8, <3>1
      <4> HIDE DEF b, e
      <4> QED
        BY <4>1 DEF MintedId, Reg
    <3>3. \A a \in Agents \ {b} : MintedId(a)' = MintedId(a)
      BY <2>7, <3>1 DEF Reg
    <3>4. e.id \in Ids
      BY <2>1, <2>8
    <3> HIDE DEF e, b
    <3>5. [a \in Agents |-> MintedId(a)]' = [[a \in Agents |-> MintedId(a)] EXCEPT ![b] = e.id]
      BY <3>1, <3>2, <3>3
    <3>6. \E id \in Ids : [a \in Agents |-> MintedId(a)]' = [[a \in Agents |-> MintedId(a)] EXCEPT ![k[1]] = id]
      BY <3>4, <3>5 DEF b
    <3>7. Registrations!Finalize(k, "success")
      <4>1. [x \in Key |-> Registered(x)][k] = "open" /\ [x \in Key |-> Outcome(x)][k] = "open"
        BY <2>1, <2>3, <2>4
      <4>2. UNCHANGED [x \in Key |-> Registered(x)] /\ UNCHANGED [a \in Agents |-> source[a].existing]
        BY <1>6, <1>5 DEF Silent
      <4>3. [x \in Key |-> Outcome(x)]' = [[x \in Key |-> Outcome(x)] EXCEPT ![k] = "success"]
        BY <2>6, <2>8
      <4> QED
        BY <2>8, <3>6, <4>1, <4>2, <4>3 DEF Registrations!Finalize
    <3> QED
      BY <1>5, <1>9, <2>1, <3>7
  <2>9. CASE ~(k[2] = "register" /\ e.out = "success")
    <3>1. ASSUME NEW a \in Agents PROVE MintedId(a)' = MintedId(a)
      <4>1. CASE Reg(a) # k
        BY <2>7, <4>1
      <4>2. CASE Reg(a) = k
        <5>1. k[2] = "register" /\ e.out # "success"
          BY <2>9, <4>2 DEF Reg
        <5> QED
          BY <2>3, <4>2, <5>1 DEF MintedId, Reg
      <4> QED
        BY <4>1, <4>2
    <3>2. UNCHANGED [a \in Agents |-> MintedId(a)]
      BY <3>1
    <3>3. Registrations!Finalize(k, e.out)
      <4>1. [x \in Key |-> Registered(x)][k] = "open" /\ [x \in Key |-> Outcome(x)][k] = "open"
        BY <2>1, <2>3, <2>4
      <4>2. UNCHANGED [x \in Key |-> Registered(x)] /\ UNCHANGED [a \in Agents |-> source[a].existing]
        BY <1>6, <1>5 DEF Silent
      <4> HIDE DEF e
      <4> QED
        BY <2>6, <2>9, <3>2, <4>1, <4>2 DEF Registrations!Finalize
    <3> QED
      BY <1>5, <1>9, <2>1, <3>3
  <2> QED
    BY <2>8, <2>9
<1> QED
  BY <1>10, <1>11

\* An id is published after both transactions succeeded, in final blocks.
LEMMA PublishRegistrations ==
  ASSUME RegistrationsInv, MinterInv', UNCHANGED <<txs, chain>>, NEW p \in Procs, Reproject(p) \/ Project(p)
  PROVE  UNCHANGED Registrations!registrations \/ \E a \in Agents : Registrations!Publish(a)
<1>1. MinterInv /\ TypeOK /\ SlotsInv /\ Settling /\ Naming
  BY StillRegistrations DEF RegistrationsInv, FeeInv, MinterInv
<1>2. CASE UNCHANGED source
  BY <1>1, <1>2, SameRegistrations DEF Silent
<1>3. ASSUME NEW a \in Agents, NEW j \in Job, Projectable(a, j), source' = [source EXCEPT ![a] = View(a, j)]
      PROVE  UNCHANGED Registrations!registrations \/ \E b \in Agents : Registrations!Publish(b)
  <2>0. PICK id : id = View(a, j).existing
    OBVIOUS
  <2>1. /\ source'[a].existing = id /\ \A b \in Agents \ {a} : source'[b].existing = source[b].existing
    BY <1>1, <1>3, <2>0 DEF TypeOK
  <2>2. id = (IF j.status = "registered" THEN j.minted ELSE source[a].existing)
    BY <2>0 DEF View
  <2>3. CASE id = source[a].existing
    <3>1. Silent
      BY <2>1, <2>3 DEF Silent
    <3> QED
      BY <1>1, <3>1, SameRegistrations
  <2>4. CASE id # source[a].existing
    <3>1. source[a].existing = None /\ id # None
      BY <1>3, <2>2, <2>4 DEF Projectable
    <3>2. Final(Reg(a), id) /\ Final(Upd(a), None)
      <4>1. Final(<<a, "register">>, id)' /\ Final(<<a, "update">>, None)'
        BY <2>1, <3>1 DEF MinterInv, SourceInv
      <4> QED
        BY <4>1 DEF Final, OnChain, Recorded, Tx, Reg, Upd
    <3>3. Outcome(Reg(a)) = "success" /\ Outcome(Upd(a)) = "success" /\ chain.mined[Slot(Reg(a))].id = id
      BY <1>1, <3>2, FinalIs
    <3>4. MintedId(a) = id
      BY <3>3 DEF MintedId, Reg
    <3>5. Reg(a) \in Key /\ Upd(a) \in Key
      BY DEF Reg, Upd, Key, Phases
    <3>6. /\ [x \in Key |-> Outcome(x)][<<a, "register">>] = "success"
          /\ [x \in Key |-> Outcome(x)][<<a, "update">>] = "success"
          /\ [b \in Agents |-> source[b].existing][a] = None
      BY <3>1, <3>3, <3>5 DEF Reg, Upd
    <3>7. [b \in Agents |-> source[b].existing]'
             = [[b \in Agents |-> source[b].existing] EXCEPT ![a] = [b \in Agents |-> MintedId(b)][a]]
      BY <2>1, <3>4
    <3>8. /\ UNCHANGED [x \in Key |-> Registered(x)] /\ UNCHANGED [x \in Key |-> Outcome(x)]
          /\ UNCHANGED [b \in Agents |-> MintedId(b)]
      BY <1>1 DEF Settling, Naming
    <3>9. Registrations!Publish(a)
      BY <3>6, <3>7, <3>8 DEF Registrations!Publish
    <3> QED
      BY <3>9
  <2> QED
    BY <2>3, <2>4
<1>4. CASE Reproject(p)
  <2>1. ASSUME NEW a \in Lagging(p) PROVE a \in Agents /\ jobs[a] \in Job /\ Projectable(a, jobs[a])
    BY <1>1 DEF Lagging, Enrolled, TypeOK
  <2> QED
    BY <1>2, <1>3, <1>4, <2>1 DEF Reproject
<1>5. CASE Project(p)
  <2>1. task[p].a \in Agents /\ task[p].job \in Job
    BY <1>1, <1>5 DEF Project, OnJob, MinterInv, TypeOK, TaskType, TasksInv, TaskFacts, Enrolled
  <2> QED
    BY <1>2, <1>3, <1>5, <2>1 DEF Project
<1> QED
  BY <1>4, <1>5

\* Bytes the ledger does not hold are not on the chain.
LEMMA Unsent ==
  ASSUME MinterInv, NEW k \in Key, txs[k] = None, NEW i \in DOMAIN chain.mined, chain.mined[i].tx # None
  PROVE  chain.mined[i].tx.key # k
BY DEF MinterInv, ChainInv, Published, Known, Recorded

\* A row is written while none is undecided, and an update after its registration.
LEMMA Signs ==
  ASSUME RegistrationsInv, NEW k \in Key, txs[k] = None, Open = {}, NEW row \in TxRow, row.out = "open",
         txs' = [txs EXCEPT ![k] = row], UNCHANGED <<source, chain>>,
         k[2] = "update" => Registered(Reg(k[1])) = "success"
  PROVE  SlotsInv' /\ DecidedInv' /\ Registrations!Sign(k)
<1>1. TypeOK /\ MinterInv /\ DecidedInv
  BY DEF RegistrationsInv, FeeInv, MinterInv
<1>2. /\ RowsKept /\ Recorded' = Recorded \cup {k} /\ k \notin Recorded /\ Recorded \subseteq Key
      /\ Tx(k)' = [key |-> k, nonce |-> row.nonce, cost |-> row.cost]
  BY <1>1, RowAdded DEF Recorded, Key
<1>3. txs'[k] = row /\ \A x \in Key \ {k} : txs'[x] = txs[x]
  BY <1>1 DEF TypeOK
<1>4. Outcome(k) = "open" /\ Outcome(k)' = "open"
  <2>1. ~InFinal(k)
    BY <1>2 DEF InFinal
  <2>2. ~InFinal(k)'
    <3> SUFFICES ASSUME InFinal(k)' PROVE FALSE
      OBVIOUS
    <3> DEFINE i == row.nonce + 1
    <3>1. i \in Nat \ {0} /\ i <= chain.final /\ chain.mined[i].tx = [key |-> k, nonce |-> row.nonce, cost |-> row.cost]
      BY <1>2, <1>3 DEF InFinal, Slot, TxRow
    <3> HIDE DEF i
    <3>2. i \in DOMAIN chain.mined /\ chain.mined[i] \in Entry
      BY <1>1, <3>1, ChainNow
    <3>3. [key |-> k, nonce |-> row.nonce, cost |-> row.cost] \in TxBytes
      BY DEF TxRow, TxBytes
    <3>4. chain.mined[i].tx # None /\ chain.mined[i].tx.key = k
      BY <3>1, <3>3
    <3> QED
      BY <1>1, <3>2, <3>4, Unsent
  <2> QED
    BY <2>1, <2>2 DEF Outcome
<1>5. ASSUME NEW x \in Key \ {k}
      PROVE  /\ Outcome(x)' = Outcome(x) /\ Registered(x)' = Registered(x)
             /\ x \in Recorded => Slot(x)' = Slot(x)
  <2>1. (x \in Recorded' <=> x \in Recorded) /\ Slot(x)' = Slot(x) /\ Tx(x)' = Tx(x)
    BY <1>2, <1>3 DEF Slot, Tx
  <2> QED
    BY <1>3, <2>1 DEF Outcome, InFinal, Registered
<1>6. \A x \in Key : Outcome(x)' = Outcome(x)
  BY <1>4, <1>5
<1>7. \A x \in Key : Outcome(x) = "success" => Slot(x)' = Slot(x) /\ chain'.mined[Slot(x)] = chain.mined[Slot(x)]
  BY <1>4, <1>5 DEF Outcome, InFinal
<1>8. Naming /\ Silent
  BY <1>6, <1>7, SameNaming DEF Silent
<1>9. Registered(k) = "unsigned" /\ Registered(k)' = "open" /\ k \in Recorded'
  BY <1>2, <1>3 DEF Registered
<1>10. \A x \in Key : Registered(x) # "open"
  BY DEF Open, Registered
<1>11. DecidedInv'
  <2> SUFFICES ASSUME NEW x \in Recorded', txs'[x].out # "open" PROVE Outcome(x)' = txs'[x].out
    BY DEF DecidedInv
  <2>1. x # k /\ x \in Recorded /\ x \in Key
    BY <1>2, <1>3
  <2> QED
    BY <1>1, <1>3, <1>6, <2>1 DEF DecidedInv
<1>12. [x \in Key |-> Registered(x)]' = [[x \in Key |-> Registered(x)] EXCEPT ![k] = "open"]
  BY <1>5, <1>9, LedgerTurns
<1>13. k[2] = "update" => [x \in Key |-> Registered(x)][<<k[1], "register">>] = "success"
  BY DEF Reg, Key, Phases
<1>14. /\ UNCHANGED [x \in Key |-> Outcome(x)]
       /\ UNCHANGED [a \in Agents |-> MintedId(a)]
       /\ UNCHANGED [a \in Agents |-> source[a].existing]
  BY <1>6, <1>8 DEF Naming, Silent
<1>15. /\ [x \in Key |-> Registered(x)][k] = "unsigned"
       /\ \A x \in Registrations!Key : [y \in Key |-> Registered(y)][x] # "open"
  BY <1>9, <1>10, KeysAgree
<1>16. Registrations!Sign(k)
  BY <1>12, <1>13, <1>14, <1>15 DEF Registrations!Sign
<1> QED
  BY <1>11, <1>16 DEF RegistrationsInv, SlotsInv

LEMMA SignRegistrations ==
  ASSUME RegistrationsInv, NEW p \in Procs, Sign(p)
  PROVE  /\ SlotsInv' /\ DecidedInv'
         /\ UNCHANGED Registrations!registrations \/ \E k \in Key : Registrations!Sign(k)
<1>1. UNCHANGED <<source, chain>> /\ FeeInv /\ MinterInv /\ TypeOK
  BY DEF Sign, world, RegistrationsInv, FeeInv, MinterInv
<1>2. CASE UNCHANGED txs
  <2>1. SlotsInv' /\ DecidedInv' /\ Settling /\ Naming /\ Silent
    BY <1>1, <1>2, StillRegistrations DEF Silent
  <2> QED
    BY <2>1, SameRegistrations
<1>3. CASE /\ Refusal(p, <<task[p].a, PhaseOf(task[p].job)>>, task[p].quote) = None
           /\ txs' = [txs EXCEPT ![<<task[p].a, PhaseOf(task[p].job)>>] =
                        [nonce |-> task[p].quote.latest, cost |-> task[p].quote.cost, out |-> "open"]]
  <2>0. PICK k, row : /\ k = <<task[p].a, PhaseOf(task[p].job)>>
                      /\ row = [nonce |-> task[p].quote.latest, cost |-> task[p].quote.cost, out |-> "open"]
    OBVIOUS
  <2>1. /\ task[p].at = "sign" /\ task[p].job # None /\ task[p].quote \in Quotes /\ task[p].a \in Agents /\ CopyFees(p)
    BY <1>1 DEF Sign, FeeInv, CopiesInv, MinterInv, TypeOK, TaskType, TasksInv, TaskFacts, OnJob, Enrolled
  <2>2. row \in TxRow /\ row.out = "open"
    BY <2>0, <2>1 DEF Quotes, TxRow
  <2>3. k \in Key /\ k[1] = task[p].a /\ k[2] = PhaseOf(task[p].job)
    BY <2>0, <2>1 DEF PhaseOf, Key, Phases
  <2>4. ~Conflicts(k) /\ ~Unregistered(k)
    BY <1>3, <2>0 DEF Refusal
  <2>5. Open = {} /\ txs[k] = None
    BY <2>4 DEF Conflicts
  <2>6. k[2] = "update" => Registered(Reg(k[1])) = "success"
    <3> SUFFICES ASSUME k[2] = "update" PROVE Registered(Reg(k[1])) = "success"
      OBVIOUS
    <3>1. Reg(k[1]) \in Recorded
      BY <2>1, <2>3 DEF PhaseOf, CopyFees
    <3> QED
      BY <2>4, <3>1 DEF Unregistered, Registered, Reg
  <2> QED
    BY <1>1, <1>3, <2>0, <2>2, <2>3, <2>5, <2>6, Signs
<1> QED
  BY <1>2, <1>3 DEF Sign, ledger
-----------------------------------------------------------------------------
(* The theorems of the registrations.                                      *)

\* Steps of a process that leave the rows and the chain's blocks alone, and those that do not.
LEMMA WorkRegistrations ==
  ASSUME RegistrationsInv, MinterInv', NEW p \in Procs, Work(p)
  PROVE  /\ SlotsInv' /\ DecidedInv'
         /\ Registrations!Next \/ UNCHANGED Registrations!registrations
<1>1. CASE Reproject(p) \/ Project(p)
  <2>1. UNCHANGED <<txs, chain>>
    BY <1>1 DEF Reproject, Project, ledger, world
  <2> QED
    BY <1>1, <2>1, StillRegistrations, PublishRegistrations DEF Registrations!Next
<1>2. CASE Judge(p) \/ Settle(p) \/ Sign(p)
  BY <1>2, JudgeRegistrations, SettleRegistrations, SignRegistrations, KeysAgree DEF Registrations!Next
<1>3. CASE Broadcast(p)
  <2>1. UNCHANGED <<source, txs>> /\ MinterInv /\ SlotsInv
    BY <1>3 DEF Broadcast, ledger, RegistrationsInv, FeeInv
  <2>2. CASE UNCHANGED chain
    <3>1. SlotsInv' /\ DecidedInv' /\ Settling /\ Naming /\ Silent
      BY <2>1, <2>2, StillRegistrations DEF Silent
    <3> QED
      BY <3>1, SameRegistrations
  <2>3. CASE \E s : chain' = [chain EXCEPT !.pool = s]
    BY <2>1, <2>3, PoolLoose, LooseStep
  <2> QED
    BY <1>3, <2>2, <2>3 DEF Broadcast
<1>4. CASE UNCHANGED <<source, txs, chain>>
  <2>1. SlotsInv' /\ DecidedInv' /\ Settling /\ Naming /\ Silent
    BY <1>4, StillRegistrations DEF Silent
  <2> QED
    BY <2>1, SameRegistrations
<1> QED
  BY <1>1, <1>2, <1>3, <1>4
     DEF Work, Acquire, LoopOrExit, Discover, Select, Shrink, Quote, Receipt, Nonces, Mint, Reread, Block, ledger, world

LEMMA RegistrationsStep ==
  ASSUME RegistrationsInv, MinterInv', [Next]_vars
  PROVE  /\ SlotsInv' /\ DecidedInv'
         /\ Registrations!Next \/ UNCHANGED Registrations!registrations
<1>0. MinterInv /\ SlotsInv /\ TypeOK
  BY DEF RegistrationsInv, FeeInv, MinterInv
<1>1. ASSUME NEW p \in Procs, Work(p)
      PROVE  SlotsInv' /\ DecidedInv' /\ (Registrations!Next \/ UNCHANGED Registrations!registrations)
  BY <1>1, WorkRegistrations
<1>2. ASSUME UNCHANGED <<txs, chain>>, Silent
      PROVE  SlotsInv' /\ DecidedInv' /\ (Registrations!Next \/ UNCHANGED Registrations!registrations)
  BY <1>2, StillRegistrations, SameRegistrations
<1>3. ASSUME NEW p \in Procs, Unavailable(p) \/ SessionBreaks(p) \/ LockLost(p) \/ Crash(p)
      PROVE  UNCHANGED <<txs, chain>> /\ Silent
  BY <1>3 DEF Unavailable, SessionBreaks, LockLost, Crash, ledger, world, Silent
<1>4. ASSUME NEW a \in Agents, Enroll(a)
      PROVE  UNCHANGED <<txs, chain>> /\ Silent
  <2>1. \A b \in Agents : source[b] \in Source
    BY <1>0 DEF TypeOK
  <2> QED
    BY <1>0, <1>4, <2>1 DEF Enroll, ledger, world, Silent, TypeOK, Source
<1>5. ASSUME Resync
      PROVE  UNCHANGED <<txs, chain>> /\ Silent
  <2>1. \A b \in Agents : source[b] \in Source
    BY <1>0 DEF TypeOK
  <2>2. ASSUME NEW b \in Agents PROVE source'[b].existing = source[b].existing
    <3>1. source'[b] = IF Cleared(b) THEN [source[b] EXCEPT !.status = "pending", !.error = None] ELSE source[b]
      BY <1>5 DEF Resync
    <3> QED
      BY <2>1, <3>1 DEF Source
  <2> QED
    BY <1>5, <2>2 DEF Resync, world, Silent
<1>6. ASSUME NEW t \in chain.pool, Mine(t) \/ Evict(t)
      PROVE  Loose /\ SlotsInv'
  <2>1. CASE Mine(t)
    BY <1>0, <2>1, MineLoose
  <2>2. CASE Evict(t)
    BY <1>0, <2>2, PoolLoose DEF Evict, ledger
  <2> QED
    BY <1>6, <2>1, <2>2
<1>7. CASE MineForeign \/ Reorg
  BY <1>0, <1>7, MineForeignLoose, ReorgLoose, LooseStep
<1>8. CASE Finalize
  BY <1>8, FinalizeRegistrations, KeysAgree DEF Registrations!Next
<1>9. CASE Tick \/ UNCHANGED vars
  BY <1>2, <1>9 DEF Tick, vars, ledger, Silent
<1> QED
  BY <1>1, <1>2, <1>3, <1>4, <1>5, <1>6, <1>7, <1>8, <1>9, LooseStep DEF Next

LEMMA RegistrationsInit ==
  ASSUME Init
  PROVE  SlotsInv /\ DecidedInv /\ Registrations!Init
<1>1. Recorded = {} /\ chain.mined = <<>>
  BY DEF Init, Recorded
<1>2. SlotsInv /\ DecidedInv
  BY <1>1 DEF SlotsInv, DecidedInv
<1>3. \A k \in Key : Registered(k) = "unsigned" /\ Outcome(k) = "open"
  BY <1>1 DEF Registered, Outcome, InFinal
<1>4. \A a \in Agents : MintedId(a) = None /\ source[a].existing = None
  BY <1>1 DEF Init, MintedId, Outcome, InFinal
<1> QED
  BY <1>2, <1>3, <1>4, KeysAgree DEF Registrations!Init

\* Transactions are mined at their nonces, and a decided row says what its final block says.
THEOREM RegistrationsInvariant == Spec => []RegistrationsInv
<1>1. Init => RegistrationsInv
  BY MinterInit, FeesInit, RegistrationsInit DEF RegistrationsInv, FeeInv
<1>2. RegistrationsInv /\ [Next]_vars => RegistrationsInv'
  BY FeesStep, RegistrationsStep DEF RegistrationsInv, FeeInv
<1> QED
  BY <1>1, <1>2, PTL DEF Spec

\* The worker's processes (discover, #prepare, #reconcile, #project) with lost sessions,
\* crashes, reorganisations and other users of the key implement AgentRegistrations.
THEOREM IdentityImplementsRegistrations == Spec => ImplementsRegistrations
<1>1. Init => Registrations!Init
  BY RegistrationsInit
<1>2. RegistrationsInv /\ [Next]_vars => [Registrations!Next]_(Registrations!registrations)
  BY FeesStep, RegistrationsStep DEF RegistrationsInv, FeeInv
<1> QED
  BY <1>1, <1>2, RegistrationsInvariant, PTL DEF Spec, ImplementsRegistrations, Registrations!Spec

-----------------------------------------------------------------------------
(* The daily ceiling: what must stay true for it.                          *)

\* What jobs have in envelopes, and which of them hold theirs at a time.
EnvOf(js, H) == MapThenSumSet(LAMBDA a : js[a].env, H)
Holding(j, now) == j # None /\ j.env # 0 /\ (j.done = 0 \/ now < j.done + Day)
Holders(js, now) == {a \in Agents : Holding(js[a], now)}

\* The agents that were ever enrolled: finitely many, and no other has a job.
Listed(sources) == {a \in Agents : sources[a].status # "none"}
ListedInv == IsFiniteSet(Listed(source)) /\ Enrolled \subseteq Listed(source)

\* An update is signed once the registration is final and succeeded.
OrderInv == \A a \in Agents : Upd(a) \in Recorded => txs[Reg(a)] # None /\ txs[Reg(a)].out = "success"

\* A job is done after all that was mined for it.
DoneFacts(a) == jobs[a].done # 0 =>
  /\ Upd(a) \in Recorded /\ txs[Upd(a)].out = "success"
  /\ \A i \in DOMAIN chain.mined :
       chain.mined[i].tx # None /\ chain.mined[i].tx.key[1] = a => chain.mined[i].time <= jobs[a].done
DoneInv == \A a \in Enrolled : DoneFacts(a)
TimesInv == \A i \in DOMAIN chain.mined : chain.mined[i].time <= clock

\* The envelopes that are held stay within the day's ceiling.
LiabilityInv == EnvOf(jobs, Holders(jobs, clock)) <= Daily

DayInv == ListedInv /\ OrderInv /\ DoneInv /\ TimesInv /\ LiabilityInv
DailyInv == RegistrationsInv /\ DayInv

-----------------------------------------------------------------------------
(* The sums of the model.                                                  *)

\* What the jobs have in envelopes is a total.
LEMMA EnvOfIsTotal ==
  ASSUME NEW S, IsFiniteSet(S), NEW js, \A a \in S : js[a].env \in Nat
  PROVE  EnvOf(js, S) = Total([a \in S |-> js[a].env], S)
<1> DEFINE c == [a \in S |-> js[a].env]
           P(f) == f = [s \in SUBSET S |-> IF s = {} THEN 0 ELSE js[Chosen(s)].env + f[s \ {Chosen(s)}]]
           f == CHOOSE h : P(h)
<1>1. EnvOf(js, S) = f[S]
  BY ONLY Zenon DEF EnvOf, MapThenSumSet, MapThenFoldSet, Chosen
<1>2. ASSUME NEW h PROVE P(h) <=> Fold(h, c, S)
  <2>1. \A s \in SUBSET S : s # {} => Chosen(s) \in S
    BY DEF Chosen
  <2>2. \A s \in SUBSET S : s # {} => c[Chosen(s)] = js[Chosen(s)].env
    BY <2>1
  <2> HIDE DEF c
  <2> QED
    BY <2>2 DEF Fold
<1>3. \A a \in S : c[a] \in Nat
  OBVIOUS
<1> HIDE DEF P, c
<1>4. \E h : Fold(h, c, S)
  BY <1>3, FoldExists
<1>5. P(f)
  BY <1>2, <1>4, Zenon
<1> HIDE DEF f
<1>6. f[S] = Total(c, S)
  BY <1>2, <1>3, <1>5, FoldIsTotal
<1> QED
  BY <1>1, <1>6 DEF c

\* And so is what the chain took in fees.
LEMMA FeesIsTotal ==
  ASSUME NEW S, IsFiniteSet(S), \A i \in S : chain.mined[i].tx.cost \in Nat
  PROVE  Fees(S) = Total([i \in S |-> chain.mined[i].tx.cost], S)
<1> DEFINE c == [i \in S |-> chain.mined[i].tx.cost]
           P(f) == f = [s \in SUBSET S |-> IF s = {} THEN 0 ELSE chain.mined[Chosen(s)].tx.cost + f[s \ {Chosen(s)}]]
           f == CHOOSE h : P(h)
<1>1. Fees(S) = f[S]
  BY ONLY Zenon DEF Fees, MapThenSumSet, MapThenFoldSet, Chosen
<1>2. ASSUME NEW h PROVE P(h) <=> Fold(h, c, S)
  <2>1. \A s \in SUBSET S : s # {} => Chosen(s) \in S
    BY DEF Chosen
  <2>2. \A s \in SUBSET S : s # {} => c[Chosen(s)] = chain.mined[Chosen(s)].tx.cost
    BY <2>1
  <2> HIDE DEF c
  <2> QED
    BY <2>2 DEF Fold
<1>3. \A i \in S : c[i] \in Nat
  OBVIOUS
<1> HIDE DEF P, c
<1>4. \E h : Fold(h, c, S)
  BY <1>3, FoldExists
<1>5. P(f)
  BY <1>2, <1>4, Zenon
<1> HIDE DEF f
<1>6. f[S] = Total(c, S)
  BY <1>2, <1>3, <1>5, FoldIsTotal
<1> QED
  BY <1>1, <1>6 DEF c

\* The liability that Sign checks is what the holders have in envelopes.
LEMMA LiabilityIs ==
  Liability = EnvOf(jobs, Holders(jobs, clock))
<1>1. {a \in Enrolled : Held(a)} = Holders(jobs, clock)
  BY DEF Enrolled, Held, Holders, Holding
<1> QED
  BY ONLY <1>1, Zenon DEF Liability, EnvOf

\* Fewer holders of the same envelopes have no more in them.
LEMMA FewerHolders ==
  ASSUME NEW js, NEW ks, NEW H, IsFiniteSet(H), NEW G \in SUBSET H,
         \A a \in H : js[a].env \in Nat, \A a \in G : ks[a].env = js[a].env
  PROVE  EnvOf(ks, G) <= EnvOf(js, H) /\ EnvOf(js, H) \in Nat
<1> DEFINE c == [a \in H |-> js[a].env]
           d == [a \in G |-> ks[a].env]
<1>1. IsFiniteSet(G)
  BY FS_Subset
<1>2. EnvOf(js, H) = Total(c, H) /\ EnvOf(ks, G) = Total(d, G)
  BY <1>1, EnvOfIsTotal
<1>3. (\A a \in H : c[a] \in Nat) /\ (\A a \in G : d[a] = c[a] /\ c[a] \in Nat)
  OBVIOUS
<1> HIDE DEF c, d
<1>4. Total(d, G) = Total(c, G)
  BY <1>1, <1>3, TotalSame
<1>5. Total(c, G) <= Total(c, H) /\ Total(c, H) \in Nat
  BY <1>3, TotalPart, TotalNat
<1> QED
  BY <1>2, <1>4, <1>5

\* One holder more.
LEMMA OneMoreHolder ==
  ASSUME NEW js, NEW ks, NEW H, IsFiniteSet(H), NEW a, a \notin H,
         \A b \in H : js[b].env \in Nat /\ ks[b].env = js[b].env, ks[a].env \in Nat
  PROVE  EnvOf(ks, H \cup {a}) = EnvOf(js, H) + ks[a].env /\ EnvOf(js, H) \in Nat
<1> DEFINE G == H \cup {a}
           c == [b \in H |-> js[b].env]
           d == [b \in G |-> ks[b].env]
<1>1. IsFiniteSet(G)
  BY FS_AddElement
<1>2. EnvOf(js, H) = Total(c, H) /\ EnvOf(ks, G) = Total(d, G)
  BY <1>1, EnvOfIsTotal
<1>3. (\A b \in H : d[b] = c[b] /\ c[b] \in Nat /\ d[b] \in Nat) /\ d[a] = ks[a].env
  OBVIOUS
<1> HIDE DEF c, d
<1>4. Total(d, H) = Total(c, H) /\ Total(c, H) \in Nat
  BY <1>3, TotalSame, TotalNat
<1>5. Total(d, G) = d[a] + Total(d, H)
  BY <1>3, TotalAdds
<1> QED
  BY <1>2, <1>3, <1>4, <1>5

\* A mined transaction of this key: its row, its slot, its agent.
LEMMA MinedRow ==
  ASSUME RegistrationsInv, NEW i \in DOMAIN chain.mined, chain.mined[i].tx # None,
         NEW k, k = chain.mined[i].tx.key
  PROVE  /\ k \in Recorded /\ k \in {Reg(k[1]), Upd(k[1])} /\ k[1] \in Enrolled
         /\ i = Slot(k) /\ chain.mined[i].tx = Tx(k) /\ chain.mined[i].tx.cost = txs[k].cost /\ txs[k].cost \in Nat \ {0}
<1>1. MinterInv /\ SlotsInv /\ TypeOK
  BY DEF RegistrationsInv, FeeInv, MinterInv
<1>2. Known(chain.mined[i].tx)
  BY <1>1 DEF MinterInv, ChainInv, Published
<1>3. k \in Recorded /\ chain.mined[i].tx = Tx(k)
  BY <1>2 DEF Known
<1>4. txs[k] \in TxRow /\ k \in Key
  BY <1>1, <1>3, RowIs
<1>5. k \in {Reg(k[1]), Upd(k[1])} /\ k[1] \in Enrolled
  <2>1. jobs[k[1]] # None /\ k[1] \in Agents
    BY <1>1, <1>3, <1>4 DEF MinterInv, LedgerInv, Key
  <2> QED
    BY <1>4, <2>1 DEF Key, Phases, Reg, Upd, Enrolled
<1>6. chain.mined[i].tx.nonce = txs[k].nonce /\ chain.mined[i].tx.cost = txs[k].cost
  BY <1>3 DEF Tx
<1>7. i \in Nat
  BY <1>1, ChainNow
<1>8. i = Slot(k)
  BY <1>1, <1>6, <1>7 DEF SlotsInv, Slot
<1> QED
  BY <1>3, <1>4, <1>5, <1>6, <1>8 DEF TxRow

\* Holders are enrolled, and so finitely many.
LEMMA HoldersFinite ==
  ASSUME TypeOK, ListedInv
  PROVE  /\ IsFiniteSet(Holders(jobs, clock)) /\ Holders(jobs, clock) \subseteq Enrolled
         /\ \A a \in Holders(jobs, clock) : jobs[a].env \in Nat
<1>1. Holders(jobs, clock) \subseteq Enrolled
  BY DEF Holders, Holding, Enrolled
<1>2. \A a \in Enrolled : jobs[a].env \in Nat
  BY DEF TypeOK, Enrolled, Job
<1>3. Holders(jobs, clock) \in SUBSET Listed(source)
  BY <1>1 DEF ListedInv
<1> QED
  BY <1>1, <1>2, <1>3, FS_Subset DEF ListedInv

\* Whose transaction was mined within the day still holds its envelope.
LEMMA TodayHeld ==
  ASSUME DailyInv, NEW i \in Today
  PROVE  chain.mined[i].tx.key[1] \in Holders(jobs, clock)
<1> DEFINE k == chain.mined[i].tx.key
           a == k[1]
<1>1. i \in DOMAIN chain.mined /\ chain.mined[i].tx # None /\ chain.mined[i].time > clock - Day
  BY DEF Today
<1>2. k \in Recorded /\ k \in {Reg(a), Upd(a)} /\ a \in Enrolled
  BY <1>1, MinedRow DEF DailyInv
<1> HIDE DEF k
<1>3. jobs[a] \in Job /\ clock \in Nat /\ a \in Agents /\ jobs[a] # None
  BY <1>2 DEF DailyInv, RegistrationsInv, FeeInv, MinterInv, TypeOK, Enrolled
<1>4. jobs[a].env # 0
  BY <1>2 DEF DailyInv, RegistrationsInv, FeeInv, FeesInv, JobFees
<1>5. jobs[a].done # 0 => clock < jobs[a].done + Day
  <2> SUFFICES ASSUME jobs[a].done # 0 PROVE clock < jobs[a].done + Day
    OBVIOUS
  <2>1. chain.mined[i].time <= jobs[a].done
    BY <1>1, <1>2 DEF DailyInv, DayInv, DoneInv, DoneFacts, k
  <2>2. chain.mined[i].time \in Nat /\ jobs[a].done \in Nat
    <3>1. chain.mined[i] \in Entry
      BY <1>1, ChainNow DEF DailyInv, RegistrationsInv, FeeInv
    <3> QED
      BY <1>3, <3>1 DEF Entry, Job
  <2> QED
    BY <1>1, <1>3, <2>1, <2>2
<1> QED
  BY <1>3, <1>4, <1>5 DEF Holders, Holding, k

\* What M costs is that of r, at x, and of u, at y, as far as K has them; env covers both.
Covers(env, c, M, x, y, cr, cu, r, u, K) ==
  /\ M \in SUBSET {x, y} /\ env \in Nat
  /\ r \in K => cr \in Nat /\ cr <= env
  /\ u \in K => r \in K /\ cu \in Nat /\ cr + cu <= env
  /\ \A i \in M : i # 0 /\ ((i = x /\ r \in K /\ c[i] = cr) \/ (i = y /\ u \in K /\ c[i] = cu))

LEMMA CoversTotal ==
  ASSUME NEW env, NEW c, NEW M, NEW x, NEW y, NEW cr, NEW cu, NEW r, NEW u, NEW K,
         Covers(env, c, M, x, y, cr, cu, r, u, K)
  PROVE  Total(c, M) <= env
<1> USE DEF Covers
<1>1. \A i \in M : c[i] \in Nat /\ c[i] <= env
  OBVIOUS
<1>2. CASE M = {}
  BY <1>2, TotalEmpty
<1>3. CASE M # {} /\ x = y
  <2>1. x \in M /\ x # 0 /\ M \in SUBSET {x, 0} /\ 0 \notin M
    BY <1>3
  <2>2. Total(c, M) = (IF x \in M THEN c[x] ELSE 0) + (IF 0 \in M THEN c[0] ELSE 0)
    BY <1>1, <2>1, TotalOfTwo
  <2> QED
    BY <1>1, <2>1, <2>2
<1>4. CASE x # y
  <2>1. Total(c, M) = (IF x \in M THEN c[x] ELSE 0) + (IF y \in M THEN c[y] ELSE 0)
    BY <1>1, <1>4, TotalOfTwo
  <2>2. (x \in M => r \in K /\ c[x] = cr) /\ (y \in M => u \in K /\ c[y] = cu)
    BY <1>4
  <2> QED
    BY <2>1, <2>2
<1> QED
  BY <1>2, <1>3, <1>4

\* What was mined within the day for one agent is within its envelope.
LEMMA TodayOfOne ==
  ASSUME DailyInv, NEW a \in Enrolled, NEW c, c = [i \in Today |-> chain.mined[i].tx.cost],
         NEW M, M = {i \in Today : chain.mined[i].tx.key[1] = a}
  PROVE  Total(c, M) <= jobs[a].env
<1> DEFINE x == Slot(Reg(a))
           y == Slot(Upd(a))
           env == jobs[a].env
<1>1. /\ JobFees(a) /\ env \in Nat
      /\ Reg(a) \in Recorded => txs[Reg(a)].cost \in Nat
      /\ Upd(a) \in Recorded => txs[Upd(a)].cost \in Nat
  BY DEF DailyInv, RegistrationsInv, FeeInv, FeesInv, MinterInv, TypeOK, Enrolled, Job, Recorded, TxRow, Key
<1>2. ASSUME NEW i \in M
      PROVE  \/ i = x /\ Reg(a) \in Recorded /\ c[i] = txs[Reg(a)].cost
             \/ i = y /\ Upd(a) \in Recorded /\ c[i] = txs[Upd(a)].cost
  <2> DEFINE k == chain.mined[i].tx.key
  <2>1. i \in DOMAIN chain.mined /\ chain.mined[i].tx # None /\ k[1] = a /\ c[i] = chain.mined[i].tx.cost
    BY DEF Today
  <2>2. k \in Recorded /\ k \in {Reg(a), Upd(a)} /\ i = Slot(k) /\ chain.mined[i].tx.cost = txs[k].cost
    BY <2>1, MinedRow DEF DailyInv
  <2> HIDE DEF k
  <2> QED
    BY <2>1, <2>2
<1>3. ASSUME NEW i \in M PROVE i \in Nat \ {0}
  <2>1. i \in DOMAIN chain.mined
    BY DEF Today
  <2> QED
    BY <2>1, ChainNow DEF DailyInv, RegistrationsInv, FeeInv
<1>4. M \in SUBSET {x, y}
  BY <1>2
<1> DEFINE cr == txs[Reg(a)].cost
           cu == txs[Upd(a)].cost
<1>5. /\ Reg(a) \in Recorded => cr \in Nat /\ cr <= env
      /\ Upd(a) \in Recorded => Reg(a) \in Recorded /\ cu \in Nat /\ cr + cu <= env
  BY <1>1 DEF JobFees
<1>6. env \in Nat
  BY <1>1
<1>7. \A i \in M : i # 0 /\ ((i = x /\ Reg(a) \in Recorded /\ c[i] = cr) \/ (i = y /\ Upd(a) \in Recorded /\ c[i] = cu))
  BY <1>2, <1>3
<1> HIDE DEF x, y, cr, cu, env
<1>8. Covers(env, c, M, x, y, cr, cu, Reg(a), Upd(a), Recorded)
  BY <1>4, <1>5, <1>6, <1>7 DEF Covers
<1>9. Total(c, M) <= env
  BY <1>8, CoversTotal
<1> QED
  BY <1>9 DEF env

\* Today's transactions are finitely many.
LEMMA TodayFinite ==
  ASSUME RegistrationsInv
  PROVE  IsFiniteSet(Today) /\ Today \in SUBSET DOMAIN chain.mined
<1>1. Today \in SUBSET DOMAIN chain.mined
  BY DEF Today
<1>2. Len(chain.mined) \in Nat /\ DOMAIN chain.mined = 1 .. Len(chain.mined)
  BY ChainNow DEF RegistrationsInv, FeeInv
<1>3. IsFiniteSet(1 .. Len(chain.mined))
  <2>1. 1 \in Int /\ Len(chain.mined) \in Int
    BY <1>2
  <2> QED
    BY <2>1, FS_Interval, Zenon
<1> QED
  BY <1>1, <1>2, <1>3, FS_Subset

\* The held envelopes cover what was mined within the day.
LEMMA DailyFeesHold ==
  ASSUME DailyInv
  PROVE  DailyFees
<1> DEFINE H == Holders(jobs, clock)
           c == [i \in Today |-> chain.mined[i].tx.cost]
           owner == [i \in Today |-> chain.mined[i].tx.key[1]]
           e == [a \in H |-> jobs[a].env]
<1>1. IsFiniteSet(H) /\ H \subseteq Enrolled /\ \A a \in H : jobs[a].env \in Nat
  BY HoldersFinite DEF DailyInv, DayInv, RegistrationsInv, FeeInv, MinterInv
<1>2. IsFiniteSet(Today)
  BY TodayFinite DEF DailyInv
<1>3. \A i \in Today : chain.mined[i].tx.cost \in Nat
  BY MinedRow DEF DailyInv, Today
<1>4. \A i \in Today : chain.mined[i].tx.key[1] \in H
  BY TodayHeld
<1>5. \A i \in Today : owner[i] \in H /\ c[i] \in Nat
  BY <1>3, <1>4
<1>6. \A a \in H : e[a] \in Nat /\ e[a] = jobs[a].env
  BY <1>1
<1>7. ASSUME NEW a \in H PROVE Total(c, {i \in Today : owner[i] = a}) <= e[a]
  <2>1. {i \in Today : owner[i] = a} = {i \in Today : chain.mined[i].tx.key[1] = a}
    OBVIOUS
  <2>2. Total(c, {i \in Today : chain.mined[i].tx.key[1] = a}) <= jobs[a].env
    BY <1>1, TodayOfOne
  <2> QED
    BY <2>1, <2>2
<1>8. Fees(Today) = Total(c, Today)
  BY <1>2, <1>3, FeesIsTotal
<1>9. EnvOf(jobs, H) = Total(e, H)
  BY <1>1, EnvOfIsTotal
<1> HIDE DEF H, c, owner, e
<1>10. Total(c, Today) <= Total(e, H)
  BY <1>1, <1>2, <1>5, <1>6, <1>7, TotalCovered
<1>11. Total(c, Today) \in Nat /\ Total(e, H) \in Nat
  BY <1>1, <1>2, <1>5, <1>6, TotalNat
<1>12. EnvOf(jobs, H) <= Daily
  BY DEF DailyInv, DayInv, LiabilityInv, H
<1> QED
  BY <1>8, <1>9, <1>10, <1>11, <1>12 DEF DailyFees

-----------------------------------------------------------------------------
(* What a step may do to it.                                               *)

\* The envelopes stay, a job that is done stays done, a new job has nothing.
BooksKept ==
  /\ \A a \in Enrolled : /\ jobs'[a] # None /\ jobs'[a].env = jobs[a].env
                         /\ jobs[a].done # 0 => jobs'[a].done = jobs[a].done
  /\ \A a \in Enrolled' \ Enrolled : jobs'[a] = NewJob

\* And none becomes done.
DonesKept == \A a \in Enrolled' : (a \in Enrolled /\ jobs'[a].done = jobs[a].done) \/ jobs'[a] = NewJob

\* Rows stay, and those that succeeded stay so.
SuccessKept == \A k \in Recorded : k \in Recorded' /\ (txs[k].out = "success" => txs'[k].out = "success")

\* What is mined was mined before, or is mined now for a job that is not done.
MinedKept == \A i \in DOMAIN chain'.mined :
  \/ i \in DOMAIN chain.mined /\ chain'.mined[i] = chain.mined[i]
  \/ /\ chain'.mined[i].time = clock
     /\ chain'.mined[i].tx # None => chain'.mined[i].tx.key[1] \in Enrolled /\ jobs[chain'.mined[i].tx.key[1]].done = 0

LEMMA LiabilityKept ==
  ASSUME DailyInv, TypeOK', BooksKept, clock' \in {clock, clock + 1}
  PROVE  LiabilityInv'
<1> DEFINE H == Holders(jobs, clock)
           G == Holders(jobs', clock')
<1>1. IsFiniteSet(H) /\ H \subseteq Enrolled /\ \A a \in H : jobs[a].env \in Nat
  BY HoldersFinite DEF DailyInv, DayInv, RegistrationsInv, FeeInv, MinterInv
<1>2. ASSUME NEW a \in G PROVE a \in H /\ jobs'[a].env = jobs[a].env
  <2>1. a \in Agents /\ jobs'[a] # None /\ jobs'[a].env # 0 /\ (jobs'[a].done = 0 \/ clock' < jobs'[a].done + Day)
    BY DEF Holders, Holding
  <2>2. a \in Enrolled
    <3>1. a \in Enrolled'
      BY <2>1 DEF Enrolled
    <3> QED
      BY <2>1, <3>1 DEF BooksKept, NewJob
  <2>3. jobs[a] # None /\ jobs'[a].env = jobs[a].env /\ (jobs[a].done # 0 => jobs'[a].done = jobs[a].done)
    BY <2>2 DEF BooksKept, Enrolled
  <2>4. clock \in Nat /\ jobs[a] \in Job
    BY <2>1, <2>3 DEF DailyInv, RegistrationsInv, FeeInv, MinterInv, TypeOK
  <2>5. jobs[a].done \in Nat
    BY <2>4 DEF Job
  <2>6. jobs[a].done # 0 => clock < jobs[a].done + Day
    BY <2>1, <2>3, <2>4, <2>5
  <2> QED
    BY <2>1, <2>3, <2>6 DEF Holders, Holding
<1>3. EnvOf(jobs, H) <= Daily
  BY DEF DailyInv, DayInv, LiabilityInv
<1> HIDE DEF H, G
<1>4. G \in SUBSET H /\ \A a \in G : jobs'[a].env = jobs[a].env
  BY <1>2
<1>5. EnvOf(jobs', G) <= EnvOf(jobs, H) /\ EnvOf(jobs, H) \in Nat
  BY <1>1, <1>4, FewerHolders
<1>6. EnvOf(jobs', G) <= Daily
  <2>1. EnvOf(jobs', G) \in Nat
    <3>1. IsFiniteSet(G) /\ \A a \in G : jobs'[a].env \in Nat
      BY <1>1, <1>4, FS_Subset
    <3> QED
      BY <3>1, FewerHolders
  <2> QED
    BY <1>3, <1>5, <2>1
<1> QED
  BY <1>6 DEF LiabilityInv, G

\* Nobody's job becomes done, or it is not this one's.
LEMMA DoneFactsKept ==
  ASSUME DailyInv, SuccessKept, MinedKept, NEW a \in Enrolled',
         (a \in Enrolled /\ jobs'[a].done = jobs[a].done) \/ jobs'[a] = NewJob
  PROVE  DoneFacts(a)'
<1>1. CASE jobs'[a] = NewJob
  BY <1>1 DEF DoneFacts, NewJob
<1>2. CASE a \in Enrolled /\ jobs'[a].done = jobs[a].done
  <2> SUFFICES ASSUME jobs[a].done # 0 PROVE DoneFacts(a)'
    BY <1>2 DEF DoneFacts
  <2>1. /\ Upd(a) \in Recorded /\ txs[Upd(a)].out = "success"
        /\ \A i \in DOMAIN chain.mined :
             chain.mined[i].tx # None /\ chain.mined[i].tx.key[1] = a => chain.mined[i].time <= jobs[a].done
    BY <1>2 DEF DailyInv, DayInv, DoneInv, DoneFacts
  <2>2. Upd(a) \in Recorded' /\ txs'[Upd(a)].out = "success"
    BY <2>1 DEF SuccessKept
  <2>3. ASSUME NEW i \in DOMAIN chain'.mined, chain'.mined[i].tx # None, chain'.mined[i].tx.key[1] = a
        PROVE  chain'.mined[i].time <= jobs[a].done
    BY <2>1, <2>3 DEF MinedKept
  <2> QED
    BY <1>2, <2>2, <2>3 DEF DoneFacts, Upd
<1> QED
  BY <1>1, <1>2

LEMMA TimesKept ==
  ASSUME DailyInv, TypeOK', MinedKept, clock' \in {clock, clock + 1}
  PROVE  TimesInv'
<1>1. clock \in Nat
  BY DEF DailyInv, RegistrationsInv, FeeInv, MinterInv, TypeOK
<1> SUFFICES ASSUME NEW i \in DOMAIN chain'.mined PROVE chain'.mined[i].time <= clock'
  BY DEF TimesInv
<1>2. CASE chain'.mined[i].time = clock
  BY <1>1, <1>2
<1>3. CASE i \in DOMAIN chain.mined /\ chain'.mined[i] = chain.mined[i]
  <2>1. chain.mined[i] \in Entry
    BY <1>3, ChainNow DEF DailyInv, RegistrationsInv, FeeInv
  <2>2. chain.mined[i].time \in Nat
    BY <2>1 DEF Entry
  <2>3. chain.mined[i].time <= clock
    BY <1>3 DEF DailyInv, DayInv, TimesInv
  <2>4. chain'.mined[i].time = chain.mined[i].time
    BY <1>3
  <2> QED
    BY <1>1, <2>2, <2>3, <2>4
<1> QED
  BY <1>2, <1>3 DEF MinedKept

\* No row is written but an update whose registration succeeded.
LEMMA OrderKept ==
  ASSUME DailyInv, SuccessKept,
         \A a \in Agents : Upd(a) \in Recorded' \ Recorded => txs[Reg(a)] # None /\ txs[Reg(a)].out = "success"
  PROVE  OrderInv'
<1> SUFFICES ASSUME NEW a \in Agents, Upd(a) \in Recorded'
             PROVE  txs'[Reg(a)] # None /\ txs'[Reg(a)].out = "success"
  BY DEF OrderInv, Upd, Reg
<1>1. txs[Reg(a)] # None /\ txs[Reg(a)].out = "success"
  BY DEF DailyInv, DayInv, OrderInv
<1>2. Reg(a) \in Recorded
  BY <1>1 DEF Recorded, Reg, Phases
<1> QED
  BY <1>1, <1>2 DEF SuccessKept, Recorded

\* The agents that were enrolled are those they were.
LEMMA ListedKept ==
  ASSUME ListedInv, Listed(source') = Listed(source), Enrolled' \subseteq Listed(source)
  PROVE  ListedInv'
BY DEF ListedInv

\* All but the steps that sign or settle.
LEMMA DayKept ==
  ASSUME DailyInv, TypeOK', ListedInv', BooksKept, DonesKept, SuccessKept, Recorded' \subseteq Recorded, MinedKept,
         clock' \in {clock, clock + 1}
  PROVE  DayInv'
<1>1. DoneInv'
  BY DoneFactsKept DEF DoneInv, DonesKept
<1>2. OrderInv'
  BY OrderKept
<1> QED
  BY <1>1, <1>2, LiabilityKept, TimesKept DEF DayInv

\* Neither the ledger nor the chain changes.
LEMMA MinedSame ==
  ASSUME UNCHANGED chain
  PROVE  MinedKept
BY DEF MinedKept

LEMMA SuccessSame ==
  ASSUME UNCHANGED txs
  PROVE  SuccessKept /\ Recorded' = Recorded
BY DEF SuccessKept, Recorded

LEMMA BooksSame ==
  ASSUME UNCHANGED jobs
  PROVE  BooksKept /\ DonesKept /\ Enrolled' = Enrolled
BY DEF BooksKept, DonesKept, Enrolled

LEMMA SourceDay ==
  ASSUME DailyInv, TypeOK', ListedInv', UNCHANGED <<ledger, world>>
  PROVE  DayInv'
BY DayKept, MinedSame, SuccessSame, BooksSame DEF ledger, world

LEMMA QuietDay ==
  ASSUME DailyInv, TypeOK', UNCHANGED <<source, ledger, world>>
  PROVE  DayInv'
<1>1. ListedInv'
  BY ListedKept, BooksSame DEF DailyInv, DayInv, ListedInv, ledger
<1> QED
  BY <1>1, SourceDay

-----------------------------------------------------------------------------
(* Steps that write what is public, or one job's status.                   *)

\* A source that is written is that of an agent with a job.
LEMMA OneListed ==
  ASSUME DailyInv, NEW a \in Enrolled, NEW s, s.status # "none", source' = [source EXCEPT ![a] = s], UNCHANGED jobs
  PROVE  ListedInv'
<1>1. source \in [Agents -> Source] /\ ListedInv /\ Enrolled' = Enrolled
  BY BooksSame DEF DailyInv, DayInv, RegistrationsInv, FeeInv, MinterInv, TypeOK
<1>2. a \in Agents /\ source[a].status # "none"
  BY <1>1 DEF ListedInv, Listed, Enrolled
<1>3. source'[a] = s /\ \A b \in Agents \ {a} : source'[b] = source[b]
  BY <1>1, <1>2
<1>4. Listed(source') = Listed(source)
  BY <1>2, <1>3 DEF Listed
<1> QED
  BY <1>1, <1>4, ListedKept DEF ListedInv

LEMMA ProjectDay ==
  ASSUME DailyInv, TypeOK', NEW p \in Procs, Reproject(p) \/ Project(p)
  PROVE  DayInv'
<1>1. UNCHANGED <<ledger, world>> /\ UNCHANGED jobs
  BY DEF Reproject, Project, ledger
<1>2. MinterInv /\ TypeOK
  BY DEF DailyInv, RegistrationsInv, FeeInv, MinterInv
<1>3. ASSUME NEW a \in Enrolled, NEW j \in Job, source' = [source EXCEPT ![a] = View(a, j)]
      PROVE  DayInv'
  <2>1. View(a, j).status # "none"
    BY DEF View, Job, Statuses
  <2>2. ListedInv'
    BY <1>1, <1>3, <2>1, OneListed
  <2> QED
    BY <1>1, <2>2, SourceDay
<1>4. CASE UNCHANGED source
  BY <1>1, <1>4, QuietDay
<1>5. CASE Reproject(p)
  <2>1. ASSUME NEW a \in Lagging(p) PROVE a \in Enrolled /\ jobs[a] \in Job
    BY <1>2 DEF Lagging, Enrolled, TypeOK
  <2> QED
    BY <1>3, <1>4, <1>5, <2>1 DEF Reproject
<1>6. CASE Project(p)
  <2>1. task[p].a \in Enrolled /\ task[p].job \in Job
    BY <1>2, <1>6 DEF Project, OnJob, MinterInv, TypeOK, TaskType, TasksInv, TaskFacts
  <2> QED
    BY <1>3, <1>4, <1>6, <2>1 DEF Project
<1> QED
  BY <1>5, <1>6

\* One more agent is enrolled.
LEMMA EnrollDay ==
  ASSUME DailyInv, TypeOK', NEW a \in Agents, Enroll(a)
  PROVE  DayInv'
<1>1. UNCHANGED <<ledger, world>> /\ source \in [Agents -> Source] /\ ListedInv /\ Enrolled' = Enrolled
  BY BooksSame DEF Enroll, ledger, DailyInv, DayInv, RegistrationsInv, FeeInv, MinterInv, TypeOK
<1> DEFINE s == [source[a] EXCEPT !.status = "pending"]
<1>2. s.status = "pending"
  BY <1>1 DEF Source
<1>3. source' = [source EXCEPT ![a] = s]
  BY DEF Enroll
<1> HIDE DEF s
<1>4. source'[a] = s /\ \A b \in Agents \ {a} : source'[b] = source[b]
  BY <1>1, <1>3
<1>5. Listed(source') = Listed(source) \cup {a}
  BY <1>2, <1>4 DEF Listed
<1>6. IsFiniteSet(Listed(source) \cup {a})
  BY <1>1, FS_AddElement DEF ListedInv
<1>7. ListedInv'
  BY <1>1, <1>5, <1>6 DEF ListedInv
<1> QED
  BY <1>1, <1>7, SourceDay

\* One job is written, its envelope and the time it was done apart.
LEMMA JobDay ==
  ASSUME DailyInv, TypeOK', NEW a \in Enrolled, NEW j, j # None, j.env = jobs[a].env, j.done = jobs[a].done,
         jobs' = [jobs EXCEPT ![a] = j], UNCHANGED <<source, txs, world>>
  PROVE  DayInv'
<1>1. jobs'[a] = j /\ \A b \in Agents \ {a} : jobs'[b] = jobs[b]
  BY DEF DailyInv, RegistrationsInv, FeeInv, MinterInv, TypeOK, Enrolled
<1>2. BooksKept /\ DonesKept /\ Enrolled' = Enrolled
  BY <1>1 DEF BooksKept, DonesKept, Enrolled
<1>3. ListedInv'
  BY <1>2, ListedKept DEF DailyInv, DayInv, ListedInv
<1> QED
  BY <1>2, <1>3, DayKept, MinedSame, SuccessSame DEF world

LEMMA BlockDay ==
  ASSUME DailyInv, TypeOK', NEW p \in Procs, Block(p)
  PROVE  DayInv'
<1> DEFINE a == task[p].a
           b == [jobs[a] EXCEPT !.status = "blocked", !.error = task[p].code]
           j == IF jobs[a].done = 0 THEN b ELSE jobs[a]
<1>1. a \in Enrolled /\ jobs[a] \in Job /\ jobs[a] # None
  BY DEF Block, DailyInv, RegistrationsInv, FeeInv, MinterInv, TypeOK, TasksInv, TaskFacts, Enrolled
<1>2. b.env = jobs[a].env /\ b.done = jobs[a].done /\ b # None
  <2>1. task[p].code \in Codes
    BY DEF DailyInv, RegistrationsInv, FeeInv, MinterInv, TypeOK, TaskType
  <2>2. b \in Job /\ b.env = jobs[a].env /\ b.done = jobs[a].done
    BY <1>1, <2>1 DEF Job, Statuses
  <2> QED
    BY <2>2
<1>3. jobs' = [jobs EXCEPT ![a] = j] /\ UNCHANGED <<source, txs, world>>
  BY DEF Block
<1> HIDE DEF b
<1>4. j.env = jobs[a].env /\ j.done = jobs[a].done /\ j # None
  BY <1>1, <1>2
<1> HIDE DEF j
<1> QED
  BY <1>1, <1>3, <1>4, JobDay

LEMMA MintDay ==
  ASSUME DailyInv, TypeOK', NEW p \in Procs, Mint(p)
  PROVE  DayInv'
<1> DEFINE a == task[p].a
           u == Unblocked(jobs[a])
           j == [u EXCEPT !.minted = task[p].seen.entry.id]
<1>1. a \in Enrolled /\ jobs[a] \in Job /\ UNCHANGED <<source, txs, world>> /\ FeeInv /\ MinterInv
  BY DEF Mint, DailyInv, RegistrationsInv, FeeInv, MinterInv, TypeOK, TasksInv, TaskFacts, OnJob, InHand, Enrolled
<1>2. CASE UNCHANGED jobs
  BY <1>1, <1>2, QuietDay DEF Mint, ledger
<1>3. CASE jobs' = [jobs EXCEPT ![a] = j]
  <2>1. u \in Job /\ u.env = jobs[a].env /\ u.done = jobs[a].done
    BY <1>1 DEF Unblocked, Job, Statuses
  <2>2. task[p].seen.entry.id \in Ids \cup {None}
    BY <1>1, SeenIsFinal DEF Mint
  <2> HIDE DEF u
  <2>3. j \in Job /\ j.env = u.env /\ j.done = u.done
    BY <2>1, <2>2 DEF Job
  <2>4. j.env = jobs[a].env /\ j.done = jobs[a].done /\ j # None
    BY <2>1, <2>3
  <2> HIDE DEF j
  <2> QED
    BY <1>1, <1>3, <2>4, JobDay
<1> QED
  BY <1>2, <1>3 DEF Mint

LEMMA ShrinkDay ==
  ASSUME DailyInv, TypeOK', NEW p \in Procs, Shrink(p)
  PROVE  DayInv'
<1> DEFINE a == task[p].a
           low == Effective(p, task[p].job)
           j == [jobs[a] EXCEPT !.ceiling = low]
<1>1. a \in Enrolled /\ jobs[a] \in Job /\ UNCHANGED <<source, txs, world>> /\ task[p].job \in Job
  BY DEF Shrink, DailyInv, RegistrationsInv, FeeInv, MinterInv, TypeOK, TaskType, TasksInv, TaskFacts, OnJob, Enrolled
<1>2. CASE UNCHANGED jobs
  BY <1>1, <1>2, QuietDay DEF Shrink, ledger
<1>3. CASE jobs' = [jobs EXCEPT ![a] = j]
  <2>1. low \in Nat
    BY <1>1, EffectiveType
  <2> HIDE DEF low
  <2>2. j \in Job /\ j.env = jobs[a].env /\ j.done = jobs[a].done
    BY <1>1, <2>1 DEF Job
  <2> HIDE DEF j
  <2> QED
    BY <1>1, <1>3, <2>2, JobDay
<1> QED
  BY <1>2, <1>3 DEF Shrink

LEMMA SelectDay ==
  ASSUME DailyInv, TypeOK', NEW p \in Procs, Select(p)
  PROVE  DayInv'
<1>1. MinterInv /\ UNCHANGED <<source, txs, world>>
  BY DEF Select, DailyInv, RegistrationsInv, FeeInv
<1>2. CASE UNCHANGED jobs
  BY <1>1, <1>2, QuietDay DEF Select, ledger
<1>3. ASSUME NEW a \in Candidate(p), jobs' = [jobs EXCEPT ![a] = [@ EXCEPT !.status = "pending", !.error = None]]
      PROVE  DayInv'
  <2> DEFINE j == [jobs[a] EXCEPT !.status = "pending", !.error = None]
  <2>1. a \in Enrolled /\ jobs[a] \in Job
    BY <1>1, HereTrue
  <2>2. j \in Job /\ j.env = jobs[a].env /\ j.done = jobs[a].done
    BY <2>1 DEF Job, Statuses, Codes
  <2>3. jobs' = [jobs EXCEPT ![a] = j]
    BY <1>3
  <2> HIDE DEF j
  <2> QED
    BY <1>1, <2>1, <2>2, <2>3, JobDay
<1> QED
  BY <1>2, <1>3 DEF Select

\* New jobs have nothing in their envelopes, and are of agents that are enrolled.
LEMMA DiscoverDay ==
  ASSUME DailyInv, TypeOK', NEW p \in Procs, Discover(p)
  PROVE  DayInv'
<1>1. UNCHANGED <<source, txs, world>> /\ ListedInv
  BY DEF Discover, DailyInv, DayInv
<1>2. \A a \in Agents : IF jobs[a] # None THEN jobs'[a] = jobs[a]
                        ELSE jobs'[a] = None \/ (jobs'[a] = NewJob /\ source[a].status = "pending")
  BY DEF Discover
<1>3. BooksKept /\ DonesKept
  BY <1>2 DEF BooksKept, DonesKept, Enrolled
<1>4. Enrolled' \subseteq Listed(source)
  BY <1>1, <1>2 DEF Enrolled, ListedInv, Listed
<1>5. ListedInv'
  BY <1>1, <1>4, ListedKept
<1> QED
  BY <1>1, <1>3, <1>5, DayKept, MinedSame, SuccessSame DEF world

LEMMA ResyncDay ==
  ASSUME DailyInv, TypeOK', Resync
  PROVE  DayInv'
<1>1. TypeOK /\ UNCHANGED <<txs, world>> /\ ListedInv
  BY DEF Resync, DailyInv, DayInv, RegistrationsInv, FeeInv, MinterInv
<1>2. ASSUME NEW a \in Agents
      PROVE  IF jobs[a] = None THEN jobs'[a] = None
             ELSE jobs'[a] # None /\ jobs'[a].env = jobs[a].env /\ jobs'[a].done = jobs[a].done
  <2> DEFINE j == [jobs[a] EXCEPT !.status = "pending", !.error = None]
  <2>1. jobs'[a] = IF Cleared(a) THEN j ELSE jobs[a]
    BY DEF Resync
  <2>2. ASSUME jobs[a] # None
        PROVE  j \in Job /\ j.env = jobs[a].env /\ j.done = jobs[a].done
    <3>1. jobs[a] \in Job
      BY <1>1, <2>2 DEF TypeOK
    <3> QED
      BY <3>1 DEF Job, Statuses, Codes
  <2> HIDE DEF j
  <2> QED
    BY <2>1, <2>2 DEF Cleared
<1>3. BooksKept /\ DonesKept /\ Enrolled' = Enrolled
  BY <1>2 DEF BooksKept, DonesKept, Enrolled
<1>4. ASSUME NEW a \in Agents PROVE source'[a].status # "none" <=> source[a].status # "none"
  <2>1. source'[a] = IF Cleared(a) THEN [source[a] EXCEPT !.status = "pending", !.error = None] ELSE source[a]
    BY DEF Resync
  <2>2. Cleared(a) => source[a].status # "none"
    BY <1>1 DEF Cleared, ListedInv, Listed, Enrolled
  <2>3. source[a] \in Source
    BY <1>1 DEF TypeOK
  <2>4. [source[a] EXCEPT !.status = "pending", !.error = None].status = "pending"
    BY <2>3 DEF Source
  <2> QED
    BY <2>1, <2>2, <2>4
<1>5. Listed(source') = Listed(source)
  BY <1>4 DEF Listed
<1>6. ListedInv'
  BY <1>1, <1>3, <1>5, ListedKept DEF ListedInv
<1> QED
  BY <1>1, <1>3, <1>6, DayKept, MinedSame, SuccessSame DEF world

-----------------------------------------------------------------------------
(* The chain.                                                              *)

\* The transaction at the chain's next nonce is of a job that is not done: the update of
\* one that is done was mined below it, and so was its registration.
LEMMA NotDone ==
  ASSUME DailyInv, NEW t, Known(t), t.nonce = Height
  PROVE  t.key[1] \in Enrolled /\ jobs[t.key[1]].done = 0
<1> DEFINE k == t.key
           a == k[1]
<1>1. MinterInv /\ TypeOK /\ k \in Recorded /\ t = Tx(k)
  BY DEF DailyInv, RegistrationsInv, FeeInv, MinterInv, Known
<1>2. k \in Key /\ txs[k] \in TxRow
  BY <1>1, RowIs
<1>3. a \in Enrolled
  BY <1>1, <1>2 DEF MinterInv, LedgerInv, Enrolled, Key
<1>4. k \in {Reg(a), Upd(a)}
  BY <1>2 DEF Key, Phases, Reg, Upd
<1>5. Slot(k) = Height + 1
  BY <1>1 DEF Tx, Slot
<1>6. txs[k].out # "success"
  <2> SUFFICES ASSUME txs[k].out = "success" PROVE FALSE
    OBVIOUS
  <2>1. Outcome(k) = "success"
    BY <1>1 DEF DailyInv, RegistrationsInv, DecidedInv
  <2>2. Slot(k) <= chain.final
    BY <2>1 DEF Outcome, InFinal
  <2>3. chain.final \in Nat /\ chain.final <= Height /\ Height \in Nat
    BY <1>1, ChainNow DEF Height
  <2> QED
    BY <1>5, <2>2, <2>3
<1>7. jobs[a].done # 0 => txs[Upd(a)].out = "success" /\ txs[Reg(a)].out = "success"
  BY <1>3 DEF DailyInv, DayInv, DoneInv, DoneFacts, OrderInv, Enrolled
<1> QED
  BY <1>3, <1>4, <1>6, <1>7

\* A block is added now, for such a job or for none of them.
LEMMA ExtendMined ==
  ASSUME MinterInv, NEW e \in Entry, e.time = clock, chain' = Extend(e),
         e.tx # None => e.tx.key[1] \in Enrolled /\ jobs[e.tx.key[1]].done = 0
  PROVE  MinedKept
<1>1. chain \in ChainType /\ chain.mined \in Seq(Entry) /\ Len(chain.mined) \in Nat
  BY ChainNow DEF NextChain
<1>2. chain'.mined = Append(chain.mined, e)
  BY <1>1 DEF Extend, ChainType
<1>3. /\ DOMAIN chain'.mined = 1 .. (Len(chain.mined) + 1) /\ DOMAIN chain.mined = 1 .. Len(chain.mined)
      /\ chain'.mined[Len(chain.mined) + 1] = e
      /\ \A i \in 1 .. Len(chain.mined) : chain'.mined[i] = chain.mined[i]
  BY <1>1, <1>2
<1>4. \A i \in DOMAIN chain'.mined : i \in DOMAIN chain.mined \/ i = Len(chain.mined) + 1
  BY <1>1, <1>3
<1> QED
  BY <1>3, <1>4 DEF MinedKept

\* The ledger is as it was.
LEMMA ChainDay ==
  ASSUME DailyInv, TypeOK', UNCHANGED <<source, ledger>>, MinedKept, clock' \in {clock, clock + 1}
  PROVE  DayInv'
<1>1. BooksKept /\ DonesKept /\ SuccessKept /\ Recorded' = Recorded /\ Enrolled' = Enrolled
  BY BooksSame, SuccessSame DEF ledger
<1>2. ListedInv'
  BY <1>1, ListedKept DEF DailyInv, DayInv, ListedInv
<1> QED
  BY <1>1, <1>2, DayKept

LEMMA MineDay ==
  ASSUME DailyInv, TypeOK', NEW t \in chain.pool, Mine(t)
  PROVE  DayInv'
<1>1. PICK out \in Outcomes, id \in (Ids \ Taken) \cup {None} :
        chain' = Extend([tx |-> t, out |-> out, id |-> id, time |-> clock])
  BY DEF Mine
<1> DEFINE e == [tx |-> t, out |-> out, id |-> id, time |-> clock]
<1>2. MinterInv /\ t \in TxBytes /\ t.nonce = Height /\ UNCHANGED <<source, ledger, clock>> /\ clock \in Nat
  BY ChainNow DEF Mine, DailyInv, RegistrationsInv, FeeInv, MinterInv, TypeOK
<1>3. Known(t)
  BY <1>2 DEF MinterInv, ChainInv, Published
<1>4. t.key[1] \in Enrolled /\ jobs[t.key[1]].done = 0
  BY <1>2, <1>3, NotDone
<1>5. e \in Entry /\ e.tx = t /\ e.time = clock
  BY <1>2 DEF Entry
<1> HIDE DEF e
<1>6. MinedKept
  BY <1>1, <1>2, <1>4, <1>5, ExtendMined DEF e
<1> QED
  BY <1>2, <1>6, ChainDay

LEMMA MineForeignDay ==
  ASSUME DailyInv, TypeOK', MineForeign
  PROVE  DayInv'
<1> DEFINE e == [tx |-> None, out |-> "success", id |-> None, time |-> clock]
<1>1. MinterInv /\ chain' = Extend(e) /\ UNCHANGED <<source, ledger, clock>> /\ clock \in Nat
  BY DEF MineForeign, DailyInv, RegistrationsInv, FeeInv, MinterInv, TypeOK
<1>2. e \in Entry /\ e.tx = None /\ e.time = clock
  BY <1>1 DEF Entry
<1> HIDE DEF e
<1>3. MinedKept
  BY <1>1, <1>2, ExtendMined
<1> QED
  BY <1>1, <1>3, ChainDay

LEMMA ReorgDay ==
  ASSUME DailyInv, TypeOK', Reorg
  PROVE  DayInv'
<1>0. MinterInv /\ UNCHANGED <<source, ledger, clock>>
  BY DEF Reorg, DailyInv, RegistrationsInv, FeeInv
<1>1. PICK n \in chain.final .. (Height - 1) : \E s : chain' = [chain EXCEPT !.mined = SubSeq(@, 1, n), !.pool = s]
  BY DEF Reorg
<1>2. n \in Nat /\ n < Len(chain.mined) /\ Len(chain.mined) \in Nat
  BY <1>0, <1>1, ChainNow DEF Height
<1> DEFINE m == SubSeq(chain.mined, 1, n)
<1>3. DOMAIN m = 1 .. n /\ \A i \in 1 .. n : m[i] = chain.mined[i]
  BY <1>0, <1>2, ChainNow
<1>4. chain'.mined = m
  <2>0. PICK s : chain' = [chain EXCEPT !.mined = m, !.pool = s]
    BY <1>1
  <2>1. chain \in ChainType /\ chain' = [chain EXCEPT !.mined = m, !.pool = s]
    BY <1>0, <2>0, ChainNow DEF NextChain
  <2> HIDE DEF m
  <2> QED
    BY <2>1 DEF ChainType
<1>5. DOMAIN chain.mined = 1 .. Len(chain.mined)
  BY <1>0, ChainNow
<1> HIDE DEF m
<1>6. \A i \in DOMAIN chain'.mined : i \in DOMAIN chain.mined /\ chain'.mined[i] = chain.mined[i]
  BY <1>2, <1>3, <1>4, <1>5
<1>7. MinedKept
  BY <1>6 DEF MinedKept
<1> QED
  BY <1>0, <1>7, ChainDay

\* The blocks that were mined are the same; time may pass.
LEMMA BlocksDay ==
  ASSUME DailyInv, TypeOK',
         Finalize \/ Tick \/ (\E t \in chain.pool : Evict(t)) \/ (\E p \in Procs : Broadcast(p))
  PROVE  DayInv'
<1>1. UNCHANGED <<source, ledger>> /\ clock' \in {clock, clock + 1}
  BY DEF Finalize, Tick, Evict, Broadcast
<1>2. chain \in ChainType
  BY ChainNow DEF NextChain, DailyInv, RegistrationsInv, FeeInv
<1>3. UNCHANGED chain.mined
  <2>1. ASSUME NEW s, chain' = [chain EXCEPT !.pool = s] \/ chain' = [chain EXCEPT !.final = s] \/ UNCHANGED chain
        PROVE  UNCHANGED chain.mined
    BY <1>2, <2>1 DEF ChainType
  <2> QED
    BY <2>1 DEF Finalize, Tick, Evict, Broadcast
<1>4. MinedKept
  BY <1>3 DEF MinedKept
<1> QED
  BY <1>1, <1>4, ChainDay

-----------------------------------------------------------------------------
(* Verdicts.                                                               *)

\* An open row is marked: the rows that succeeded stay so.
LEMMA MarkKeeps ==
  ASSUME TypeOK, NEW k \in Recorded, NEW out \in {"success", "reverted"}, Finalized(k, out)
  PROVE  SuccessKept /\ Recorded' = Recorded /\ txs'[k].out = out
<1>1. Recorded' = Recorded
  BY OutSet DEF Finalized
<1>2. k \in Key /\ txs[k] \in TxRow /\ txs[k].out = "open" /\ Recorded \subseteq Key
  BY RowIs DEF Finalized, Recorded, Key
<1> DEFINE r == [txs[k] EXCEPT !.out = out]
<1>3. r.out = out
  BY <1>2 DEF TxRow
<1>4. txs' = [txs EXCEPT ![k] = r]
  BY DEF Finalized
<1> HIDE DEF r
<1>5. txs'[k] = r /\ \A x \in Key \ {k} : txs'[x] = txs[x]
  BY <1>2, <1>4 DEF TypeOK
<1> QED
  BY <1>1, <1>2, <1>3, <1>5 DEF SuccessKept

LEMMA JudgeDay ==
  ASSUME DailyInv, TypeOK', NEW p \in Procs, Judge(p)
  PROVE  DayInv'
<1>1. UNCHANGED <<source, jobs, world>> /\ TypeOK /\ MinterInv /\ task[p].tx.key \in Recorded
  BY DEF Judge, DailyInv, RegistrationsInv, FeeInv, MinterInv, TasksInv, TaskFacts, InHand, Known
<1>2. SuccessKept /\ Recorded' = Recorded
  <2>1. UNCHANGED txs \/ Finalized(task[p].tx.key, "reverted")
    BY DEF Judge
  <2> QED
    BY <1>1, <2>1, SuccessSame, MarkKeeps
<1>3. BooksKept /\ DonesKept /\ Enrolled' = Enrolled
  BY <1>1, BooksSame
<1>4. ListedInv'
  BY <1>1, <1>3, ListedKept DEF DailyInv, DayInv, ListedInv
<1> QED
  BY <1>1, <1>2, <1>3, <1>4, DayKept, MinedSame DEF world

\* A job is done now, after all that was mined for it.
LEMMA SettleDay ==
  ASSUME DailyInv, TypeOK', NEW p \in Procs, Settle(p)
  PROVE  DayInv'
<1> DEFINE a == task[p].a
           k == task[p].tx.key
           done == [jobs[a] EXCEPT !.status = "registered", !.error = None, !.done = clock]
           j == IF k[2] = "register" THEN Unblocked(jobs[a]) ELSE done
<1>1. /\ UNCHANGED <<source, world>> /\ MinterInv /\ TypeOK /\ clock \in Nat
      /\ a \in Enrolled /\ a \in Agents /\ jobs[a] \in Job /\ k \in Recorded /\ k \in Key /\ k[1] = a
  BY SeenIsFinal DEF Settle, DailyInv, RegistrationsInv, FeeInv, MinterInv, TypeOK, Enrolled
<1>2. CASE UNCHANGED <<jobs, txs>>
  BY <1>1, <1>2, QuietDay DEF Settle, ledger
<1>3. CASE Finalized(k, "success") /\ jobs' = [jobs EXCEPT ![a] = j]
  <2>1. SuccessKept /\ Recorded' = Recorded /\ txs'[k].out = "success" /\ txs[k].out = "open"
    BY <1>1, <1>3, MarkKeeps DEF Finalized
  <2>2. done \in Job /\ done.env = jobs[a].env /\ done.done = clock
    BY <1>1 DEF Job, Statuses, Codes
  <2>3. /\ Unblocked(jobs[a]) \in Job /\ Unblocked(jobs[a]).env = jobs[a].env
        /\ Unblocked(jobs[a]).done = jobs[a].done
    BY <1>1 DEF Unblocked, Job, Statuses
  <2>4. k[2] # "register" => k = Upd(a) /\ jobs[a].done = 0
    <3>1. k[2] # "register" => k = Upd(a)
      BY <1>1 DEF Key, Phases, Upd
    <3>2. jobs[a].done # 0 => txs[Upd(a)].out = "success"
      BY <1>1 DEF DailyInv, DayInv, DoneInv, DoneFacts
    <3> QED
      BY <2>1, <3>1, <3>2
  <2>5. j # None /\ j.env = jobs[a].env /\ (jobs[a].done # 0 => j.done = jobs[a].done)
        /\ (j.done = jobs[a].done \/ (k = Upd(a) /\ j.done = clock))
    <3> HIDE DEF done
    <3> QED
      BY <2>2, <2>3, <2>4
  <2> HIDE DEF j, a, k
  <2>6. jobs'[a] = j /\ \A b \in Agents \ {a} : jobs'[b] = jobs[b]
    BY <1>1, <1>3 DEF TypeOK
  <2>7. BooksKept /\ Enrolled' = Enrolled
    BY <1>1, <2>5, <2>6 DEF BooksKept, Enrolled
  <2>8. MinedKept /\ clock' = clock
    BY <1>1, MinedSame DEF world
  <2>9. ASSUME NEW b \in Enrolled' PROVE DoneFacts(b)'
    <3>1. CASE b # a
      <4>1. b \in Enrolled /\ jobs'[b].done = jobs[b].done
        BY <2>6, <2>7, <3>1 DEF Enrolled
      <4> QED
        BY <2>1, <2>8, <4>1, DoneFactsKept
    <3>2. CASE b = a /\ j.done = jobs[a].done
      BY <1>1, <2>1, <2>6, <2>7, <2>8, <3>2, DoneFactsKept
    <3>3. CASE b = a /\ k = Upd(a) /\ j.done = clock
      <4>1. Upd(a) \in Recorded' /\ txs'[Upd(a)].out = "success"
        BY <1>1, <2>1, <3>3
      <4>2. \A i \in DOMAIN chain'.mined : chain'.mined[i].time <= clock
        BY <1>1 DEF world, DailyInv, DayInv, TimesInv
      <4> QED
        BY <2>6, <3>3, <4>1, <4>2 DEF DoneFacts, Upd
    <3> QED
      BY <2>5, <3>1, <3>2, <3>3
  <2>10. ListedInv'
    BY <1>1, <2>7, ListedKept DEF DailyInv, DayInv, ListedInv
  <2>11. OrderInv'
    BY <2>1, OrderKept
  <2> QED
    BY <2>7, <2>8, <2>9, <2>10, <2>11, LiabilityKept, TimesKept DEF DayInv, DoneInv
<1> QED
  BY <1>2, <1>3 DEF Settle

-----------------------------------------------------------------------------
(* The signature.                                                          *)

\* The first envelope of a job is checked against what the others hold.
LEMMA OneMoreHeld ==
  ASSUME DailyInv, TypeOK', NEW a \in Enrolled, jobs[a].env = 0, jobs'[a] # None,
         \A b \in Agents \ {a} : jobs'[b] = jobs[b], UNCHANGED clock,
         Liability + jobs'[a].env <= Daily
  PROVE  LiabilityInv'
<1> DEFINE H == Holders(jobs, clock)
           G == Holders(jobs', clock')
<1>1. IsFiniteSet(H) /\ H \subseteq Enrolled /\ \A b \in H : jobs[b].env \in Nat
  BY HoldersFinite DEF DailyInv, DayInv, RegistrationsInv, FeeInv, MinterInv
<1>2. a \in Agents /\ a \notin H /\ jobs'[a].env \in Nat
  <2>1. a \in Agents /\ a \notin H
    BY DEF Holders, Holding, Enrolled
  <2>2. jobs'[a] \in Job
    BY <2>1 DEF TypeOK
  <2> QED
    BY <2>1, <2>2 DEF Job
<1>3. G = H \/ G = H \cup {a}
  BY <1>2 DEF Holders, Holding
<1>4. \A b \in H : jobs'[b].env = jobs[b].env
  BY <1>1, <1>2 DEF Enrolled
<1>5. EnvOf(jobs, H) + jobs'[a].env <= Daily
  BY LiabilityIs
<1> HIDE DEF H, G
<1>6. EnvOf(jobs', H \cup {a}) = EnvOf(jobs, H) + jobs'[a].env /\ EnvOf(jobs, H) \in Nat
  BY <1>1, <1>2, <1>4, OneMoreHolder
<1>7. EnvOf(jobs', H) <= EnvOf(jobs, H) /\ EnvOf(jobs', H) \in Nat
  <2>1. \A b \in H : jobs'[b].env \in Nat /\ jobs[b].env = jobs'[b].env
    BY <1>1, <1>4
  <2> QED
    BY <1>1, <1>4, <2>1, FewerHolders
<1>8. EnvOf(jobs', G) <= Daily
  <2>1. CASE G = H
    BY <1>2, <1>5, <1>6, <1>7, <2>1
  <2>2. CASE G = H \cup {a}
    BY <1>5, <1>6, <2>2
  <2> QED
    BY <1>3, <2>1, <2>2
<1> QED
  BY <1>8 DEF LiabilityInv, G

\* What Sign writes, as the daily ceiling sees it.
Signed(k, a, env) ==
  /\ txs[k] = None /\ Recorded' = Recorded \cup {k} /\ (\A l \in Key \ {k} : txs'[l] = txs[l])
  /\ jobs'[a] # None /\ jobs'[a].env = env /\ jobs'[a].done = jobs[a].done
  /\ \A b \in Agents \ {a} : jobs'[b] = jobs[b]

LEMMA SignedDay ==
  ASSUME DailyInv, TypeOK', UNCHANGED <<source, world>>, NEW a \in Enrolled, NEW k \in {Reg(a), Upd(a)}, NEW env,
         Signed(k, a, env),
         k = Reg(a) => Liability + env <= Daily,
         k = Upd(a) => env = jobs[a].env /\ Reg(a) \in Recorded /\ txs[Reg(a)].out = "success"
  PROVE  DayInv'
<1>1. a \in Agents /\ k \in Key /\ Recorded \subseteq Key /\ k \notin Recorded
  BY DEF Enrolled, Reg, Upd, Key, Phases, Recorded, Signed
<1>2. Enrolled' = Enrolled
  BY <1>1 DEF Signed, Enrolled
<1>3. SuccessKept
  BY <1>1 DEF SuccessKept, Signed
<1>4. MinedKept /\ clock' = clock
  BY MinedSame DEF world
<1>5. DonesKept
  BY <1>1, <1>2 DEF DonesKept, Signed, Enrolled
<1>6. ListedInv'
  BY <1>2, ListedKept DEF DailyInv, DayInv, ListedInv
<1>7. DoneInv'
  BY <1>3, <1>4, <1>5, DoneFactsKept DEF DoneInv, DonesKept
<1>8. TimesInv'
  BY <1>4, TimesKept
<1>9. Reg(a) # Upd(a) /\ JobFees(a)
  BY DEF Reg, Upd, DailyInv, RegistrationsInv, FeeInv, FeesInv
<1>10. OrderInv'
  <2>1. ASSUME NEW b \in Agents, Upd(b) \in Recorded' \ Recorded PROVE txs[Reg(b)] # None /\ txs[Reg(b)].out = "success"
    <3>1. Upd(b) = k
      BY <2>1 DEF Signed
    <3>2. b = a /\ k = Upd(a)
      BY <3>1 DEF Reg, Upd
    <3> QED
      BY <3>2 DEF Recorded
  <2> QED
    BY <1>3, <2>1, OrderKept
<1>11. LiabilityInv'
  <2>1. CASE k = Upd(a)
    <3>1. BooksKept
      BY <1>1, <1>2, <2>1 DEF BooksKept, Signed, Enrolled
    <3> QED
      BY <1>4, <3>1, LiabilityKept
  <2>2. CASE k = Reg(a)
    <3>1. jobs[a].env = 0
      BY <1>1, <1>9, <2>2 DEF JobFees
    <3> QED
      BY <1>4, <2>2, <3>1, OneMoreHeld DEF Signed
  <2> QED
    BY <2>1, <2>2
<1> QED
  BY <1>6, <1>7, <1>8, <1>10, <1>11 DEF DayInv

LEMMA SignDay ==
  ASSUME DailyInv, TypeOK', NEW p \in Procs, Sign(p)
  PROVE  DayInv'
<1> DEFINE a == task[p].a
           q == task[p].quote
           ph == PhaseOf(task[p].job)
           k == <<a, ph>>
           o == jobs[a]
           first == k[2] = "register"
           env == Envelope(p, k, q)
           ceiling == Effective(p, o)
           st == IF first THEN "registering" ELSE "updating"
           ul == IF o.updLimit = 0 THEN Limit[p] ELSE o.updLimit
           j == [o EXCEPT !.status = st, !.error = None, !.reg = TRUE, !.upd = ~first, !.env = env,
                          !.ceiling = ceiling, !.updLimit = ul]
           row == [nonce |-> q.latest, cost |-> q.cost, out |-> "open"]
<1>1. /\ UNCHANGED <<source, world>> /\ FeeInv /\ TypeOK /\ CopyFees(p) /\ a \in Enrolled /\ a \in Agents /\ o \in Job
      /\ q \in Quotes /\ task[p].job # None /\ ph \in Phases
  <2>1. FeeInv /\ UNCHANGED <<source, world>>
    BY DEF Sign, DailyInv, RegistrationsInv
  <2>2. TypeOK /\ TaskFacts(p) /\ CopyFees(p) /\ task[p].at = "sign"
    BY <2>1 DEF Sign, FeeInv, MinterInv, TasksInv, CopiesInv
  <2>3. task[p].job # None /\ q # None /\ a \in Enrolled
    BY <2>2 DEF TaskFacts, OnJob
  <2>4. q \in Quotes
    BY <2>2, <2>3 DEF TypeOK, TaskType
  <2>5. a \in Agents /\ o \in Job /\ ph \in Phases
    BY <2>2, <2>3 DEF TypeOK, Enrolled, PhaseOf, Phases
  <2> QED
    BY <2>1, <2>2, <2>3, <2>4, <2>5
<1>2. CASE UNCHANGED ledger
  BY <1>1, <1>2, QuietDay
<1>3. CASE Refusal(p, k, q) = None /\ txs' = [txs EXCEPT ![k] = row] /\ jobs' = [jobs EXCEPT ![a] = j]
  <2>1. ph = "update" => Reg(a) \in Recorded
    BY <1>1 DEF PhaseOf, CopyFees
  <2>2. /\ txs[k] = None /\ env \in Nat /\ (ph = "update" => env = o.env)
    BY <1>1, <1>3, <2>1, SignChecked
  <2>3. ~Overspends(p, k, q) /\ ~Unregistered(k)
    BY <1>3 DEF Refusal
  <2>4. ph = "register" => Liability + env <= Daily
    <3>1. ph = "register" => ~(Liability + env > Daily)
      BY <2>3 DEF Overspends
    <3>2. Liability \in Nat
      <4>1. IsFiniteSet(Holders(jobs, clock)) /\ \A b \in Holders(jobs, clock) : jobs[b].env \in Nat
        BY <1>1, HoldersFinite DEF DailyInv, DayInv
      <4>2. EnvOf(jobs, Holders(jobs, clock)) \in Nat
        BY <4>1, FewerHolders
      <4> QED
        BY <4>2, LiabilityIs
    <3>3. Daily \in Nat
      OBVIOUS
    <3> HIDE DEF env
    <3> QED
      BY <2>2, <3>1, <3>2, <3>3
  <2>5. ph = "update" => txs[Reg(a)].out = "success"
    BY <2>3 DEF Unregistered, Reg
  <2>6. row \in TxRow /\ k \in Key
    BY <1>1 DEF Quotes, TxRow, Key
  <2>7. ceiling \in Nat /\ st \in Statuses \ {"none"} /\ ul \in Nat /\ first \in BOOLEAN
    BY <1>1, EffectiveType DEF Statuses, Job
  <2> HIDE DEF env, ceiling, st, ul, first, row, q
  <2>8. j \in Job /\ j.env = env /\ j.done = o.done /\ j # None
    <3>1. j = [o EXCEPT !.status = st, !.error = None, !.reg = TRUE, !.upd = ~first, !.env = env,
                        !.ceiling = ceiling, !.updLimit = ul]
      OBVIOUS
    <3>2. o \in Job /\ env \in Nat
      BY <1>1, <2>2
    <3> HIDE DEF j, o
    <3>3. j \in Job /\ j.env = env /\ j.done = o.done
      BY <2>7, <3>1, <3>2 DEF Job, Codes
    <3> QED
      BY <3>3
  <2>9. Recorded' = Recorded \cup {k} /\ \A l \in Key \ {k} : txs'[l] = txs[l]
    BY <1>1, <1>3, <2>2, <2>6, RowAdded DEF TypeOK
  <2> HIDE DEF j
  <2>10. jobs'[a] = j /\ \A b \in Agents \ {a} : jobs'[b] = jobs[b]
    BY <1>1, <1>3 DEF TypeOK
  <2>11. Signed(k, a, env)
    BY <2>2, <2>8, <2>9, <2>10 DEF Signed
  <2>12. k \in {Reg(a), Upd(a)} /\ (k = Reg(a) => ph = "register") /\ (k = Upd(a) => ph = "update")
    BY <1>1 DEF Reg, Upd, Phases
  <2> HIDE DEF k, a, ph
  <2>13. a \in Enrolled /\ UNCHANGED <<source, world>>
    BY <1>1
  <2>14. k = Reg(a) => Liability + env <= Daily
    BY <2>4, <2>12
  <2>15. k = Upd(a) => env = jobs[a].env /\ Reg(a) \in Recorded /\ txs[Reg(a)].out = "success"
    BY <2>1, <2>2, <2>5, <2>12 DEF o
  <2>16. k \in {Reg(a), Upd(a)}
    BY <2>12
  <2> HIDE DEF o
  <2> QED
    BY <2>11, <2>13, <2>14, <2>15, <2>16, SignedDay
<1> QED
  BY <1>2, <1>3 DEF Sign

-----------------------------------------------------------------------------
(* The theorems of the daily ceiling.                                      *)

LEMMA DailyStep == DailyInv /\ [Next]_vars => DailyInv'
<1> SUFFICES ASSUME DailyInv, [Next]_vars PROVE DailyInv'
  OBVIOUS
<1>1. RegistrationsInv' /\ TypeOK'
  <2>1. FeeInv'
    BY FeesStep DEF DailyInv, RegistrationsInv
  <2>2. MinterInv'
    BY <2>1 DEF FeeInv
  <2>3. SlotsInv' /\ DecidedInv'
    BY <2>2, RegistrationsStep DEF DailyInv
  <2> QED
    BY <2>1, <2>2, <2>3 DEF RegistrationsInv, MinterInv
<1>2. ASSUME NEW p \in Procs, Work(p) PROVE DayInv'
  <2>1. CASE UNCHANGED <<source, ledger, world>>
    BY <1>1, <2>1, QuietDay
  <2>2. CASE Reproject(p) \/ Project(p)
    BY <1>1, <2>2, ProjectDay
  <2>3. CASE Discover(p) \/ Select(p) \/ Shrink(p) \/ Sign(p) \/ Mint(p) \/ Settle(p) \/ Judge(p) \/ Block(p)
    BY <1>1, <2>3, DiscoverDay, SelectDay, ShrinkDay, SignDay, MintDay, SettleDay, JudgeDay, BlockDay
  <2>4. CASE Broadcast(p)
    BY <1>1, <2>4, BlocksDay
  <2> QED
    BY <1>2, <2>1, <2>2, <2>3, <2>4 DEF Work, Acquire, LoopOrExit, Quote, Receipt, Nonces, Reread
<1>3. ASSUME NEW p \in Procs, Unavailable(p) \/ SessionBreaks(p) \/ LockLost(p) \/ Crash(p) PROVE DayInv'
  BY <1>1, <1>3, QuietDay DEF Unavailable, SessionBreaks, LockLost, Crash
<1>4. ASSUME NEW a \in Agents, Enroll(a) PROVE DayInv'
  BY <1>1, <1>4, EnrollDay
<1>5. ASSUME NEW t \in chain.pool, Mine(t) PROVE DayInv'
  BY <1>1, <1>5, MineDay
<1>6. ASSUME NEW t \in chain.pool, Evict(t) PROVE DayInv'
  BY <1>1, <1>6, BlocksDay
<1>7. ASSUME Resync \/ MineForeign \/ Reorg \/ Finalize \/ Tick PROVE DayInv'
  BY <1>1, <1>7, ResyncDay, MineForeignDay, ReorgDay, BlocksDay
<1>8. ASSUME UNCHANGED vars PROVE DayInv'
  <2>1. UNCHANGED <<source, ledger, world>>
    BY <1>8 DEF vars, ledger, world
  <2> QED
    BY <1>1, <2>1, QuietDay
<1>9. DayInv'
  <2>1. CASE Next
    BY <1>2, <1>3, <1>4, <1>5, <1>6, <1>7, <2>1 DEF Next
  <2> QED
    BY <1>8, <2>1
<1> QED
  BY <1>1, <1>9 DEF DailyInv

LEMMA DailyInit == Init => DayInv
<1> SUFFICES ASSUME Init PROVE DayInv
  OBVIOUS
<1>1. Enrolled = {} /\ Recorded = {} /\ chain.mined = <<>> /\ Listed(source) = {} /\ Holders(jobs, clock) = {}
  BY DEF Init, Enrolled, Recorded, Listed, Holders, Holding
<1>2. IsFiniteSet({})
  BY FS_EmptySet
<1>3. ListedInv
  BY <1>1, <1>2 DEF ListedInv
<1>4. EnvOf(jobs, {}) <= Daily
  <2>1. EnvOf(jobs, {}) = Total([a \in {} |-> jobs[a].env], {})
    BY <1>2, EnvOfIsTotal
  <2>2. Total([a \in {} |-> jobs[a].env], {}) = 0
    BY TotalEmpty
  <2> QED
    BY <2>1, <2>2
<1> QED
  BY <1>1, <1>3, <1>4 DEF DayInv, OrderInv, DoneInv, TimesInv, LiabilityInv

\* The envelopes that are held stay within the day's ceiling, and a job that is done was
\* done after all that was mined for it, whoever holds the lock or reorganises the chain.
THEOREM DailyInvariant == Spec => []DailyInv
<1>1. Init => DailyInv
  BY MinterInit, FeesInit, RegistrationsInit, DailyInit DEF DailyInv, RegistrationsInv, FeeInv
<1> QED
  BY <1>1, DailyStep, PTL DEF Spec

\* The fees of any day on the chain stay within the daily ceiling (dailyLiability), for
\* any number of agents and processes, however long their transactions stay open.
THEOREM DailyFeesAlways == Spec => []DailyFees
BY DailyInvariant, DailyFeesHold, PTL
=============================================================================
