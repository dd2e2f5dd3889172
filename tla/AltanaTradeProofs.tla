-------------------------- MODULE AltanaTradeProofs --------------------------
(***************************************************************************)
(* Proofs about AltanaTrade, for every set of intents and of services that *)
(* reconcile.  The invariant says what each part knows of the chain: a row *)
(* of the journal, an intent, the verdict a pass carries from its question *)
(* to its write, the trade in the worker's hand at each step, a position.  *)
(***************************************************************************)
EXTENDS AltanaTrade, TLAPS

-----------------------------------------------------------------------------
(* The invariant.                                                          *)

\* A settled intent that claims its trade never happened.
Dropped(t) == intent[t] = "rolled-back" /\ t \notin inert

\* What the journal and the intent of a trade say of the chain; what is not
\* begun is nowhere.
TradeFacts(t) ==
  /\ intent[t] = "none" => row[t].st = "none"
  /\ row[t].st = "none" => chain[t] = "none"
  /\ row[t].st = "COMMITTED" => chain[t] = "landed"
  /\ row[t].st = "ROLLED_BACK" => chain[t] \in {"none", "failed"}
  /\ intent[t] = "projected" => chain[t] = "landed"
  /\ Dropped(t) => chain[t] \in {"none", "failed"}
TradeInv == \A t \in Trades : TradeFacts(t)

\* A pass asked a chain that does not change its mind.
PassInv == \A p \in Procs : pass[p].cur # None =>
  /\ pass[p].out \in {"COMMITTED", "ROLLED_BACK", "UNKNOWN"}
  /\ pass[p].out = "COMMITTED" => chain[pass[p].cur] = "landed"
  /\ pass[p].out = "ROLLED_BACK" => chain[pass[p].cur] = "failed"

\* The place the trade's position is at when projectIntent goes on to the intent.
PositionBooked(t) ==
  /\ t \in Buys => position[t] # "none"
  /\ t \in Sells => position[target[t]] # "open"

\* What executeTradeForAgent and projectIntent know of the trade in hand.
HandInv ==
  /\ w.pc = "exec" => row[w.t].st = "none"
  /\ w.pc \in {"check", "ready"} => row[w.t].st \in {"PENDING", "UNKNOWN"} /\ chain[w.t] = "none"
  /\ w.pc = "bound" => row[w.t].st # "none" /\ chain[w.t] \in {"prepared", "failed"}
  /\ w.pc \in {"sent", "await"} => row[w.t].st # "none" /\ chain[w.t] \in {"sent", "landed", "failed"}
  /\ w.pc = "refused" => row[w.t].st = "ROLLED_BACK"
  /\ w.pc \in {"project", "book"} => row[w.t].st = "COMMITTED"
  /\ w.pc = "book" => PositionBooked(w.t)
  /\ w.next # "idle" => w.pc \in InHand

\* The list of the settling loop holds unsettled intents, the one in hand apart.
ListInv == w.todo \subseteq Unsettled \ {w.t}

\* Once a sell was disposed of as inert the key is dead and nothing is traded.
InertInv == inert # {} =>
  /\ ~live /\ w.next # "trade"
  /\ w.pc \notin {"trade", "exec", "check", "ready", "bound", "sent", "await", "refused"}

\* What was bought has a position, once its intent says so.
BuyInv == \A b \in Buys :
  /\ position[b] # "none" => chain[b] = "landed"
  /\ intent[b] = "projected" => position[b] # "none"
  /\ position[b] = "sold" => \E s \in Sells : target[s] = b /\ chain[s] = "landed"

\* A sell has a position to sell, which is not open any more once it is booked.
SellInv == \A s \in Sells :
  /\ intent[s] = "none" => target[s] = None
  /\ intent[s] # "none" => target[s] \in Buys /\ position[target[s]] # "none"
  /\ intent[s] = "projected" => position[target[s]] # "open"

\* Of two sells of one position, one is dropped.
RivalInv == \A s, r \in Sells :
  s # r /\ target[s] = target[r] /\ target[s] \in Buys => Dropped(s) \/ Dropped(r)

\* Together, and with the types, they are kept by every step.
TradesInv ==
  TypeOK /\ TradeInv /\ PassInv /\ HandInv /\ ListInv /\ InertInv /\ BuyInv /\ SellInv /\ RivalInv
-----------------------------------------------------------------------------
(* What the small operators do.                                            *)

USE TradeAssumption
USE DEF Trades, Procs, agent, account, books, Leave, Throw

\* One row of the journal is written.
LEMMA RowSet ==
  ASSUME TypeOK, NEW t \in Trades, NEW r \in RowType, SetRow(t, r)
  PROVE  /\ row' \in [Trades -> RowType] /\ row'[t] = r
         /\ \A u \in Trades \ {t} : row'[u] = row[u]
BY DEF TypeOK, SetRow

\* A row that is marked keeps its other columns.
LEMMA MarkedRow ==
  ASSUME NEW r \in RowType, NEW st \in States
  PROVE  [r EXCEPT !.st = st] \in RowType /\ [r EXCEPT !.st = st].st = st
BY DEF RowType

LEMMA MarkSets ==
  ASSUME TypeOK, NEW t \in Trades, NEW st \in States, Mark(t, st)
  PROVE  /\ row' \in [Trades -> RowType] /\ row'[t].st = st /\ Legal(row[t].st, st)
         /\ \A u \in Trades \ {t} : row'[u] = row[u]
<1>1. row[t] \in RowType
  BY DEF TypeOK
<1>2. [row[t] EXCEPT !.st = st] \in RowType /\ [row[t] EXCEPT !.st = st].st = st
  BY <1>1, MarkedRow
<1> QED
  BY <1>2, RowSet DEF Mark

LEMMA CommitSets ==
  ASSUME TypeOK, NEW t \in Trades, Commit(t)
  PROVE  /\ row' \in [Trades -> RowType] /\ row'[t].st = "COMMITTED"
         /\ \A u \in Trades \ {t} : row'[u] = row[u]
<1>1. row[t] \in RowType
  BY DEF TypeOK
<1>2. PICK tx \in BOOLEAN : SetRow(t, [row[t] EXCEPT !.st = "COMMITTED", !.tx = @ \/ tx])
  BY DEF Commit, Hashes
<1>3. [row[t] EXCEPT !.st = "COMMITTED", !.tx = @ \/ tx] \in RowType
  BY <1>1 DEF RowType, States
<1>4. [row[t] EXCEPT !.st = "COMMITTED", !.tx = @ \/ tx].st = "COMMITTED"
  BY <1>1 DEF RowType
<1> QED
  BY <1>2, <1>3, <1>4, RowSet

\* The worker goes on with the trade in hand, leaves it, or ends its cycle.
LEMMA GotoMoves ==
  ASSUME TypeOK, NEW pc \in InHand, Goto(pc)
  PROVE  w' \in WorkerType /\ w'.pc = pc /\ w'.t = w.t /\ w'.todo = w.todo /\ w'.next = w.next
BY DEF TypeOK, WorkerType, Goto

LEMMA BackMoves ==
  ASSUME TypeOK, Back
  PROVE  w' \in WorkerType /\ w'.pc = w.next /\ w'.t = None /\ w'.todo = w.todo /\ w'.next = "idle"
BY DEF TypeOK, WorkerType, Back

LEMMA ThenMoves ==
  ASSUME NEW pc \in {"idle", "pass", "trade"}, Then(pc)
  PROVE  w' \in WorkerType /\ w'.pc = pc /\ w'.t = None /\ w'.todo = {} /\ w'.next = "idle"
BY DEF WorkerType, Then, IdleW

-----------------------------------------------------------------------------
(* What a step of executeTradeForAgent does: the trade in hand moves.      *)

\* The steps at which a trade is executed; it came from the trading part.
Executing == {"exec", "check", "ready", "bound", "sent", "await", "refused"}

\* Everything a step of the execution leaves alone.
OnlyHand == UNCHANGED <<agent, live, wallet, intent, target, inert, position, pass>>
\* Of the rows and the chain, only what concerns the trade t changes.
OnlyOwn(t) ==
  /\ row' \in [Trades -> RowType]
  /\ chain' \in [Trades -> {"none", "prepared", "sent", "landed", "failed"}]
  /\ \A u \in Trades \ {t} : row'[u] = row[u] /\ chain'[u] = chain[u]
  /\ chain[t] \in {"landed", "failed"} => chain'[t] = chain[t]

LEMMA OwnRow ==
  ASSUME TypeOK, NEW t \in Trades, UNCHANGED chain, row' \in [Trades -> RowType],
         \A u \in Trades \ {t} : row'[u] = row[u]
  PROVE  OnlyOwn(t)
BY DEF TypeOK, OnlyOwn

LEMMA OwnNothing ==
  ASSUME TypeOK, NEW t \in Trades, UNCHANGED <<chain, row>>
  PROVE  OnlyOwn(t)
BY DEF TypeOK, OnlyOwn

\* What does not depend on where the worker is.
LEMMA OwnKeeps ==
  ASSUME TradesInv, NEW t \in Trades, OnlyHand, OnlyOwn(t), TradeFacts(t)'
  PROVE  TradeInv' /\ PassInv' /\ BuyInv' /\ SellInv' /\ RivalInv'
<1>1. TradeInv'
  BY DEF TradesInv, TradeInv, TradeFacts, Dropped, OnlyHand, OnlyOwn
<1>2. PassInv'
  BY DEF TradesInv, TypeOK, PassInv, PassType, OnlyHand, OnlyOwn
<1>3. BuyInv'
  BY DEF TradesInv, BuyInv, OnlyHand, OnlyOwn
<1>4. SellInv' /\ RivalInv'
  BY DEF TradesInv, SellInv, RivalInv, Dropped, OnlyHand
<1> QED
  BY <1>1, <1>2, <1>3, <1>4

\* The step goes on to another one of the execution, or to the projection.
LEMMA OwnGoes ==
  ASSUME TradesInv, NEW t \in Trades, w.t = t, w.pc \in Executing, OnlyHand, OnlyOwn(t), TradeFacts(t)',
         NEW pc \in InHand, Goto(pc), HandInv'
  PROVE  TradesInv'
<1>1. w' \in WorkerType /\ w'.pc = pc /\ w'.t = w.t /\ w'.todo = w.todo /\ w'.next = w.next
  BY GotoMoves DEF TradesInv
<1>2. TypeOK'
  BY <1>1 DEF TradesInv, TypeOK, OnlyHand, OnlyOwn
<1>3. ListInv'
  BY <1>1 DEF TradesInv, ListInv, Unsettled, OnlyHand
<1>4. InertInv'
  BY <1>1 DEF TradesInv, InertInv, OnlyHand, Executing
<1> QED
  BY <1>2, <1>3, <1>4, OwnKeeps DEF TradesInv

\* The worker leaves the trade to later cycles.
LEMMA HandLeft ==
  ASSUME TradesInv, Back \/ Then("idle"), w.pc \in Executing, OnlyHand
  PROVE  w' \in WorkerType /\ w'.t = None /\ w'.pc \notin InHand /\ HandInv' /\ ListInv' /\ InertInv'
<1>1. /\ w' \in WorkerType /\ w'.t = None /\ w'.todo \subseteq w.todo /\ w'.next = "idle"
      /\ w'.pc \in {"idle", "settle", "trade"}
  BY BackMoves, ThenMoves DEF TradesInv, TypeOK, WorkerType
<1>2. HandInv' /\ w'.pc \notin InHand
  BY <1>1 DEF HandInv, InHand
<1>3. None \notin Unsettled
  BY DEF Unsettled
<1>4. ListInv'
  BY <1>1, <1>3 DEF TradesInv, ListInv, Unsettled, OnlyHand
<1>5. InertInv'
  BY <1>1 DEF TradesInv, InertInv, OnlyHand, Executing
<1> QED
  BY <1>1, <1>2, <1>4, <1>5

LEMMA OwnLeaves ==
  ASSUME TradesInv, NEW t \in Trades, w.t = t, w.pc \in Executing, OnlyHand, OnlyOwn(t), TradeFacts(t)',
         Back \/ Then("idle")
  PROVE  TradesInv'
<1>1. w' \in WorkerType /\ w'.t = None /\ w'.pc \notin InHand /\ HandInv' /\ ListInv' /\ InertInv'
  BY HandLeft
<1>2. TypeOK'
  BY <1>1 DEF TradesInv, TypeOK, OnlyHand, OnlyOwn
<1> QED
  BY <1>1, <1>2, OwnKeeps DEF TradesInv
-----------------------------------------------------------------------------
(* executeTradeForAgent.                                                   *)

LEMMA InHandTrade ==
  ASSUME TradesInv, w.pc \in InHand
  PROVE  w.t \in Trades /\ intent[w.t] = "pending" /\ TradeFacts(w.t)
BY DEF TradesInv, TypeOK, WorkerType, TradeInv

LEMMA BeginKeeps ==
  ASSUME TradesInv, NEW t \in Trades, Begin(t)
  PROVE  TradesInv'
<1>1. w.t = t /\ w.pc = "exec" /\ row[t].st = "none" /\ intent[t] = "pending" /\ chain[t] = "none"
  BY DEF Begin, Exec, TradesInv, TypeOK, HandInv, TradeInv, TradeFacts
<1>2. [NoRow EXCEPT !.st = "PENDING"] \in RowType /\ [NoRow EXCEPT !.st = "PENDING"].st = "PENDING"
  BY DEF NoRow, RowType, States, NonTerminal
<1>3. /\ row' \in [Trades -> RowType] /\ row'[t].st = "PENDING"
      /\ \A u \in Trades \ {t} : row'[u] = row[u]
  BY <1>2, RowSet DEF Begin, TradesInv
<1>4. OnlyOwn(t) /\ OnlyHand
  BY <1>3, OwnRow DEF Begin, OnlyHand, TradesInv
<1>5. TradeFacts(t)'
  BY <1>1, <1>3 DEF Begin, TradeFacts, Dropped
<1>6. w'.pc = "check" /\ w'.t = t
  BY <1>1, GotoMoves DEF Begin, TradesInv, InHand
<1>7. HandInv'
  BY <1>1, <1>3, <1>6 DEF Begin, HandInv, InHand
<1> QED
  BY <1>1, <1>4, <1>5, <1>7, OwnGoes DEF Begin, InHand, Executing

LEMMA RefuseKeeps ==
  ASSUME TradesInv, NEW t \in Trades, Refuse(t)
  PROVE  TradesInv'
<1>1. w.t = t /\ w.pc \in {"check", "ready"} /\ chain[t] = "none" /\ intent[t] = "pending" /\ TradeFacts(t)
  BY DEF Refuse, Exec, TradesInv, TypeOK, HandInv, TradeInv
<1>2. w.pc \in Executing /\ OnlyHand
  BY <1>1 DEF Refuse, Executing, OnlyHand
<1>3. CASE Mark(t, "ROLLED_BACK") /\ Goto("refused")
  <2>1. /\ row' \in [Trades -> RowType] /\ row'[t].st = "ROLLED_BACK"
        /\ \A u \in Trades \ {t} : row'[u] = row[u]
    BY <1>3, MarkSets DEF TradesInv, States, NonTerminal
  <2>2. OnlyOwn(t)
    BY <2>1, OwnRow DEF Refuse, TradesInv
  <2>3. TradeFacts(t)'
    BY <1>1, <2>1 DEF Refuse, TradeFacts, Dropped
  <2>4. w'.pc = "refused" /\ w'.t = t
    BY <1>1, <1>3, GotoMoves DEF TradesInv, InHand
  <2>5. HandInv'
    BY <2>1, <2>4 DEF HandInv, InHand
  <2> QED
    BY <1>1, <1>2, <1>3, <2>2, <2>3, <2>5, OwnGoes DEF InHand
<1>4. CASE (Throw \/ Leave) /\ UNCHANGED row
  <2>1. OnlyOwn(t)
    BY <1>4, OwnNothing DEF Refuse, TradesInv
  <2>2. TradeFacts(t)'
    BY <1>1, <1>4 DEF Refuse, TradeFacts, Dropped
  <2> QED
    BY <1>1, <1>2, <1>4, <2>1, <2>2, OwnLeaves
<1> QED
  BY <1>3, <1>4 DEF Refuse

LEMMA CheckKeeps ==
  ASSUME TradesInv, NEW t \in Trades, Check(t)
  PROVE  TradesInv'
<1>1. w.t = t /\ w.pc = "check" /\ TradeFacts(t) /\ OnlyHand /\ OnlyOwn(t)
  BY OwnNothing DEF Check, Exec, TradesInv, TradeInv, OnlyHand
<1>2. w'.pc = "ready" /\ w'.t = t
  BY <1>1, GotoMoves DEF Check, TradesInv, InHand
<1>3. HandInv'
  BY <1>1, <1>2 DEF Check, TradesInv, HandInv, InHand
<1>4. TradeFacts(t)'
  BY <1>1 DEF Check, TradeFacts, Dropped
<1> QED
  BY <1>1, <1>3, <1>4, OwnGoes DEF Check, InHand, Executing
\* Its nonce is the account's next one: nothing was prepared for this trade before.
LEMMA BindKeeps ==
  ASSUME TradesInv, NEW t \in Trades, Bind(t)
  PROVE  TradesInv'
<1>1. /\ w.t = t /\ w.pc = "ready" /\ chain[t] = "none" /\ intent[t] = "pending"
      /\ row[t] \in RowType /\ row[t].st \in {"PENDING", "UNKNOWN"} /\ TradeFacts(t)
  BY DEF Bind, Exec, TradesInv, TypeOK, HandInv, TradeInv
<1>2. w.pc \in Executing /\ OnlyHand
  BY <1>1 DEF Bind, Executing, OnlyHand
<1>3. CASE Leave /\ UNCHANGED <<chain, row>>
  <2>1. OnlyOwn(t)
    BY <1>3, OwnNothing DEF TradesInv
  <2>2. TradeFacts(t)'
    BY <1>1, <1>3 DEF Bind, TradeFacts, Dropped
  <2> QED
    BY <1>1, <1>2, <1>3, <2>1, <2>2, OwnLeaves
<1>4. CASE chain' = [chain EXCEPT ![t] = "prepared"]
  <2>1. chain'[t] = "prepared" /\ (\A u \in Trades \ {t} : chain'[u] = chain[u])
        /\ chain' \in [Trades -> {"none", "prepared", "sent", "landed", "failed"}]
    BY <1>4 DEF TradesInv, TypeOK
  <2> DEFINE r(st) == [row[t] EXCEPT !.bound = TRUE, !.st = st]
  <2>2. /\ [row[t] EXCEPT !.bound = TRUE] \in RowType /\ [row[t] EXCEPT !.bound = TRUE].st = row[t].st
        /\ r("UNKNOWN") \in RowType /\ r("UNKNOWN").st = "UNKNOWN"
    BY <1>1 DEF RowType, States
  <2>3. CASE SetRow(t, [row[t] EXCEPT !.bound = TRUE]) /\ Goto("bound")
    <3>1. /\ row' \in [Trades -> RowType] /\ row'[t].st = row[t].st
          /\ \A u \in Trades \ {t} : row'[u] = row[u]
      BY <2>2, <2>3, RowSet DEF TradesInv
    <3>2. OnlyOwn(t) /\ TradeFacts(t)'
      BY <1>1, <2>1, <3>1 DEF OnlyOwn, TradeFacts, Dropped, Bind
    <3>3. w'.pc = "bound" /\ w'.t = t
      BY <1>1, <2>3, GotoMoves DEF TradesInv, InHand
    <3>4. HandInv'
      BY <1>1, <2>1, <3>1, <3>3 DEF HandInv, InHand
    <3> QED
      BY <1>1, <1>2, <2>3, <3>2, <3>4, OwnGoes DEF InHand
  <2>4. CASE SetRow(t, r("UNKNOWN")) /\ Leave
    <3>1. /\ row' \in [Trades -> RowType] /\ row'[t].st = "UNKNOWN"
          /\ \A u \in Trades \ {t} : row'[u] = row[u]
      BY <2>2, <2>4, RowSet DEF TradesInv
    <3>2. OnlyOwn(t) /\ TradeFacts(t)'
      BY <1>1, <2>1, <3>1 DEF OnlyOwn, TradeFacts, Dropped, Bind
    <3> QED
      BY <1>1, <1>2, <2>4, <3>2, OwnLeaves
  <2> QED
    BY <1>1, <2>1, <2>3, <2>4 DEF Bind
<1>5. CASE Mark(t, "UNKNOWN") /\ Leave /\ UNCHANGED chain
  <2>1. /\ row' \in [Trades -> RowType] /\ row'[t].st = "UNKNOWN"
        /\ \A u \in Trades \ {t} : row'[u] = row[u]
    BY <1>5, MarkSets DEF TradesInv, States
  <2>2. OnlyOwn(t) /\ TradeFacts(t)'
    BY <1>1, <1>5, <2>1, OwnRow DEF TradeFacts, Dropped, Bind, TradesInv
  <2> QED
    BY <1>1, <1>2, <1>5, <2>2, OwnLeaves
<1> QED
  BY <1>3, <1>4, <1>5 DEF Bind

\* What is sent was prepared for this trade, or fails with its nonce.
LEMMA SendKeeps ==
  ASSUME TradesInv, NEW t \in Trades, Send(t)
  PROVE  TradesInv'
<1>1. /\ w.t = t /\ w.pc \in {"ready", "bound"} /\ chain[t] \in {"none", "prepared", "failed"}
      /\ intent[t] = "pending" /\ row[t].st # "none" /\ TradeFacts(t)
      /\ w.pc = "ready" => row[t].st # "ROLLED_BACK"
  BY DEF Send, Exec, TradesInv, TypeOK, HandInv, TradeInv
<1>2. w.pc \in Executing /\ OnlyHand
  BY <1>1 DEF Send, Executing, OnlyHand
<1>3. w.pc = "bound" => chain[t] \in {"prepared", "failed"}
  BY <1>1 DEF TradesInv, HandInv
<1> DEFINE sent == [chain EXCEPT ![t] = IF @ = "failed" THEN @ ELSE "sent"]
<1>4. /\ sent \in [Trades -> {"none", "prepared", "sent", "landed", "failed"}]
      /\ sent[t] \in {"sent", "failed"} /\ (\A u \in Trades \ {t} : sent[u] = chain[u])
      /\ chain[t] = "failed" => sent[t] = "failed"
      /\ row[t].st \notin {"ROLLED_BACK", "COMMITTED"} \/ sent[t] = "failed"
  <2>1. row[t].st = "ROLLED_BACK" => chain[t] = "failed"
    BY <1>1, <1>3 DEF TradeFacts
  <2> QED
    BY <1>1, <2>1 DEF TradesInv, TypeOK, TradeFacts
<1> HIDE DEF sent
<1>5. CASE chain' = sent /\ Goto("sent") /\ UNCHANGED row
  <2>1. OnlyOwn(t) /\ TradeFacts(t)'
    BY <1>1, <1>4, <1>5 DEF OnlyOwn, TradeFacts, Dropped, Send, TradesInv, TypeOK
  <2>2. w'.pc = "sent" /\ w'.t = t
    BY <1>1, <1>5, GotoMoves DEF TradesInv, InHand
  <2>3. HandInv'
    BY <1>1, <1>4, <1>5, <2>2 DEF HandInv, InHand
  <2> QED
    BY <1>1, <1>2, <1>5, <2>1, <2>3, OwnGoes DEF InHand
<1>6. CASE chain' \in {chain, sent} /\ Mark(t, "UNKNOWN") /\ Leave
  <2>1. /\ row' \in [Trades -> RowType] /\ row'[t].st = "UNKNOWN"
        /\ \A u \in Trades \ {t} : row'[u] = row[u]
    BY <1>6, MarkSets DEF TradesInv, States
  <2>2. OnlyOwn(t) /\ TradeFacts(t)'
    BY <1>1, <1>4, <1>6, <2>1 DEF OnlyOwn, TradeFacts, Dropped, Send, TradesInv, TypeOK
  <2> QED
    BY <1>1, <1>2, <1>6, <2>2, OwnLeaves
<1> QED
  BY <1>5, <1>6 DEF Send, sent
LEMMA SentKeeps ==
  ASSUME TradesInv, NEW t \in Trades, Sent(t)
  PROVE  TradesInv'
<1>1. /\ w.t = t /\ w.pc = "sent" /\ row[t] \in RowType /\ chain[t] \in {"sent", "landed", "failed"}
      /\ intent[t] = "pending" /\ TradeFacts(t)
  BY DEF Sent, Exec, TradesInv, TypeOK, HandInv, TradeInv
<1>2. w.pc \in Executing /\ OnlyHand
  BY <1>1 DEF Sent, Executing, OnlyHand
<1> DEFINE r == [row[t] EXCEPT !.st = "IN_PROGRESS", !.calls = TRUE]
<1>3. r \in RowType /\ r.st = "IN_PROGRESS"
  BY <1>1 DEF RowType, States, NonTerminal
<1> HIDE DEF r
<1>4. CASE SetRow(t, r) /\ Goto("await")
  <2>1. /\ row' \in [Trades -> RowType] /\ row'[t].st = "IN_PROGRESS"
        /\ \A u \in Trades \ {t} : row'[u] = row[u]
    BY <1>3, <1>4, RowSet DEF TradesInv
  <2>2. OnlyOwn(t)
    BY <2>1, OwnRow DEF Sent, TradesInv
  <2>3. TradeFacts(t)'
    BY <1>1, <2>1 DEF TradeFacts, Dropped, Sent
  <2>4. w'.pc = "await" /\ w'.t = t
    BY <1>1, <1>4, GotoMoves DEF TradesInv, InHand
  <2>5. HandInv'
    BY <1>1, <2>1, <2>4 DEF HandInv, InHand, Sent
  <2> QED
    BY <1>1, <1>2, <1>4, <2>2, <2>3, <2>5, OwnGoes DEF InHand
<1>5. CASE (Leave \/ Throw) /\ UNCHANGED row
  <2>1. OnlyOwn(t) /\ TradeFacts(t)'
    BY <1>1, <1>5, OwnNothing DEF TradeFacts, Dropped, Sent, TradesInv
  <2> QED
    BY <1>1, <1>2, <1>5, <2>1, OwnLeaves
<1> QED
  BY <1>4, <1>5 DEF Sent, r

\* An answer of the relay is what became of the intent.
LEMMA StatusTrue ==
  ASSUME TypeOK, NEW t \in Trades, NEW answer \in Status(t) \ {"PENDING"}
  PROVE  /\ Verdict(answer) \in {"COMMITTED", "ROLLED_BACK"}
         /\ Verdict(answer) = "COMMITTED" => chain[t] = "landed"
         /\ Verdict(answer) = "ROLLED_BACK" => chain[t] = "failed"
BY DEF Status, Verdict

LEMMA AwaitKeeps ==
  ASSUME TradesInv, NEW t \in Trades, Await(t)
  PROVE  TradesInv'
<1>1. /\ w.t = t /\ w.pc = "await" /\ row[t] \in RowType /\ intent[t] = "pending" /\ TradeFacts(t)
  BY DEF Await, Exec, TradesInv, TypeOK, HandInv, TradeInv
<1>2. w.pc \in Executing /\ OnlyHand
  BY <1>1 DEF Await, Executing, OnlyHand
<1>3. CASE (Leave \/ Throw) /\ UNCHANGED row
  <2>1. OnlyOwn(t) /\ TradeFacts(t)'
    BY <1>1, <1>3, OwnNothing DEF TradeFacts, Dropped, Await, TradesInv
  <2> QED
    BY <1>1, <1>2, <1>3, <2>1, OwnLeaves
<1>4. ASSUME NEW answer \in Status(t) \ {"PENDING"}, NEW hash \in BOOLEAN,
             SetRow(t, [row[t] EXCEPT !.st = Verdict(answer), !.tx = @ \/ (hash /\ Verdict(answer) = "COMMITTED")]),
             Take(Result(answer, hash))
      PROVE  TradesInv'
  <2> DEFINE st == Verdict(answer)
             r == [row[t] EXCEPT !.st = st, !.tx = @ \/ (hash /\ st = "COMMITTED")]
  <2>1. /\ st \in {"COMMITTED", "ROLLED_BACK"}
        /\ st = "COMMITTED" => chain[t] = "landed"
        /\ st = "ROLLED_BACK" => chain[t] = "failed"
    BY StatusTrue DEF TradesInv
  <2>2. r \in RowType /\ r.st = st
    BY <1>1, <2>1 DEF RowType, States
  <2>3. /\ row' \in [Trades -> RowType] /\ row'[t].st = st
        /\ \A u \in Trades \ {t} : row'[u] = row[u]
    <3> HIDE DEF r, st
    <3>1. SetRow(t, r)
      BY <1>4 DEF r, st
    <3> QED
      BY <2>2, <3>1, RowSet DEF TradesInv
  <2>4. OnlyOwn(t) /\ TradeFacts(t)'
    BY <1>1, <2>1, <2>3, OwnRow DEF TradeFacts, Dropped, Await, TradesInv
  <2>5. \/ Leave
        \/ Goto("project") /\ st = "COMMITTED"
        \/ Goto("refused") /\ st = "ROLLED_BACK"
    BY <1>4 DEF Take, Result, Verdict
  <2> HIDE DEF st, r
  <2>6. ASSUME NEW pc \in {"project", "refused"}, Goto(pc),
               pc = "project" => st = "COMMITTED", pc = "refused" => st = "ROLLED_BACK"
        PROVE  TradesInv'
    <3>1. w'.pc = pc /\ w'.t = t
      BY <1>1, <2>6, GotoMoves DEF TradesInv, InHand
    <3>2. HandInv'
      BY <2>3, <2>6, <3>1 DEF HandInv, InHand
    <3> QED
      BY <1>1, <1>2, <2>4, <2>6, <3>2, OwnGoes DEF InHand
  <2>7. CASE Leave
    BY <1>1, <1>2, <2>4, <2>7, OwnLeaves
  <2> QED
    BY <2>5, <2>6, <2>7
<1>5. \/ (Leave \/ Throw) /\ UNCHANGED row
      \/ \E answer \in Status(t) \ {"PENDING"}, hash \in BOOLEAN :
           /\ SetRow(t, [row[t] EXCEPT !.st = Verdict(answer), !.tx = @ \/ (hash /\ Verdict(answer) = "COMMITTED")])
           /\ Take(Result(answer, hash))
  BY DEF Await, Hashes
<1> QED
  BY <1>3, <1>4, <1>5
-----------------------------------------------------------------------------
(* Steps that write neither a row nor an intent nor a position.            *)

LEMMA BooksKeep ==
  ASSUME TradesInv, UNCHANGED <<chain, row, books>>
  PROVE  TradeInv' /\ BuyInv' /\ SellInv' /\ RivalInv'
<1>1. TradeInv' /\ BuyInv'
  BY DEF TradesInv, TradeInv, TradeFacts, Dropped, BuyInv
<1>2. SellInv' /\ RivalInv'
  BY DEF TradesInv, SellInv, RivalInv, Dropped
<1> QED
  BY <1>1, <1>2

\* What a pass knows of the chain stays true.
Steady == \A t \in Trades : chain[t] \in {"landed", "failed"} => chain'[t] = chain[t]
LEMMA PassKeeps ==
  ASSUME TradesInv, Steady, UNCHANGED pass
  PROVE  PassInv'
BY DEF TradesInv, TypeOK, PassInv, PassType, Steady

\* The worker is where it was, with what it knew.
LEMMA WorkerKeeps ==
  ASSUME TradesInv, UNCHANGED <<w, row, books>>, live' => live,
         w.pc \in InHand => chain'[w.t] = chain[w.t]
  PROVE  HandInv' /\ ListInv' /\ InertInv'
<1>1. HandInv'
  BY DEF TradesInv, HandInv, InHand, PositionBooked
<1>2. ListInv' /\ InertInv'
  BY DEF TradesInv, ListInv, Unsettled, InertInv
<1> QED
  BY <1>1, <1>2

\* The key, the owner and his wallet.
LEMMA AsideKeeps ==
  ASSUME TradesInv, KeyDies \/ OwnerLooks \/ OwnerRevokes \/ \E b \in Buys : Move(b)
  PROVE  TradesInv'
<1>1. UNCHANGED <<chain, row, books, pass, w>> /\ (live' => live)
  BY DEF KeyDies, OwnerLooks, OwnerRevokes, Move
<1>2. staged' \in BOOLEAN /\ dies' \in BOOLEAN /\ armed' \in BOOLEAN /\ owner' \in {"idle", "looked"}
      /\ live' \in BOOLEAN /\ wallet' \subseteq Buys
  BY DEF KeyDies, OwnerLooks, OwnerRevokes, Move, TradesInv, TypeOK
<1>3. TypeOK'
  BY <1>1, <1>2 DEF TradesInv, TypeOK
<1> QED
  BY <1>1, <1>3, BooksKeep, PassKeeps, WorkerKeeps DEF TradesInv, Steady

\* The worker moves while it has no trade in hand, or puts it back.
LEMMA WorkerMoves ==
  ASSUME TradesInv, UNCHANGED <<agent, account, row, books>>, PassInv', pass' \in [Procs -> PassType],
         w' \in WorkerType, w'.pc \notin InHand, w'.t = None, w'.next = "idle",
         w'.todo \subseteq w.todo \cup Unsettled,
         w'.pc = "trade" => live \/ w.pc = "trade" \/ w.next = "trade"
  PROVE  TradesInv'
<1>1. TypeOK'
  BY DEF TradesInv, TypeOK
<1>2. HandInv'
  BY DEF HandInv, InHand
<1>3. None \notin Unsettled
  BY DEF Unsettled
<1>4. ListInv'
  BY <1>3 DEF TradesInv, ListInv, Unsettled
<1>5. InertInv'
  BY DEF TradesInv, InertInv, InHand, WorkerType
<1> QED
  BY <1>1, <1>2, <1>4, <1>5, BooksKeep DEF TradesInv

LEMMA CycleStartKeeps ==
  ASSUME TradesInv, CycleStart
  PROVE  TradesInv'
<1>1. PICK old \in SUBSET Listed : CycleOver(old)
  BY DEF CycleStart
<1>2. Begun(old) \in PassType /\ Begun(old).cur = None
  BY DEF Begun, NoPass, PassType, Listed, TradesInv, TypeOK, RowType
<1>3. pass' \in [Procs -> PassType] /\ PassInv'
  BY <1>1, <1>2 DEF CycleOver, TradesInv, TypeOK, PassInv
<1> QED
  BY <1>1, <1>3, ThenMoves, WorkerMoves DEF CycleOver, InHand

LEMMA CrashKeeps ==
  ASSUME TradesInv, Crash
  PROVE  TradesInv'
<1>1. NoPass \in PassType /\ NoPass.cur = None
  BY DEF NoPass, PassType
<1>2. pass' \in [Procs -> PassType] /\ PassInv'
  BY <1>1 DEF Crash, TradesInv, TypeOK, PassInv
<1>3. w' \in WorkerType /\ w'.pc = "idle" /\ w'.t = None /\ w'.todo = {} /\ w'.next = "idle"
  BY DEF Crash, IdleW, WorkerType
<1> QED
  BY <1>2, <1>3, WorkerMoves DEF Crash, InHand

LEMMA PassEndKeeps ==
  ASSUME TradesInv, PassEnd \/ ResolveEnd
  PROVE  TradesInv'
<1>1. w.pc \in {"pass", "resolve"} /\ w.t = None /\ w.next = "idle"
  BY DEF PassEnd, ResolveEnd, TradesInv, TypeOK, HandInv, InHand
<1>2. /\ w' \in WorkerType /\ w'.pc \in {"resolve", "settle"} /\ w'.t = None /\ w'.next = "idle"
      /\ w'.todo \subseteq w.todo \cup Unsettled
  <2>1. w \in WorkerType /\ Unsettled \subseteq Trades
    BY DEF TradesInv, TypeOK, Unsettled
  <2>2. CASE PassEnd
    BY <1>1, <2>1, <2>2 DEF PassEnd, WorkerType
  <2>3. CASE ResolveEnd
    BY <1>1, <2>1, <2>3 DEF ResolveEnd, WorkerType
  <2> QED
    BY <2>2, <2>3
<1>3. PassInv' /\ pass' \in [Procs -> PassType]
  BY PassKeeps DEF PassEnd, ResolveEnd, Steady, TradesInv, TypeOK
<1> QED
  BY <1>2, <1>3, WorkerMoves DEF PassEnd, ResolveEnd, InHand

\* A trade whose receipt cannot be read is put back.
LEMMA UnprojectedKeeps ==
  ASSUME TradesInv, Unprojected
  PROVE  TradesInv'
<1>1. /\ w' \in WorkerType /\ w'.pc = w.next /\ w'.t = None /\ w'.next = "idle" /\ w'.todo = w.todo
      /\ w.next \in {"idle", "settle", "trade"}
  BY BackMoves DEF Unprojected, TradesInv, TypeOK, WorkerType
<1>2. PassInv' /\ pass' \in [Procs -> PassType]
  BY PassKeeps DEF Unprojected, Steady, TradesInv, TypeOK
<1> QED
  BY <1>1, <1>2, WorkerMoves DEF Unprojected, InHand
-----------------------------------------------------------------------------
(* The reconcile pass.                                                     *)

LEMMA PassStartKeeps ==
  ASSUME TradesInv, NEW p \in Others, PassStart(p)
  PROVE  TradesInv'
<1>1. PICK old \in SUBSET Listed : pass' = [pass EXCEPT ![p] = Begun(old)]
  BY DEF PassStart
<1>2. Begun(old) \in PassType /\ Begun(old).cur = None
  BY DEF Begun, NoPass, PassType, Listed, TradesInv, TypeOK, RowType
<1>3. pass' \in [Procs -> PassType] /\ PassInv'
  BY <1>1, <1>2 DEF PassStart, TradesInv, TypeOK, PassInv
<1>4. TypeOK'
  BY <1>3 DEF PassStart, TradesInv, TypeOK
<1> QED
  BY <1>3, <1>4, BooksKeep, WorkerKeeps DEF PassStart, TradesInv

\* The verdict is the chain's.
LEMMA PassAskKeeps ==
  ASSUME TradesInv, NEW p \in Procs, PassAsk(p)
  PROVE  TradesInv'
<1>1. PICK x \in pass[p].todo, out \in {"COMMITTED", "ROLLED_BACK", "UNKNOWN"} :
        /\ out = "COMMITTED" => "CONFIRMED" \in Status(x.t)
        /\ out = "ROLLED_BACK" => "FAILED" \in Status(x.t)
        /\ pass' = [pass EXCEPT ![p] = [todo |-> pass[p].todo \ {x}, cur |-> x.t, out |-> out]]
  BY DEF PassAsk
<1>2. pass[p] \in PassType /\ x.t \in Trades
  BY DEF TradesInv, TypeOK, PassType
<1>3. [todo |-> pass[p].todo \ {x}, cur |-> x.t, out |-> out] \in PassType
  BY <1>2 DEF PassType
<1>4. (out = "COMMITTED" => chain[x.t] = "landed") /\ (out = "ROLLED_BACK" => chain[x.t] = "failed")
  BY <1>1 DEF Status
<1>5. pass' \in [Procs -> PassType] /\ PassInv'
  BY <1>1, <1>3, <1>4 DEF PassAsk, TradesInv, TypeOK, PassInv
<1>6. TypeOK'
  BY <1>5 DEF PassAsk, TradesInv, TypeOK
<1> QED
  BY <1>5, <1>6, BooksKeep, WorkerKeeps DEF PassAsk, TradesInv

\* A row that is written legally, with what the chain says, by whichever process.
LEMMA RowWritten ==
  ASSUME TradesInv, NEW t \in Trades, NEW st \in States \ {"PENDING"}, row[t].st \in NonTerminal \cup {st},
         row' \in [Trades -> RowType], row'[t].st = st, \A u \in Trades \ {t} : row'[u] = row[u],
         st # "IN_PROGRESS", st = "COMMITTED" => chain[t] = "landed", st = "ROLLED_BACK" => chain[t] = "failed",
         UNCHANGED <<chain, books>>
  PROVE  TradeInv' /\ BuyInv' /\ SellInv' /\ RivalInv' /\ (UNCHANGED <<w, live>> => HandInv' /\ ListInv' /\ InertInv')
<1>1. TradeInv'
  BY DEF TradesInv, TradeInv, TradeFacts, Dropped, NonTerminal, States
<1>2. BuyInv'
  BY DEF TradesInv, BuyInv
<1>3. SellInv' /\ RivalInv'
  BY DEF TradesInv, SellInv, RivalInv, Dropped
<1>4. ASSUME UNCHANGED <<w, live>>
      PROVE  HandInv' /\ ListInv' /\ InertInv'
  <2>1. HandInv'
    BY <1>4 DEF TradesInv, TypeOK, WorkerType, HandInv, InHand, PositionBooked, NonTerminal, States
  <2>2. ListInv' /\ InertInv'
    BY <1>4 DEF TradesInv, ListInv, Unsettled, InertInv
  <2> QED
    BY <2>1, <2>2
<1> QED
  BY <1>1, <1>2, <1>3, <1>4
\* A pass that throws is over, and the cycle with it if it was the worker's.
LEMMA PassThrowsKeeps ==
  ASSUME TradesInv, NEW p \in Procs, pass' = [pass EXCEPT ![p] = NoPass],
         w' = IF p = Worker THEN IdleW ELSE w, UNCHANGED <<agent, account, row, books>>
  PROVE  TradesInv'
<1>1. NoPass \in PassType /\ NoPass.cur = None
  BY DEF NoPass, PassType
<1>2. pass' \in [Procs -> PassType] /\ PassInv'
  BY <1>1 DEF TradesInv, TypeOK, PassInv
<1>3. CASE p = Worker
  <2>1. w' \in WorkerType /\ w'.pc = "idle" /\ w'.t = None /\ w'.todo = {} /\ w'.next = "idle"
    BY <1>3 DEF IdleW, WorkerType
  <2> QED
    BY <1>2, <2>1, WorkerMoves DEF InHand
<1>4. CASE p # Worker
  <2>1. TypeOK'
    BY <1>2, <1>4 DEF TradesInv, TypeOK
  <2> QED
    BY <1>2, <1>4, <2>1, BooksKeep, WorkerKeeps DEF TradesInv
<1> QED
  BY <1>3, <1>4

LEMMA PassWriteKeeps ==
  ASSUME TradesInv, NEW p \in Procs, PassWrite(p)
  PROVE  TradesInv'
<1> DEFINE t == pass[p].cur
           out == IF Legal(row[t].st, pass[p].out) THEN pass[p].out ELSE "UNKNOWN"
<1>1. /\ t \in Trades /\ out \in {"COMMITTED", "ROLLED_BACK", "UNKNOWN"} /\ pass[p] \in PassType
      /\ out = "COMMITTED" => chain[t] = "landed"
      /\ out = "ROLLED_BACK" => chain[t] = "failed"
  BY DEF PassWrite, TradesInv, TypeOK, PassType, PassInv
<1>2. CASE Legal(row[t].st, out)
  <2>1. /\ row' \in [Trades -> RowType] /\ row'[t].st = out
        /\ \A u \in Trades \ {t} : row'[u] = row[u]
    BY <1>1, <1>2, MarkSets, CommitSets DEF PassWrite, TradesInv, States
  <2>2. row[t].st \in NonTerminal \cup {out} /\ out \in States \ {"PENDING"} /\ out # "IN_PROGRESS"
    BY <1>1, <1>2 DEF Legal, States, NonTerminal
  <2>3. pass' = [pass EXCEPT ![p].cur = None, ![p].out = None] /\ UNCHANGED <<agent, account, books, w>>
    BY <1>2 DEF PassWrite, PassGoesOn
  <2>4. pass' \in [Procs -> PassType] /\ PassInv'
    BY <1>1, <2>3 DEF TradesInv, TypeOK, PassType, PassInv
  <2>5. TypeOK'
    BY <2>1, <2>3, <2>4 DEF TradesInv, TypeOK
  <2> QED
    BY <1>1, <2>1, <2>2, <2>3, <2>4, <2>5, RowWritten DEF TradesInv
<1>3. CASE ~Legal(row[t].st, out)
  BY <1>3, PassThrowsKeeps DEF PassWrite
<1> QED
  BY <1>2, <1>3

-----------------------------------------------------------------------------
(* The worker resolves what is UNKNOWN.                                    *)

LEMMA ResolveKeeps ==
  ASSUME TradesInv, NEW t \in Trades, Resolve(t)
  PROVE  TradesInv'
<1>1. w.t = None /\ row[t] \in RowType /\ row[t].st = "UNKNOWN" /\ UNCHANGED <<agent, account, books, pass, w>>
  BY DEF Resolve, Advance, Refute, Assessable, TradesInv, TypeOK, InHand
<1>2. PICK st \in {"COMMITTED", "ROLLED_BACK"}, tx \in BOOLEAN :
        /\ SetRow(t, [row[t] EXCEPT !.st = st, !.tx = tx])
        /\ st = "COMMITTED" => chain[t] = "landed"
        /\ st = "ROLLED_BACK" => chain[t] = "failed"
  BY <1>1 DEF Resolve, Advance, Refute, RowType
<1>3. [row[t] EXCEPT !.st = st, !.tx = tx] \in RowType /\ [row[t] EXCEPT !.st = st, !.tx = tx].st = st
  BY <1>1 DEF RowType, States
<1>4. /\ row' \in [Trades -> RowType] /\ row'[t].st = st /\ \A u \in Trades \ {t} : row'[u] = row[u]
  BY <1>2, <1>3, RowSet DEF TradesInv
<1>5. TypeOK'
  BY <1>1, <1>4 DEF TradesInv, TypeOK
<1>6. PassInv'
  BY <1>1, PassKeeps DEF Steady
<1>7. TradeInv'
  BY <1>1, <1>2, <1>4 DEF TradesInv, TradeInv, TradeFacts, Dropped
<1>8. BuyInv' /\ SellInv' /\ RivalInv'
  BY <1>1 DEF TradesInv, BuyInv, SellInv, RivalInv, Dropped
<1>9. HandInv' /\ ListInv' /\ InertInv'
  BY <1>1 DEF TradesInv, TypeOK, HandInv, ListInv, Unsettled, InertInv, InHand
<1> QED
  BY <1>5, <1>6, <1>7, <1>8, <1>9 DEF TradesInv
-----------------------------------------------------------------------------
(* Intents are settled.                                                    *)

\* An intent is settled as the chain and the positions say, and the worker has put it away.
LEMMA SettledKeeps ==
  ASSUME TradesInv, NEW t \in Trades, NEW st \in {"projected", "rolled-back"},
         intent[t] = "pending", Settle(t, st),
         st = "projected" => chain[t] = "landed" /\ PositionBooked(t),
         st = "rolled-back" => chain[t] \in {"none", "failed"},
         UNCHANGED <<agent, account, row, target, inert, position, pass>>,
         w' \in WorkerType, w'.pc \notin InHand, w'.t = None, w'.next = "idle",
         w'.todo \subseteq w.todo \ {t},
         w'.pc = "trade" => w.pc = "trade" \/ w.next = "trade"
  PROVE  TradesInv'
<1>1. /\ intent' \in [Trades -> {"none", "pending", "projected", "rolled-back"}] /\ intent'[t] = st
      /\ \A u \in Trades \ {t} : intent'[u] = intent[u]
  BY DEF Settle, TradesInv, TypeOK
<1>2. TypeOK'
  BY <1>1 DEF TradesInv, TypeOK
<1>3. TradeInv'
  BY <1>1 DEF TradesInv, TradeInv, TradeFacts, Dropped
<1>4. PassInv'
  BY PassKeeps DEF Steady
<1>5. HandInv'
  BY DEF HandInv, InHand
<1>6. ListInv'
  BY <1>1 DEF TradesInv, ListInv, Unsettled
<1>7. InertInv'
  BY DEF TradesInv, InertInv, InHand, WorkerType
<1>8. BuyInv'
  BY <1>1 DEF TradesInv, BuyInv, PositionBooked
<1>9. SellInv' /\ RivalInv'
  BY <1>1 DEF TradesInv, SellInv, RivalInv, Dropped, PositionBooked
<1> QED
  BY <1>2, <1>3, <1>4, <1>5, <1>6, <1>7, <1>8, <1>9 DEF TradesInv

\* The worker puts the trade in hand back as it settles it.
LEMMA BackPutsAway ==
  ASSUME TradesInv, w.pc \in InHand, Back
  PROVE  /\ w' \in WorkerType /\ w'.pc \notin InHand /\ w'.t = None /\ w'.next = "idle"
         /\ w'.todo \subseteq w.todo \ {w.t} /\ (w'.pc = "trade" => w.next = "trade")
<1>1. w.next \in {"idle", "settle", "trade"}
  BY DEF TradesInv, TypeOK, WorkerType
<1> QED
  BY <1>1, BackMoves DEF TradesInv, ListInv, InHand

LEMMA DenyKeeps ==
  ASSUME TradesInv, NEW t \in Trades, Deny(t) \/ Refused(t)
  PROVE  TradesInv'
<1>1. w.t = t /\ w.pc \in {"exec", "refused"} /\ intent[t] = "pending" /\ chain[t] \in {"none", "failed"}
  BY DEF Deny, Refused, Exec, TradesInv, TypeOK, HandInv, TradeInv, TradeFacts
<1>2. w.pc \in InHand
  BY <1>1 DEF InHand
<1> QED
  BY <1>1, <1>2, BackPutsAway, SettledKeeps DEF Deny, Refused

LEMMA ProjectKeeps ==
  ASSUME TradesInv, NEW t \in Trades, Project(t)
  PROVE  TradesInv'
<1>1. w.t = t /\ w.pc \in {"project", "book"} /\ intent[t] = "pending" /\ chain[t] = "landed"
  BY DEF Project, TradesInv, TypeOK, HandInv, TradeInv, TradeFacts
<1>2. PositionBooked(t)
  BY <1>1 DEF Project, Booked, PositionBooked, TradesInv, HandInv
<1>3. w.pc \in InHand
  BY <1>1 DEF InHand
<1> QED
  BY <1>1, <1>2, <1>3, BackPutsAway, SettledKeeps DEF Project

\* The settling loop goes on to the next of its list.
LEMMA NextOfList ==
  ASSUME TradesInv, NEW t \in Trades, At("settle", t), Next1(t)
  PROVE  /\ intent[t] = "pending" /\ w.t = None /\ w.next = "idle"
         /\ w' \in WorkerType /\ w'.pc = "settle" /\ w'.t = None /\ w'.next = "idle" /\ w'.todo = w.todo \ {t}
<1>1. w \in WorkerType /\ w.pc = "settle" /\ w.t = None /\ w.next = "idle" /\ intent[t] = "pending"
  BY DEF At, TradesInv, TypeOK, HandInv, ListInv, Unsettled, InHand
<1> QED
  BY <1>1 DEF Next1, WorkerType

LEMMA SettleDeadKeeps ==
  ASSUME TradesInv, NEW t \in Trades, SettleDead(t)
  PROVE  TradesInv'
<1>1. chain[t] \in {"none", "failed"}
  BY DEF SettleDead, Dead, TradesInv, TradeInv, TradeFacts
<1> QED
  BY <1>1, NextOfList, SettledKeeps DEF SettleDead, InHand

LEMMA SettleSkipKeeps ==
  ASSUME TradesInv, NEW t \in Trades, SettleSkip(t)
  PROVE  TradesInv'
<1>1. PassInv' /\ pass' \in [Procs -> PassType]
  BY PassKeeps DEF SettleSkip, Steady, TradesInv, TypeOK
<1> QED
  BY <1>1, NextOfList, WorkerMoves DEF SettleSkip, InHand

\* With its key dead, an unknown sell is over whatever it was.
LEMMA SettleInertKeeps ==
  ASSUME TradesInv, NEW s \in Sells, SettleInert(s)
  PROVE  TradesInv'
<1>1. /\ intent[s] = "pending" /\ w' \in WorkerType /\ w'.pc = "settle" /\ w'.t = None /\ w'.next = "idle"
      /\ w'.todo = w.todo \ {s}
  BY NextOfList DEF SettleInert
<1>2. /\ intent' \in [Trades -> {"none", "pending", "projected", "rolled-back"}]
      /\ intent'[s] = "rolled-back" /\ (\A u \in Trades \ {s} : intent'[u] = intent[u])
      /\ inert' = inert \cup {s} /\ ~live'
  BY DEF SettleInert, Settle, TradesInv, TypeOK
<1>3. TypeOK'
  BY <1>1, <1>2 DEF SettleInert, TradesInv, TypeOK, InHand
<1>4. TradeInv'
  BY <1>2 DEF SettleInert, TradesInv, TradeInv, TradeFacts, Dropped
<1>5. PassInv'
  BY PassKeeps DEF SettleInert, Steady
<1>6. HandInv'
  BY <1>1 DEF HandInv, InHand
<1>7. ListInv'
  BY <1>1, <1>2 DEF TradesInv, ListInv, Unsettled
<1>8. InertInv'
  BY <1>1, <1>2 DEF InertInv
<1>9. BuyInv'
  BY <1>2 DEF SettleInert, TradesInv, BuyInv
<1>10. SellInv' /\ RivalInv'
  BY <1>1, <1>2 DEF SettleInert, TradesInv, SellInv, RivalInv, Dropped
<1> QED
  BY <1>3, <1>4, <1>5, <1>6, <1>7, <1>8, <1>9, <1>10 DEF TradesInv
\* A landed trade is taken in hand, off the list.
LEMMA SettleLandedKeeps ==
  ASSUME TradesInv, NEW t \in Trades, SettleLanded(t)
  PROVE  TradesInv'
<1>1. w \in WorkerType /\ w.pc = "settle" /\ w.t = None /\ intent[t] = "pending" /\ row[t].st = "COMMITTED"
  BY DEF SettleLanded, At, TradesInv, TypeOK, ListInv, Unsettled, InHand
<1>2. /\ w' \in WorkerType /\ w'.pc = "project" /\ w'.t = t /\ w'.next = "settle" /\ w'.todo = w.todo \ {t}
      /\ UNCHANGED <<agent, account, row, books, pass>>
  BY <1>1 DEF SettleLanded, WorkerType, InHand
<1>3. TypeOK'
  BY <1>1, <1>2 DEF TradesInv, TypeOK, InHand
<1>4. PassInv'
  BY <1>2, PassKeeps DEF Steady
<1>5. HandInv'
  BY <1>1, <1>2 DEF HandInv, InHand
<1>6. ListInv' /\ InertInv'
  BY <1>1, <1>2 DEF TradesInv, ListInv, Unsettled, InertInv
<1> QED
  BY <1>2, <1>3, <1>4, <1>5, <1>6, BooksKeep DEF TradesInv

-----------------------------------------------------------------------------
(* Positions.                                                              *)

\* Positions only move on, and a position that is open stays so or is over.
Onward(b) == position'[b] = position[b] \/ (position[b] \notin {"none"} /\ position'[b] \notin {"none", "open"})

LEMMA PositionsKeep ==
  ASSUME TradesInv, UNCHANGED <<chain, row, intent, target, inert>>,
         \A b \in Buys : Onward(b) \/ (position'[b] = "open" /\ position[b] = "none" /\ chain[b] = "landed"),
         \A b \in Buys : position'[b] = "sold" /\ position[b] # "sold"
                           => \E s \in Sells : target[s] = b /\ chain[s] = "landed"
  PROVE  TradeInv' /\ BuyInv' /\ SellInv' /\ RivalInv'
<1>1. TradeInv' /\ RivalInv'
  BY DEF TradesInv, TradeInv, TradeFacts, RivalInv, Dropped
<1>2. BuyInv'
  BY DEF TradesInv, BuyInv, Onward
<1>3. SellInv'
  BY DEF TradesInv, SellInv, Onward
<1> QED
  BY <1>1, <1>2, <1>3

\* projectIntent writes the position and goes on to the intent.
LEMMA OpenPositionKeeps ==
  ASSUME TradesInv, NEW b \in Buys, OpenPosition(b)
  PROVE  TradesInv'
<1>1. w.t = b /\ w.pc = "project" /\ row[b].st = "COMMITTED" /\ chain[b] = "landed"
  BY DEF OpenPosition, TradesInv, HandInv, TradeInv, TradeFacts
<1>2. position' \in [Buys -> {"none", "open", "orphaned", "sold", "gone"}]
      /\ position'[b] = "open" /\ \A c \in Buys \ {b} : position'[c] = position[c]
  BY DEF OpenPosition, TradesInv, TypeOK
<1>3. w' \in WorkerType /\ w'.pc = "book" /\ w'.t = b /\ w'.todo = w.todo /\ w'.next = w.next
  BY <1>1, GotoMoves DEF OpenPosition, TradesInv, InHand
<1>4. TypeOK'
  BY <1>1, <1>2, <1>3 DEF OpenPosition, TradesInv, TypeOK, InHand
<1>5. TradeInv' /\ BuyInv' /\ SellInv' /\ RivalInv'
  BY <1>1, <1>2, PositionsKeep DEF OpenPosition, Onward
<1>6. HandInv'
  BY <1>1, <1>2, <1>3 DEF OpenPosition, HandInv, InHand, PositionBooked
<1>7. ListInv' /\ InertInv' /\ PassInv'
  BY <1>1, <1>3, PassKeeps DEF OpenPosition, TradesInv, ListInv, Unsettled, InertInv, Steady
<1> QED
  BY <1>4, <1>5, <1>6, <1>7 DEF TradesInv

LEMMA ClosePositionKeeps ==
  ASSUME TradesInv, NEW s \in Sells, ClosePosition(s)
  PROVE  TradesInv'
<1>1. /\ w.t = s /\ w.pc = "project" /\ row[s].st = "COMMITTED" /\ chain[s] = "landed"
      /\ intent[s] = "pending" /\ target[s] \in Buys /\ position[target[s]] = "open"
  BY DEF ClosePosition, TradesInv, TypeOK, HandInv, TradeInv, TradeFacts, SellInv
<1>2. position' \in [Buys -> {"none", "open", "orphaned", "sold", "gone"}]
      /\ position'[target[s]] = "sold" /\ \A c \in Buys \ {target[s]} : position'[c] = position[c]
  BY <1>1 DEF ClosePosition, TradesInv, TypeOK
<1>3. w' \in WorkerType /\ w'.pc = "book" /\ w'.t = s /\ w'.todo = w.todo /\ w'.next = w.next
  BY <1>1, GotoMoves DEF ClosePosition, TradesInv, InHand
<1>4. TypeOK'
  BY <1>1, <1>2, <1>3 DEF ClosePosition, TradesInv, TypeOK, InHand
<1>5. TradeInv' /\ BuyInv' /\ SellInv' /\ RivalInv'
  BY <1>1, <1>2, PositionsKeep DEF ClosePosition, Onward
<1>6. HandInv'
  BY <1>1, <1>2, <1>3 DEF ClosePosition, HandInv, InHand, PositionBooked
<1>7. ListInv' /\ InertInv' /\ PassInv'
  BY <1>1, <1>3, PassKeeps DEF ClosePosition, TradesInv, ListInv, Unsettled, InertInv, Steady
<1> QED
  BY <1>4, <1>5, <1>6, <1>7 DEF TradesInv

LEMMA AdoptKeeps ==
  ASSUME TradesInv, NEW s \in Sells, Adopt(s)
  PROVE  TradesInv'
<1>1. w.pc = "settle" /\ chain[s] = "landed" /\ target[s] \in Buys /\ position[target[s]] = "gone"
  BY DEF Adopt, Settled, Adoptable, TradesInv, TradeInv, TradeFacts, SellInv
<1>2. position' \in [Buys -> {"none", "open", "orphaned", "sold", "gone"}]
      /\ position'[target[s]] = "sold" /\ \A c \in Buys \ {target[s]} : position'[c] = position[c]
  BY <1>1 DEF Adopt, TradesInv, TypeOK
<1>3. TypeOK'
  BY <1>2 DEF Adopt, TradesInv, TypeOK
<1>4. TradeInv' /\ BuyInv' /\ SellInv' /\ RivalInv'
  BY <1>1, <1>2, PositionsKeep DEF Adopt, Onward
<1>5. HandInv' /\ ListInv' /\ InertInv' /\ PassInv'
  BY <1>1, PassKeeps DEF Adopt, TradesInv, HandInv, InHand, ListInv, Unsettled, InertInv, Steady
<1> QED
  BY <1>3, <1>4, <1>5 DEF TradesInv

LEMMA BalanceGoneKeeps ==
  ASSUME TradesInv, NEW b \in Buys, BalanceGone(b)
  PROVE  TradesInv'
<1>1. w.pc = "trade" /\ position[b] = "open"
  BY DEF BalanceGone
<1>2. position' \in [Buys -> {"none", "open", "orphaned", "sold", "gone"}]
      /\ position'[b] = "gone" /\ \A c \in Buys \ {b} : position'[c] = position[c]
  BY DEF BalanceGone, TradesInv, TypeOK
<1>3. TypeOK'
  BY <1>2 DEF BalanceGone, TradesInv, TypeOK
<1>4. TradeInv' /\ BuyInv' /\ SellInv' /\ RivalInv'
  BY <1>1, <1>2, PositionsKeep DEF BalanceGone, Onward
<1>5. HandInv' /\ ListInv' /\ InertInv' /\ PassInv'
  BY <1>1, PassKeeps DEF BalanceGone, TradesInv, HandInv, InHand, ListInv, Unsettled, InertInv, Steady
<1> QED
  BY <1>3, <1>4, <1>5 DEF TradesInv

LEMMA OrphanKeeps ==
  ASSUME TradesInv, Orphan
  PROVE  TradesInv'
<1>1. w.pc = "settle" /\ UNCHANGED <<agent, account, row, intent, target, inert, pass>>
  BY DEF Orphan, Settled
<1>2. position' \in [Buys -> {"none", "open", "orphaned", "sold", "gone"}]
      /\ \A b \in Buys : position'[b] = position[b] \/ (position[b] = "open" /\ position'[b] = "orphaned")
  BY DEF Orphan, Orphaned, TradesInv, TypeOK
<1>3. /\ w' \in WorkerType /\ w'.pc \in {"idle", "trade"} /\ w'.t = None /\ w'.todo = {} /\ w'.next = "idle"
      /\ w'.pc = "trade" => live
  BY ThenMoves DEF Orphan
<1>4. TypeOK'
  BY <1>1, <1>2, <1>3 DEF TradesInv, TypeOK, InHand
<1>5. TradeInv' /\ BuyInv' /\ SellInv' /\ RivalInv'
  BY <1>1, <1>2, PositionsKeep DEF Onward
<1>6. HandInv' /\ ListInv' /\ InertInv' /\ PassInv'
  BY <1>1, <1>3, PassKeeps DEF TradesInv, HandInv, InHand, ListInv, InertInv, Steady
<1> QED
  BY <1>4, <1>5, <1>6 DEF TradesInv
-----------------------------------------------------------------------------
(* Trading.                                                                *)

\* A new intent is taken in hand.
LEMMA TradeMoves ==
  ASSUME TradesInv, NEW t \in Trades, w.pc = "trade", Trade(t)
  PROVE  /\ w' \in WorkerType /\ w'.pc = "exec" /\ w'.t = t /\ w'.next = "trade" /\ w'.todo = w.todo
         /\ intent' \in [Trades -> {"none", "pending", "projected", "rolled-back"}]
         /\ intent[t] = "none" /\ intent'[t] = "pending" /\ (\A u \in Trades \ {t} : intent'[u] = intent[u])
         /\ inert = {} /\ w.t = None /\ row[t].st = "none"
<1>1. w \in WorkerType /\ w.t = None /\ inert = {}
  BY DEF TradesInv, TypeOK, InertInv, InHand
<1> QED
  BY <1>1 DEF Trade, Settle, WorkerType, InHand, TradesInv, TypeOK, TradeInv, TradeFacts

LEMMA BuyKeeps ==
  ASSUME TradesInv, NEW b \in Buys, Buy(b)
  PROVE  TradesInv'
<1>1. /\ w' \in WorkerType /\ w'.pc = "exec" /\ w'.t = b /\ w'.next = "trade" /\ w'.todo = w.todo
      /\ intent' \in [Trades -> {"none", "pending", "projected", "rolled-back"}]
      /\ intent[b] = "none" /\ intent'[b] = "pending" /\ (\A u \in Trades \ {b} : intent'[u] = intent[u])
      /\ inert = {} /\ w.t = None /\ row[b].st = "none"
      /\ UNCHANGED <<agent, account, row, target, inert, position, pass>>
  BY TradeMoves DEF Buy, Trade
<1>2. TypeOK'
  BY <1>1 DEF TradesInv, TypeOK, InHand
<1>3. TradeInv' /\ BuyInv'
  BY <1>1 DEF TradesInv, TradeInv, TradeFacts, Dropped, BuyInv
<1>4. SellInv' /\ RivalInv'
  BY <1>1 DEF TradesInv, SellInv, RivalInv, Dropped
<1>5. HandInv'
  BY <1>1 DEF HandInv, InHand
<1>6. ListInv' /\ InertInv' /\ PassInv'
  BY <1>1, PassKeeps DEF TradesInv, ListInv, Unsettled, InertInv, Steady
<1> QED
  BY <1>2, <1>3, <1>4, <1>5, <1>6 DEF TradesInv

\* A sell's position is open and no sell of it is unsettled: the others are dropped.
LEMMA SellKeeps ==
  ASSUME TradesInv, NEW s \in Sells, NEW b \in Buys, Sell(s, b)
  PROVE  TradesInv'
<1>1. /\ w' \in WorkerType /\ w'.pc = "exec" /\ w'.t = s /\ w'.next = "trade" /\ w'.todo = w.todo
      /\ intent' \in [Trades -> {"none", "pending", "projected", "rolled-back"}]
      /\ intent[s] = "none" /\ intent'[s] = "pending" /\ (\A u \in Trades \ {s} : intent'[u] = intent[u])
      /\ inert = {} /\ w.t = None /\ row[s].st = "none"
      /\ UNCHANGED <<agent, account, row, inert, position, pass>>
  BY TradeMoves DEF Sell, Trade
<1>2. /\ target' \in [Sells -> Buys \cup {None}] /\ target'[s] = b
      /\ \A r \in Sells \ {s} : target'[r] = target[r]
  BY DEF Sell, TradesInv, TypeOK
<1>3. position[b] = "open" /\ ~Selling(b)
  BY DEF Sell
<1>4. chain[s] = "none"
  BY <1>1 DEF TradesInv, TradeInv, TradeFacts
<1>5. ASSUME NEW r \in Sells \ {s}, target[r] = b, intent[r] # "none"
      PROVE  Dropped(r)'
  <2>1. intent[r] \notin {"pending", "projected"}
    BY <1>3, <1>5 DEF Selling, TradesInv, SellInv
  <2> QED
    BY <1>1, <1>5, <2>1 DEF Dropped, TradesInv, TypeOK
<1>6. TypeOK'
  BY <1>1, <1>2 DEF TradesInv, TypeOK, InHand
<1>7. TradeInv'
  BY <1>1 DEF TradesInv, TradeInv, TradeFacts, Dropped
<1>8. BuyInv'
  BY <1>1, <1>2, <1>4 DEF TradesInv, BuyInv
<1>9. SellInv'
  BY <1>1, <1>2, <1>3 DEF TradesInv, SellInv
<1>10. RivalInv'
  <2>1. ASSUME NEW r \in Sells \ {s}, target[r] = b
        PROVE  Dropped(r)'
    BY <1>5, <2>1 DEF TradesInv, SellInv
  <2>2. ASSUME NEW q \in Sells, Dropped(q)
        PROVE  Dropped(q)'
    BY <1>1, <2>2 DEF Dropped
  <2> QED
    BY <1>2, <2>1, <2>2 DEF TradesInv, RivalInv
<1>11. HandInv'
  BY <1>1 DEF HandInv, InHand
<1>12. ListInv' /\ InertInv' /\ PassInv'
  BY <1>1, PassKeeps DEF TradesInv, ListInv, Unsettled, InertInv, Steady
<1> QED
  BY <1>6, <1>7, <1>8, <1>9, <1>10, <1>11, <1>12 DEF TradesInv

-----------------------------------------------------------------------------
(* The chain.                                                              *)

\* Land and Foreign: what was prepared with a used nonce is lost, what is decided stays.
LEMMA OvertakenFacts ==
  ASSUME TypeOK, NEW t \in Trades
  PROVE  /\ Overtaken \in [Trades -> {"none", "prepared", "sent", "landed", "failed"}]
         /\ Overtaken[t] = chain[t] \/ (chain[t] \in {"prepared", "sent"} /\ Overtaken[t] = "failed")
BY DEF TypeOK, Overtaken

LEMMA ForeignKeeps ==
  ASSUME TradesInv, Foreign
  PROVE  TradesInv'
<1>1. /\ chain' \in [Trades -> {"none", "prepared", "sent", "landed", "failed"}]
      /\ \A t \in Trades : chain'[t] = chain[t] \/ (chain[t] \in {"prepared", "sent"} /\ chain'[t] = "failed")
  BY OvertakenFacts DEF Foreign, TradesInv, TypeOK, Overtaken
<1>2. TypeOK' /\ Steady
  BY <1>1 DEF Foreign, TradesInv, TypeOK, Steady
<1>3. TradeInv' /\ BuyInv'
  BY <1>1 DEF Foreign, TradesInv, TradeInv, TradeFacts, Dropped, BuyInv
<1>4. SellInv' /\ RivalInv' /\ ListInv' /\ InertInv' /\ PassInv'
  BY <1>2, PassKeeps DEF Foreign, TradesInv, SellInv, RivalInv, Dropped, ListInv, Unsettled, InertInv
<1>5. HandInv'
  BY <1>1 DEF Foreign, TradesInv, TypeOK, WorkerType, HandInv, InHand, PositionBooked
<1> QED
  BY <1>2, <1>3, <1>4, <1>5 DEF TradesInv

LEMMA LandKeeps ==
  ASSUME TradesInv, NEW t \in Trades, Land(t)
  PROVE  TradesInv'
<1>1. /\ chain' \in [Trades -> {"none", "prepared", "sent", "landed", "failed"}]
      /\ chain[t] = "sent" /\ chain'[t] = "landed"
      /\ \A u \in Trades \ {t} : chain'[u] = chain[u] \/ (chain[u] \in {"prepared", "sent"} /\ chain'[u] = "failed")
  BY OvertakenFacts DEF Land, TradesInv, TypeOK
<1>2. wallet' \subseteq Buys
  BY DEF Land, TradesInv, TypeOK
<1>3. TypeOK' /\ Steady
  BY <1>1, <1>2 DEF Land, TradesInv, TypeOK, Steady
<1>4. TradeInv' /\ BuyInv'
  BY <1>1 DEF Land, TradesInv, TradeInv, TradeFacts, Dropped, BuyInv
<1>5. SellInv' /\ RivalInv' /\ ListInv' /\ InertInv' /\ PassInv'
  BY <1>3, PassKeeps DEF Land, TradesInv, SellInv, RivalInv, Dropped, ListInv, Unsettled, InertInv
<1>6. HandInv'
  BY <1>1 DEF Land, TradesInv, TypeOK, WorkerType, HandInv, InHand, PositionBooked
<1> QED
  BY <1>3, <1>4, <1>5, <1>6 DEF TradesInv

-----------------------------------------------------------------------------
(* Every step keeps the invariant.                                         *)

LEMMA StepKeeps ==
  ASSUME TradesInv, Step
  PROVE  TradesInv'
<1>1. CASE CycleStart \/ PassEnd \/ ResolveEnd \/ Orphan \/ Unprojected
  BY <1>1, CycleStartKeeps, PassEndKeeps, OrphanKeeps, UnprojectedKeeps
<1>2. CASE PassAsk(Worker) \/ PassWrite(Worker)
  BY <1>2, PassAskKeeps, PassWriteKeeps
<1>3. ASSUME NEW t \in Trades, SettleDead(t) \/ SettleSkip(t) \/ SettleLanded(t)
      PROVE  TradesInv'
  BY <1>3, SettleDeadKeeps, SettleSkipKeeps, SettleLandedKeeps
<1>4. ASSUME NEW t \in Trades,
             Deny(t) \/ Begin(t) \/ Refuse(t) \/ Refused(t) \/ Check(t)
      PROVE  TradesInv'
  BY <1>4, DenyKeeps, BeginKeeps, RefuseKeeps, CheckKeeps
<1>5. ASSUME NEW t \in Trades, Bind(t) \/ Send(t) \/ Sent(t) \/ Await(t)
      PROVE  TradesInv'
  BY <1>5, BindKeeps, SendKeeps, SentKeeps, AwaitKeeps
<1> QED
  BY <1>1, <1>2, <1>3, <1>4, <1>5 DEF Step

LEMMA TradesStep ==
  ASSUME TradesInv, [Next]_vars
  PROVE  TradesInv'
<1>1. CASE Step \/ Crash \/ Foreign
  BY <1>1, StepKeeps, CrashKeeps, ForeignKeeps
<1>2. CASE KeyDies \/ OwnerLooks \/ OwnerRevokes \/ \E b \in Buys : Move(b)
  BY <1>2, AsideKeeps
<1>3. ASSUME NEW t \in Trades, Resolve(t) \/ Book(t) \/ Land(t)
      PROVE  TradesInv'
  BY <1>3, ResolveKeeps, LandKeeps, ProjectKeeps, OpenPositionKeeps, ClosePositionKeeps DEF Book
<1>4. ASSUME NEW b \in Buys, BalanceGone(b) \/ Buy(b)
      PROVE  TradesInv'
  BY <1>4, BalanceGoneKeeps, BuyKeeps
<1>5. ASSUME NEW s \in Sells, SettleInert(s) \/ Adopt(s) \/ \E b \in Buys : Sell(s, b)
      PROVE  TradesInv'
  BY <1>5, SettleInertKeeps, AdoptKeeps, SellKeeps
<1>6. ASSUME NEW p \in Others, Passes(p)
      PROVE  TradesInv'
  BY <1>6, PassStartKeeps, PassAskKeeps, PassWriteKeeps DEF Passes
<1>7. CASE UNCHANGED vars
  <2>1. UNCHANGED <<agent, account, row, books, pass, w>>
    BY <1>7 DEF vars
  <2>2. TypeOK'
    BY <2>1 DEF TradesInv, TypeOK
  <2> QED
    BY <2>1, <2>2, BooksKeep, PassKeeps, WorkerKeeps DEF TradesInv, Steady
<1> QED
  BY <1>1, <1>2, <1>3, <1>4, <1>5, <1>6, <1>7 DEF Next

LEMMA TradesInit ==
  ASSUME Init
  PROVE  TradesInv
<1>1. NoRow \in RowType /\ NoPass \in PassType /\ IdleW \in WorkerType
  BY DEF NoRow, RowType, NoPass, PassType, IdleW, WorkerType
<1>2. TypeOK
  BY <1>1 DEF Init, TypeOK, IdleW, InHand
<1>3. TradeInv /\ PassInv
  BY DEF Init, TradeInv, TradeFacts, Dropped, PassInv, NoRow, NoPass
<1>4. HandInv /\ ListInv /\ InertInv
  BY DEF Init, HandInv, ListInv, InertInv, IdleW, InHand
<1>5. BuyInv /\ SellInv /\ RivalInv
  BY DEF Init, BuyInv, SellInv, RivalInv
<1> QED
  BY <1>2, <1>3, <1>4, <1>5 DEF TradesInv

-----------------------------------------------------------------------------
(* Theorems.                                                               *)

\* The inductive invariant: what every part of the trade worker, of the journal and of
\* the passes of the other services knows of the chain is true at every step.
THEOREM TradesInvariant == Spec => []TradesInv
<1>1. Init => TradesInv
  BY TradesInit
<1>2. TradesInv /\ [Next]_vars => TradesInv'
  BY TradesStep
<1> QED
  BY <1>1, <1>2, PTL DEF Spec

\* Every variable of the trade worker keeps its type.
THEOREM TradesTypeCorrect == Spec => []TypeOK
<1>1. TradesInv => TypeOK
  BY DEF TradesInv
<1> QED
  BY <1>1, TradesInvariant, PTL

\* The journal never says of a trade what the chain belies (resolveRow, markUnknown,
\* assessTradeUnknown), for any number of intents and of services that reconcile.
THEOREM JournalTruthAlways == Spec => []JournalTruth
<1>1. TradesInv => JournalTruth
  BY DEF TradesInv, TradeInv, TradeFacts, JournalTruth
<1> QED
  BY <1>1, TradesInvariant, PTL

\* An intent is settled as what happened to its trade (reconcileTradeIntents, and the
\* executor of scripts/trade-worker.ts for a receipt that failed: Result).
THEOREM SettledTruthAlways == Spec => []SettledTruth
<1>1. TradesInv => SettledTruth
  BY DEF TradesInv, TradeInv, TradeFacts, Dropped, SettledTruth
<1> QED
  BY <1>1, TradesInvariant, PTL

\* Positions are what was bought and sold, and no landed buy is forgotten (projectIntent).
THEOREM BooksTruthAlways == Spec => []BooksTruth
<1>1. ASSUME TradesInv, NEW b \in Buys
      PROVE  position[b] = "none" /\ chain[b] = "landed" => intent[b] = "pending"
  BY <1>1 DEF TradesInv, TypeOK, TradeInv, TradeFacts, Dropped, BuyInv
<1>2. TradesInv => BooksTruth
  BY <1>1 DEF TradesInv, BuyInv, BooksTruth
<1> QED
  BY <1>2, TradesInvariant, PTL

\* A position is sold once, whatever the owner moves (sellPosition).
THEOREM OneSaleAlways == Spec => []OneSale
<1>1. ASSUME TradesInv, NEW s \in Sells, NEW r \in Sells,
             chain[s] = "landed", chain[r] = "landed", target[s] = target[r]
      PROVE  s = r
  <2>1. ~Dropped(s) /\ ~Dropped(r) /\ intent[s] # "none"
    BY <1>1 DEF TradesInv, TradeInv, TradeFacts
  <2>2. target[s] \in Buys
    BY <1>1, <2>1 DEF TradesInv, SellInv
  <2> QED
    BY <1>1, <2>1, <2>2 DEF TradesInv, RivalInv
<1>2. TradesInv => OneSale
  BY <1>1 DEF OneSale
<1> QED
  BY <1>2, TradesInvariant, PTL

\* A sell disposed of as inert lands no more (disposeInertAmbiguousSell): its key is dead.
THEOREM DisposedIsOverAlways == Spec => DisposedIsOver
<1>1. ASSUME TradesInv, [Next]_vars, NEW s \in inert, chain'[s] = "landed", chain[s] # "landed"
      PROVE  FALSE
  <2>1. ~live /\ inert \subseteq Sells /\ s \in Trades
    BY <1>1 DEF TradesInv, TypeOK, InertInv
  <2>2. w.pc \notin {"ready", "bound"}
    BY <1>1 DEF TradesInv, InertInv
  <2>3. chain' = chain \/ chain' = Overtaken
    BY <1>1, <2>1, <2>2
       DEF Next, Step, Book, Passes, Resolve, CycleStart, CycleOver, ResolveEnd, Orphan, Unprojected, PassAsk,
           PassWrite, PassEnd, PassStart, SettleDead, SettleSkip, SettleLanded, SettleInert, Deny, Begin,
           Refuse, Refused, Check, Bind, Send, Sent, Await, Advance, Refute, Project, OpenPosition,
           ClosePosition, Adopt, BalanceGone, Buy, Sell, Trade, Land, Foreign, KeyDies, Move, OwnerLooks,
           OwnerRevokes, Crash, Exec, vars
  <2> QED
    BY <1>1, <2>1, <2>3, OvertakenFacts DEF TradesInv
<1>2. TradesInv /\ [Next]_vars => [\A s \in inert : chain'[s] = "landed" => chain[s] = "landed"]_vars
  BY <1>1
<1> QED
  BY <1>2, TradesInvariant, PTL DEF Spec, DisposedIsOver
-----------------------------------------------------------------------------
(* The abstract books: each step is at most one step of TradeLots.         *)

\* What was given up as inert is settled as such.
OffInv == \A s \in inert : intent[s] = "rolled-back"

Landed(t) == chain[t] = "landed"
SameLanded == \A t \in Trades : Landed(t)' <=> Landed(t)

LEMMA SameLots ==
  ASSUME SameLanded, UNCHANGED books
  PROVE  UNCHANGED Lots!lots
<1>1. {t \in Trades : chain'[t] = "landed"} = {t \in Trades : chain[t] = "landed"}
  BY DEF SameLanded, Landed
<1>2. [t \in Trades |-> Phase(t)]' = [t \in Trades |-> Phase(t)]
  BY DEF Phase
<1> QED
  BY <1>1, <1>2 DEF Lots!lots

\* The chain is not touched: its part of the books stays.
LEMMA SameChain ==
  ASSUME UNCHANGED chain
  PROVE  SameLanded /\ UNCHANGED {t \in Trades : chain[t] = "landed"}
BY DEF SameLanded, Landed

\* The intent of one trade changes.
LEMMA IntentTurns ==
  ASSUME TypeOK, NEW t \in Trades, NEW st, Settle(t, st), \A u \in Trades \ {t} : u \in inert' <=> u \in inert
  PROVE  Lots!Turn(t, Phase(t), Phase(t)')
<1>1. intent'[t] = st /\ \A u \in Trades \ {t} : intent'[u] = intent[u]
  BY DEF TypeOK, Settle
<1>2. \A u \in Trades \ {t} : Phase(u)' = Phase(u)
  BY <1>1 DEF Phase
<1>3. [u \in Trades |-> Phase(u)]' = [[u \in Trades |-> Phase(u)] EXCEPT ![t] = Phase(t)']
  BY <1>2
<1> QED
  BY <1>3 DEF Lots!Turn

\* What settles, or gives out, one trade.
LEMMA OffStep ==
  ASSUME TradesInv, OffInv, [Next]_vars
  PROVE  OffInv'
<1>1. \/ UNCHANGED <<intent, inert>>
      \/ \E t \in Trades : \E st : Settle(t, st) /\ UNCHANGED inert /\ intent[t] \in {"none", "pending"}
      \/ \E s \in Sells : Settle(s, "rolled-back") /\ inert' = inert \cup {s}
  BY DEF Next, Step, Book, Passes, Resolve, CycleStart, CycleOver, ResolveEnd, Orphan, Unprojected, PassAsk,
         PassWrite, PassEnd, PassStart, SettleDead, SettleSkip, SettleLanded, SettleInert, Deny, Begin,
         Refuse, Refused, Check, Bind, Send, Sent, Await, Advance, Refute, Project, OpenPosition,
         ClosePosition, Adopt, BalanceGone, Buy, Sell, Trade, Land, Foreign, KeyDies, Move, OwnerLooks,
         OwnerRevokes, Crash, vars, At, Exec, TradesInv, TypeOK, ListInv, Unsettled, InHand
<1>2. CASE UNCHANGED <<intent, inert>>
  BY <1>2 DEF OffInv
<1>3. ASSUME NEW t \in Trades, NEW st, Settle(t, st), UNCHANGED inert, intent[t] \in {"none", "pending"}
      PROVE  OffInv'
  BY <1>3 DEF OffInv, Settle, TradesInv, TypeOK
<1>4. ASSUME NEW s \in Sells, Settle(s, "rolled-back"), inert' = inert \cup {s}
      PROVE  OffInv'
  BY <1>4 DEF OffInv, Settle, TradesInv, TypeOK
<1> QED
  BY <1>1, <1>2, <1>3, <1>4

\* What neither the trades' intents nor the positions see.
LEMMA QuietSteps ==
  ASSUME TradesInv,
         \/ CycleStart \/ ResolveEnd \/ Unprojected \/ PassAsk(Worker) \/ PassWrite(Worker) \/ PassEnd
         \/ Crash \/ KeyDies \/ OwnerLooks \/ OwnerRevokes \/ UNCHANGED vars
         \/ \E t \in Trades : \/ SettleSkip(t) \/ SettleLanded(t) \/ Begin(t) \/ Refuse(t) \/ Check(t)
                              \/ Sent(t) \/ Await(t) \/ Resolve(t)
         \/ \E b \in Buys : Move(b)
         \/ \E p \in Others : Passes(p)
  PROVE  UNCHANGED Lots!lots
<1>1. UNCHANGED <<chain, intent, inert, target, position>>
  BY DEF Passes, Resolve, CycleStart, CycleOver, ResolveEnd, Unprojected, PassAsk, PassWrite, PassEnd,
         PassStart, SettleSkip, SettleLanded, Begin, Refuse, Check, Sent, Await, Advance, Refute,
         KeyDies, Move, OwnerLooks, OwnerRevokes, Crash, vars
<1> QED
  BY <1>1, SameChain, SameLots

\* A trade is prepared, sent or overtaken, and does not land by it.
LEMMA UnlandedSteps ==
  ASSUME TradesInv, Foreign \/ \E t \in Trades : Bind(t) \/ Send(t)
  PROVE  UNCHANGED Lots!lots
<1>1. UNCHANGED books
  BY DEF Foreign, Bind, Send
<1>2. CASE Foreign
  BY <1>1, <1>2, OvertakenFacts, SameLots DEF Foreign, TradesInv, SameLanded, Landed
<1>3. ASSUME NEW t \in Trades, Bind(t) \/ Send(t)
      PROVE  SameLanded
  <2>1. chain[t] \notin {"landed", "sent"}
    BY <1>3 DEF Bind, Send, Exec, TradesInv, HandInv
  <2>2. chain' = chain \/ \E st \in {"prepared", "sent", "failed"} : chain' = [chain EXCEPT ![t] = st]
    BY <1>3, <2>1 DEF Bind, Send, Exec, TradesInv, TypeOK, HandInv
  <2> QED
    BY <2>1, <2>2 DEF TradesInv, TypeOK, SameLanded, Landed
<1> QED
  BY <1>1, <1>2, <1>3, SameLots

LEMMA LotsLand ==
  ASSUME TradesInv, NEW t \in Trades, Land(t)
  PROVE  Lots!Land(t)
<1>1. chain[t] = "sent" /\ live /\ UNCHANGED books
  BY DEF Land
<1>2. intent[t] = "pending"
  <2>1. t \notin inert
    BY <1>1 DEF TradesInv, InertInv
  <2> QED
    BY <1>1, <2>1 DEF TradesInv, TypeOK, TradeInv, TradeFacts, Dropped
<1>3. chain'[t] = "landed" /\ \A u \in Trades \ {t} : Landed(u)' <=> Landed(u)
  BY OvertakenFacts DEF Land, TradesInv, TypeOK, Landed
<1>4. {u \in Trades : chain[u] = "landed"}' = {u \in Trades : chain[u] = "landed"} \cup {t}
  BY <1>3 DEF Landed
<1>5. [u \in Trades |-> Phase(u)]' = [u \in Trades |-> Phase(u)]
  BY <1>1 DEF Phase
<1>6. Phase(t) = "out" /\ t \notin {u \in Trades : chain[u] = "landed"}
  BY <1>1, <1>2 DEF Phase
<1> QED
  BY <1>1, <1>4, <1>5, <1>6 DEF Lots!Land

\* An intent is rolled back: its trade is denied, refused, or known not to have happened.
LEMMA LotsDrop ==
  ASSUME TradesInv, OffInv, NEW t \in Trades, SettleDead(t) \/ Deny(t) \/ Refused(t)
  PROVE  Lots!Drop(t)
<1>1. Settle(t, "rolled-back") /\ UNCHANGED <<chain, target, inert, position>>
  BY DEF SettleDead, Deny, Refused
<1>2. intent[t] = "pending" /\ t \notin inert
  BY DEF SettleDead, Deny, Refused, At, Exec, TradesInv, TypeOK, InHand, ListInv, Unsettled, OffInv
<1>3. chain[t] # "landed"
  BY DEF SettleDead, Dead, Deny, Refused, Exec, TradesInv, HandInv, TradeInv, TradeFacts
<1>4. Phase(t) = "out" /\ Phase(t)' = "dropped"
  BY <1>1, <1>2 DEF Phase, Settle, TradesInv, TypeOK
<1>5. Lots!Turn(t, "out", "dropped")
  BY <1>1, <1>4, IntentTurns DEF TradesInv
<1> QED
  BY <1>1, <1>3, <1>5, SameChain DEF Lots!Drop

LEMMA LotsGiveUp ==
  ASSUME TradesInv, OffInv, NEW s \in Sells, SettleInert(s)
  PROVE  Lots!GiveUp(s)
<1>1. Settle(s, "rolled-back") /\ inert' = inert \cup {s} /\ UNCHANGED <<chain, target, position>> /\ s \in Trades
  BY DEF SettleInert
<1>2. intent[s] = "pending"
  BY DEF SettleInert, At, TradesInv, ListInv, Unsettled
<1>3. Phase(s) = "out" /\ Phase(s)' = "given up"
  BY <1>1, <1>2 DEF Phase, Settle, TradesInv, TypeOK
<1>4. Lots!Turn(s, "out", "given up")
  BY <1>1, <1>3, IntentTurns DEF TradesInv
<1> QED
  BY <1>1, <1>4, SameChain DEF Lots!GiveUp

LEMMA LotsBook ==
  ASSUME TradesInv, OffInv, NEW t \in Trades, Project(t)
  PROVE  Lots!Book(t)
<1>1. Settle(t, "projected") /\ UNCHANGED <<chain, target, inert, position>>
  BY DEF Project
<1>2. intent[t] = "pending" /\ chain[t] = "landed"
  BY DEF Project, TradesInv, TypeOK, InHand, HandInv, TradeInv, TradeFacts
<1>3. PositionBooked(t)
  BY DEF Project, Booked, PositionBooked, TradesInv, HandInv, TradeAssumption
<1>4. Phase(t) = "out" /\ Phase(t)' = "booked"
  BY <1>1, <1>2 DEF Phase, Settle, TradesInv, TypeOK
<1>5. Lots!Turn(t, "out", "booked")
  BY <1>1, <1>4, IntentTurns DEF TradesInv
<1> QED
  BY <1>1, <1>2, <1>3, <1>5, SameChain DEF Lots!Book, PositionBooked

\* Positions change, and no intent.
LEMMA SamePhases ==
  ASSUME UNCHANGED <<intent, inert>>
  PROVE  UNCHANGED [t \in Trades |-> Phase(t)] /\ \A t \in Trades : Phase(t)' = Phase(t)
BY DEF Phase

LEMMA LotsOpen ==
  ASSUME TradesInv, OffInv, NEW b \in Buys, OpenPosition(b)
  PROVE  Lots!Open(b)
<1>1. position[b] = "none" /\ position' = [position EXCEPT ![b] = "open"] /\ UNCHANGED <<chain, intent, target, inert>>
  BY DEF OpenPosition
<1>2. intent[b] = "pending" /\ chain[b] = "landed"
  BY DEF OpenPosition, TradesInv, TypeOK, InHand, HandInv, TradeInv, TradeFacts
<1> QED
  BY <1>1, <1>2, SameChain, SamePhases DEF Lots!Open, Phase

LEMMA LotsClose ==
  ASSUME TradesInv, OffInv, NEW s \in Sells, ClosePosition(s) \/ Adopt(s)
  PROVE  Lots!Close(s)
<1>1. position' = [position EXCEPT ![target[s]] = "sold"] /\ UNCHANGED <<chain, intent, target, inert>>
  BY DEF ClosePosition, Adopt
<1>2. chain[s] = "landed"
  BY DEF ClosePosition, Adopt, Adoptable, TradesInv, HandInv, TradeInv, TradeFacts
<1>3. \/ Phase(s) = "out" /\ position[target[s]] = "open"
      \/ Phase(s) = "booked" /\ position[target[s]] = "gone"
  BY DEF ClosePosition, Adopt, Adoptable, TradesInv, TypeOK, InHand, Phase
<1> QED
  BY <1>1, <1>2, <1>3, SameChain, SamePhases DEF Lots!Close

LEMMA LotsLose ==
  ASSUME NEW b \in Buys, BalanceGone(b)
  PROVE  Lots!Lose(b)
BY SameChain, SamePhases DEF BalanceGone, Lots!Lose

\* The sells that are out are those whose intent is unsettled.
LEMMA NotOffered ==
  ASSUME NEW b \in Buys, ~Selling(b), NEW r \in Lots!SalesOf(b)
  PROVE  [t \in Trades |-> Phase(t)][r] # "out"
BY DEF Lots!SalesOf, Selling, Phase

LEMMA LotsOrphan ==
  ASSUME TradesInv, Orphan
  PROVE  UNCHANGED Lots!lots \/ \E B \in SUBSET Buys : Lots!Orphan(B)
<1>1. UNCHANGED <<chain, intent, target, inert>>
  BY DEF Orphan
<1>2. CASE UNCHANGED position
  BY <1>1, <1>2, SameChain, SameLots
<1>3. CASE position' = [b \in Buys |-> IF Orphaned(b) THEN "orphaned" ELSE position[b]]
  <2> DEFINE B == {b \in Buys : Orphaned(b)}
  <2>1. \A b \in B : position[b] = "open" /\ \A r \in Lots!SalesOf(b) : [t \in Trades |-> Phase(t)][r] # "out"
    BY NotOffered DEF Orphaned
  <2>2. position' = [b \in Buys |-> IF b \in B THEN "orphaned" ELSE position[b]]
    BY <1>3
  <2>3. Lots!Orphan(B)
    BY <1>1, <2>1, <2>2, SameChain, SamePhases DEF Lots!Orphan
  <2> QED
    BY <2>3
<1> QED
  BY <1>2, <1>3 DEF Orphan

LEMMA LotsBuy ==
  ASSUME TradesInv, NEW b \in Buys, Buy(b)
  PROVE  Lots!Buy(b)
<1>1. intent[b] = "none" /\ Settle(b, "pending") /\ UNCHANGED <<chain, target, inert, position>>
  BY DEF Buy, Trade
<1>2. Phase(b) = "none" /\ Phase(b)' = "out"
  BY <1>1 DEF Phase, Settle, TradesInv, TypeOK
<1>3. Lots!Turn(b, "none", "out")
  BY <1>1, <1>2, IntentTurns DEF TradesInv
<1> QED
  BY <1>1, <1>3, SameChain DEF Lots!Buy

\* No sell of the position is unsettled, and those that were settled never landed: the
\* position would not be open.
LEMMA LotsSell ==
  ASSUME TradesInv, NEW s \in Sells, NEW b \in Buys, Sell(s, b)
  PROVE  Lots!Sell(s, b)
<1>1. /\ intent[s] = "none" /\ Settle(s, "pending") /\ UNCHANGED <<chain, inert, position>>
      /\ w.pc = "trade" /\ position[b] = "open" /\ ~Selling(b) /\ target' = [target EXCEPT ![s] = b]
  BY DEF Sell, Trade
<1>2. ASSUME NEW r \in Lots!SalesOf(b)
      PROVE  r \notin {t \in Trades : chain[t] = "landed"}
  <2>1. r \in Sells /\ target[r] = b /\ r \in Trades
    BY DEF Lots!SalesOf
  <2>2. intent[r] \in {"none", "rolled-back"} /\ r \notin inert
    BY <1>1, <2>1 DEF Selling, TradesInv, TypeOK, SellInv, InertInv
  <2> QED
    BY <2>1, <2>2 DEF TradesInv, TradeInv, TradeFacts, Dropped
<1>3. Phase(s) = "none" /\ Phase(s)' = "out"
  BY <1>1 DEF Phase, Settle, TradesInv, TypeOK, InertInv
<1>4. Lots!Turn(s, "none", "out")
  BY <1>1, <1>3, IntentTurns DEF TradesInv
<1> QED
  BY <1>1, <1>2, <1>4, NotOffered, SameChain DEF Lots!Sell

LEMMA LotsNext ==
  ASSUME TradesInv, OffInv, [Next]_vars
  PROVE  Lots!Next \/ UNCHANGED Lots!lots
<1>1. CASE Step
  <2>1. CASE CycleStart \/ PassEnd \/ ResolveEnd \/ Unprojected \/ PassAsk(Worker) \/ PassWrite(Worker)
    BY <2>1, QuietSteps
  <2>2. CASE Orphan
    BY <2>2, LotsOrphan DEF Lots!Next
  <2>3. ASSUME NEW t \in Trades, SettleDead(t) \/ Deny(t) \/ Refused(t)
        PROVE  Lots!Next
    BY <2>3, LotsDrop DEF Lots!Next, Lots!Trades
  <2>4. ASSUME NEW t \in Trades, SettleSkip(t) \/ SettleLanded(t) \/ Begin(t) \/ Refuse(t) \/ Check(t)
        PROVE  UNCHANGED Lots!lots
    BY <2>4, QuietSteps
  <2>5. ASSUME NEW t \in Trades, Bind(t) \/ Send(t) \/ Sent(t) \/ Await(t)
        PROVE  UNCHANGED Lots!lots
    BY <2>5, QuietSteps, UnlandedSteps
  <2> QED
    BY <1>1, <2>1, <2>2, <2>3, <2>4, <2>5 DEF Step
<1>2. CASE Crash \/ Foreign \/ KeyDies \/ OwnerLooks \/ OwnerRevokes \/ UNCHANGED vars
  BY <1>2, QuietSteps, UnlandedSteps
<1>3. ASSUME NEW t \in Trades, Resolve(t) \/ Book(t) \/ Land(t)
      PROVE  Lots!Next \/ UNCHANGED Lots!lots
  BY <1>3, QuietSteps, LotsLand, LotsBook, LotsOpen, LotsClose DEF Book, Lots!Next, Lots!Trades
<1>4. ASSUME NEW b \in Buys, BalanceGone(b) \/ Buy(b) \/ Move(b)
      PROVE  Lots!Next \/ UNCHANGED Lots!lots
  BY <1>4, QuietSteps, LotsLose, LotsBuy DEF Lots!Next
<1>5. ASSUME NEW s \in Sells, SettleInert(s) \/ Adopt(s) \/ \E b \in Buys : Sell(s, b)
      PROVE  Lots!Next
  BY <1>5, LotsGiveUp, LotsClose, LotsSell DEF Lots!Next
<1>6. ASSUME NEW p \in Others, Passes(p)
      PROVE  UNCHANGED Lots!lots
  BY <1>6, QuietSteps
<1> QED
  BY <1>1, <1>2, <1>3, <1>4, <1>5, <1>6 DEF Next

LEMMA LotsInit ==
  ASSUME Init
  PROVE  Lots!Init
<1>1. {t \in Trades : chain[t] = "landed"} = {}
  BY DEF Init
<1>2. [t \in Trades |-> Phase(t)] = [t \in Trades |-> "none"]
  BY DEF Init, Phase
<1> QED
  BY <1>1, <1>2 DEF Init, Lots!Init, Lots!Trades

\* The trade worker (reconcileTradeIntents, projectIntent, sellPosition, orphaning) with
\* the journal's passes, lost answers, restarts and the owner's hands implements the
\* abstract books of TradeLots.
THEOREM TradesImplementLots == Spec => ImplementsLots
<1>1. Init => Lots!Init /\ OffInv
  BY LotsInit DEF Init, OffInv
<1>2. TradesInv /\ OffInv /\ [Next]_vars => OffInv'
  BY OffStep
<1>3. TradesInv /\ OffInv /\ [Next]_vars => [Lots!Next]_(Lots!lots)
  BY LotsNext
<1> QED
  BY <1>1, <1>2, <1>3, TradesInvariant, PTL DEF Spec, ImplementsLots, Lots!Spec
=============================================================================
