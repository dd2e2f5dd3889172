---------------------------- MODULE AltanaTrade ----------------------------
(***************************************************************************)
(* A TradFi AI agent of the Altana custody: its trades, from the intent    *)
(* the worker writes before it submits to the position it books.           *)
(*                                                                         *)
(* One trade worker (src/src/trade/worker.ts) runs cycles: it reconciles   *)
(* the execution journal, resolves what is UNKNOWN, projects settled       *)
(* intents on positions, and trades through executeTradeForAgent           *)
(* (trade/execute.ts).  The reconcile pass of the journal                  *)
(* (store/journal.ts) also runs in every other service, over the same      *)
(* rows, while the worker submits.                                         *)
(***************************************************************************)
EXTENDS Naturals, FiniteSets
CONSTANTS
  Buys, Sells,  \* the intents; a buy is also the position it opens
  Worker,       \* the trade worker
  Others,       \* the other services that reconcile
  Modes,        \* values of stagedSubmit
  Hashless,     \* whether the relay may confirm without a receipt
  Moves,        \* what the owner does to the wallet by hand
  None
Trades == Buys \cup Sells
Procs == {Worker} \cup Others
ASSUME TradeAssumption ==
  /\ Buys \cap Sells = {} /\ Worker \notin Others /\ None \notin Trades
  /\ Modes \subseteq BOOLEAN /\ Hashless \in BOOLEAN /\ Moves \subseteq {"deposit", "withdraw"}
VARIABLES
  staged,    \* the configuration: the intent is bound to its row before it is signed
  armed,     \* the agent's status is armed, not revoked
  owner,     \* the owner's revoke: "idle", or "looked" at the unsettled intents
  live,      \* the session key is live on the chain
  chain,     \* the intent of a trade: none, prepared with the account's next nonce,
             \* sent to the relay, landed, or failed: its nonce is used without it
  wallet,    \* the positions whose token the wallet holds
  row,       \* execution_journal
  intent, target, inert,  \* trade_intents: state, position of a sell, disposed sells
  position,  \* trade_positions: none, open, orphaned, sold, or gone (balance-gone)
  pass,      \* reconcile passes
  dies,      \* the worker may still die
  w          \* the worker: where it is, the trade in hand, the list it goes through
vars == <<staged, dies, armed, owner, live, chain, wallet, row, intent, target, inert, position, pass, w>>
account == <<live, chain, wallet>>
books == <<intent, target, inert, position>>
agent == <<staged, dies, armed, owner>>
-----------------------------------------------------------------------------
NonTerminal == {"PENDING", "IN_PROGRESS"}
States == NonTerminal \cup {"COMMITTED", "ROLLED_BACK", "UNKNOWN"}
NoRow == [st |-> "none", calls |-> FALSE, tx |-> FALSE, bound |-> FALSE]
NoPass == [todo |-> {}, cur |-> None, out |-> None]
IdleW == [pc |-> "idle", t |-> None, todo |-> {}, next |-> "idle"]

Init ==
  /\ staged \in Modes /\ dies = TRUE /\ armed = TRUE /\ owner = "idle"
  /\ live = TRUE /\ chain = [t \in Trades |-> "none"] /\ wallet = {}
  /\ row = [t \in Trades |-> NoRow]
  /\ intent = [t \in Trades |-> "none"] /\ target = [s \in Sells |-> None] /\ inert = {}
  /\ position = [b \in Buys |-> "none"]
  /\ pass = [p \in Procs |-> NoPass] /\ w = IdleW

Unsettled == {t \in Trades : intent[t] = "pending"}
Selling(b) == \E s \in Sells : intent[s] = "pending" /\ target[s] = b


\* assertTransition on the standard path: a row may also stay what it is.
Legal(from, to) ==
  \/ from = to
  \/ from \in NonTerminal /\ to \in States \ {"PENDING"}
SetRow(t, r) == row' = [row EXCEPT ![t] = r]
\* A write of the standard path.  It throws when it is not legal.
Mark(t, st) == Legal(row[t].st, st) /\ SetRow(t, [row[t] EXCEPT !.st = st])
\* An answer of the relay may come without the hash of its transaction.
Hashes == {TRUE} \cup (IF Hashless THEN {FALSE} ELSE {})
\* Committed, with the transaction if the answer had one.
Commit(t) == \E tx \in Hashes : SetRow(t, [row[t] EXCEPT !.st = "COMMITTED", !.tx = @ \/ tx])

Goto(pc) == w' = [w EXCEPT !.pc = pc]
Settle(t, st) == intent' = [intent EXCEPT ![t] = st]
-----------------------------------------------------------------------------
(* The chain, the relay and the owner's hands: none of this repository.    *)

\* The account's next nonce is used: what was prepared with it never lands.
Overtaken == [t \in Trades |-> IF chain[t] \in {"prepared", "sent"} THEN "failed" ELSE chain[t]]
\* The relay executes an intent while its key lives.
Land(t) ==
  /\ chain[t] = "sent" /\ live /\ (t \in Sells => target[t] \in wallet)
  /\ chain' = [Overtaken EXCEPT ![t] = "landed"]
  /\ wallet' = IF t \in Buys THEN wallet \cup {t} ELSE wallet \ {target[t]}
  /\ UNCHANGED <<agent, live, row, books, pass, w>>
\* An intent fails, or the account executes something else.
Foreign ==
  /\ chain # Overtaken /\ chain' = Overtaken
  /\ UNCHANGED <<agent, live, wallet, row, books, pass, w>>
KeyDies ==
  /\ live /\ live' = FALSE
  /\ UNCHANGED <<agent, chain, wallet, row, books, pass, w>>
Move(b) ==
  /\ \/ "deposit" \in Moves /\ b \notin wallet /\ wallet' = wallet \cup {b}
     \/ "withdraw" \in Moves /\ b \in wallet /\ wallet' = wallet \ {b}
  /\ chain[b] = "landed"
  /\ UNCHANGED <<agent, live, chain, row, books, pass, w>>
\* What the status of a submission may be: the relay may be slow to know.
Status(t) ==
  {"PENDING"} \cup (IF chain[t] = "landed" THEN {"CONFIRMED"} ELSE {})
  \cup (IF chain[t] = "failed" THEN {"FAILED"} ELSE {})
-----------------------------------------------------------------------------
(* The owner revokes the agent and keeps its positions.                    *)
OwnerLooks ==
  /\ armed /\ owner = "idle" /\ Unsettled = {} /\ owner' = "looked"
  /\ UNCHANGED <<staged, dies, armed, account, row, books, pass, w>>
OwnerRevokes ==
  /\ owner = "looked" /\ owner' = "idle" /\ armed' = FALSE
  /\ UNCHANGED <<staged, dies, account, row, books, pass, w>>
-----------------------------------------------------------------------------
(* reconcile: a pass over the rows that are neither terminal nor young.    *)
Listed == {[t |-> t, calls |-> row[t].calls] : t \in {u \in Trades : row[u].st \in NonTerminal}}
\* A row younger than two minutes is skipped.
Begun(old) == [NoPass EXCEPT !.todo = old]

PassStart(p) ==
  /\ p \in Others /\ pass[p] = NoPass /\ Listed # {}
  /\ \E old \in SUBSET Listed : pass' = [pass EXCEPT ![p] = Begun(old)]
  /\ UNCHANGED <<agent, account, row, books, w>>
\* resolveRow, with the row as listed.  The await ends here.
PassAsk(p) ==
  /\ pass[p].cur = None
  /\ \E x \in pass[p].todo, out \in {"COMMITTED", "ROLLED_BACK", "UNKNOWN"} :
       /\ out = "COMMITTED" => x.calls /\ "CONFIRMED" \in Status(x.t)
       /\ out = "ROLLED_BACK" => x.calls /\ "FAILED" \in Status(x.t)
       /\ pass' = [pass EXCEPT ![p] = [todo |-> @.todo \ {x}, cur |-> x.t, out |-> out]]
  /\ UNCHANGED <<agent, account, row, books, w>>
PassGoesOn(p) == pass' = [pass EXCEPT ![p].cur = None, ![p].out = None] /\ UNCHANGED w
\* The verdict is written; when that throws, UNKNOWN is.
PassWrite(p) ==
  /\ pass[p].cur # None
  /\ LET t == pass[p].cur
         out == IF Legal(row[t].st, pass[p].out) THEN pass[p].out ELSE "UNKNOWN" IN
     IF Legal(row[t].st, out)
     THEN /\ IF out = "COMMITTED" THEN Commit(t) ELSE Mark(t, out)
          /\ PassGoesOn(p)
     ELSE \* the handler throws too: the pass is over, and the worker's cycle with it
          /\ pass' = [pass EXCEPT ![p] = NoPass]
          /\ w' = IF p = Worker THEN IdleW ELSE w
          /\ UNCHANGED row
  /\ UNCHANGED <<agent, account, books>>
PassEnd ==
  /\ w.pc = "pass" /\ pass[Worker] = NoPass /\ w' = [w EXCEPT !.pc = "resolve"]
  /\ UNCHANGED <<agent, account, row, books, pass>>
-----------------------------------------------------------------------------
(* The worker's cycle: reconcile, then the custody convergence of          *)
(* reconcileTradeIntents, then trading.                                    *)
At(pc, t) == w.pc = pc /\ t \in w.todo
\* On to the next of the list.
Next1(t) == w' = [w EXCEPT !.todo = @ \ {t}]
Then(pc) == w' = [IdleW EXCEPT !.pc = pc]

CycleOver(old) ==
  /\ w.pc \in {"idle", "trade"} /\ Then("pass")
  /\ pass' = [pass EXCEPT ![Worker] = Begun(old)]
  /\ UNCHANGED <<agent, account, row, books>>
CycleStart == \E old \in SUBSET Listed : CycleOver(old)

\* Mutant: only what the relay gave an id is looked for on the chain.
AssessableCalled(t) ==
  /\ w.pc = "resolve" /\ intent[t] = "pending"
  /\ row[t].st = "UNKNOWN" /\ row[t].bound /\ row[t].calls

\* assessTradeUnknown and resolveUnknown, unless a read fails.
Assessable(t) ==
  /\ w.pc = "resolve" /\ intent[t] = "pending"
  /\ row[t].st = "UNKNOWN" /\ ~row[t].tx /\ row[t].bound
Advance(t) ==
  /\ Assessable(t) /\ chain[t] = "landed"
  /\ SetRow(t, [row[t] EXCEPT !.st = "COMMITTED", !.tx = TRUE])
  /\ UNCHANGED <<agent, account, books, pass, w>>
Refute(t) ==
  /\ Assessable(t) /\ chain[t] = "failed"
  /\ SetRow(t, [row[t] EXCEPT !.st = "ROLLED_BACK"])
  /\ UNCHANGED <<agent, account, books, pass, w>>
ResolveEnd ==
  /\ w.pc = "resolve" /\ w' = [w EXCEPT !.pc = "settle", !.todo = Unsettled]
  /\ UNCHANGED <<agent, account, row, books, pass>>

Dead(t) == row[t].st \in {"none", "ROLLED_BACK"}
SettleDead(t) ==
  /\ At("settle", t) /\ Dead(t) /\ Settle(t, "rolled-back") /\ Next1(t)
  /\ UNCHANGED <<agent, account, row, target, inert, position, pass>>
\* Mutant: an unknown sell is disposed of while its key may still sign it in.
SettleAmbiguous(s) ==
  /\ At("settle", s) /\ s \in Sells /\ row[s].st = "UNKNOWN"
  /\ Settle(s, "rolled-back") /\ inert' = inert \cup {s} /\ Next1(s)
  /\ UNCHANGED <<agent, account, row, target, position, pass>>
\* Mutant: only a sell whose prepared intent is known.
SettleBound(s) ==
  /\ At("settle", s) /\ s \in Sells /\ row[s].st = "UNKNOWN" /\ ~live /\ row[s].bound
  /\ Settle(s, "rolled-back") /\ inert' = inert \cup {s} /\ Next1(s)
  /\ UNCHANGED <<agent, account, row, target, position, pass>>
\* disposeInertAmbiguousSell: the key that signed is dead at a finalized block.
SettleInert(s) ==
  /\ At("settle", s) /\ s \in Sells /\ row[s].st = "UNKNOWN" /\ ~live
  /\ Settle(s, "rolled-back") /\ inert' = inert \cup {s} /\ Next1(s)
  /\ UNCHANGED <<agent, account, row, target, position, pass>>
SettleSkip(t) ==
  /\ At("settle", t) /\ ~Dead(t) /\ ~(row[t].st = "COMMITTED" /\ row[t].tx) /\ Next1(t)
  /\ UNCHANGED <<agent, account, row, books, pass>>
\* markSubmitted; recoverFill may then fail, and the intent waits.
SettleLanded(t) ==
  /\ At("settle", t) /\ row[t].st = "COMMITTED" /\ row[t].tx
  /\ w' = [w EXCEPT !.pc = "project", !.t = t, !.todo = @ \ {t}, !.next = "settle"]
  /\ UNCHANGED <<agent, account, row, books, pass>>
\* projectIntent, called here and after a trade: the position, then the intent.
\* No write changes a position that is not open.
Back == w' = [w EXCEPT !.pc = w.next, !.t = None, !.next = "idle"]
OpenPosition(b) ==
  /\ w.pc = "project" /\ w.t = b /\ position[b] = "none"
  /\ position' = [position EXCEPT ![b] = "open"] /\ Goto("book")
  /\ UNCHANGED <<agent, account, row, intent, target, inert, pass>>
ClosePosition(s) ==
  /\ w.pc = "project" /\ w.t = s /\ target[s] \notin wallet
  /\ position[target[s]] = "open"
  /\ position' = [position EXCEPT ![target[s]] = "sold"] /\ Goto("book")
  /\ UNCHANGED <<agent, account, row, intent, target, inert, pass>>
\* The position a trade leaves is there already.
Booked(t) ==
  IF t \in Buys THEN position[t] # "none"
  ELSE target[t] \notin wallet /\ position[target[t]] # "open"
Project(t) ==
  /\ w.t = t /\ (w.pc = "book" \/ (w.pc = "project" /\ Booked(t))) /\ Settle(t, "projected") /\ Back
  /\ UNCHANGED <<agent, account, row, target, inert, position, pass>>
\* The receipt cannot be read, or the wallet still holds the token.
Unprojected ==
  /\ w.pc = "project" /\ Back
  /\ UNCHANGED <<agent, account, row, books, pass>>

Settled == w.pc = "settle" /\ w.todo = {}
\* Mutant: the adoption comes after the test of the agent's status.
AdoptableArmed(s) == armed /\ intent[s] = "projected" /\ position[target[s]] = "gone"
\* A position closed without its proceeds gets them from the sell's receipt.
Adoptable(s) == intent[s] = "projected" /\ position[target[s]] = "gone"
Adopt(s) ==
  /\ Settled /\ Adoptable(s)
  /\ position' = [position EXCEPT ![target[s]] = "sold"]
  /\ UNCHANGED <<agent, account, row, intent, target, inert, pass, w>>
\* Mutant: a position that was ever sold is left alone.
OrphanedUnsold(b) == position[b] = "open" /\ \A s \in Sells : target[s] # b
\* Mutant: a position is orphaned under its unsettled sell.
OrphanedAny(b) == position[b] = "open"
\* A revoked agent keeps no open position, but those whose sell is unsettled.
Orphaned(b) == position[b] = "open" /\ ~Selling(b)
Orphan ==
  /\ Settled
  /\ position' = IF armed THEN position ELSE [b \in Buys |-> IF Orphaned(b) THEN "orphaned" ELSE position[b]]
  /\ Then(IF armed /\ live THEN "trade" ELSE "idle")
  /\ UNCHANGED <<agent, account, row, intent, target, inert, pass>>
-----------------------------------------------------------------------------
(* Trading: exits, then entries.  A trade is an intent, then its execution.*)
BalanceGone(b) ==
  /\ w.pc = "trade" /\ position[b] = "open" /\ b \notin wallet
  /\ position' = [position EXCEPT ![b] = "gone"]
  /\ UNCHANGED <<agent, account, row, intent, target, inert, pass, w>>
Trade(t) ==
  /\ intent[t] = "none" /\ Settle(t, "pending")
  /\ w' = [w EXCEPT !.pc = "exec", !.t = t, !.next = "trade"]
  /\ UNCHANGED <<agent, account, row, inert, position, pass>>
\* Mutant: whatever is unsettled.
SellAgain(s, b) ==
  /\ w.pc = "trade" /\ position[b] = "open" /\ b \in wallet
  /\ target' = [target EXCEPT ![s] = b] /\ Trade(s)
\* sellPosition: unless a sell of the position is unsettled.
Sell(s, b) ==
  /\ w.pc = "trade" /\ position[b] = "open" /\ b \in wallet /\ ~Selling(b)
  /\ target' = [target EXCEPT ![s] = b] /\ Trade(s)
Buy(b) == w.pc = "trade" /\ UNCHANGED target /\ Trade(b)
-----------------------------------------------------------------------------
(* executeTradeForAgent.                                                   *)
Exec(pc, t) == w.pc = pc /\ w.t = t
\* A result the worker leaves to later cycles, or an exception, which ends the cycle.
Leave == Back
Throw == Then("idle")

\* A denial without a row: the intent is rolled back.
Deny(t) ==
  /\ Exec("exec", t) /\ Settle(t, "rolled-back") /\ Back
  /\ UNCHANGED <<agent, account, row, target, inert, position, pass>>
Begin(t) ==
  /\ Exec("exec", t) /\ SetRow(t, [NoRow EXCEPT !.st = "PENDING"]) /\ Goto("check")
  /\ UNCHANGED <<agent, account, books, pass>>
\* rollBack: caps, kill switch, session, preflight, or a prepare that fails.
Refuse(t) ==
  /\ \E pc \in {"check", "ready"} : Exec(pc, t)
  /\ IF Legal(row[t].st, "ROLLED_BACK") THEN Mark(t, "ROLLED_BACK") /\ Goto("refused")
     ELSE (Throw \/ (staged /\ Exec("ready", t) /\ Leave)) /\ UNCHANGED row
  /\ UNCHANGED <<agent, account, books, pass>>
\* The status and the executing session are read again.
Check(t) ==
  /\ Exec("check", t) /\ armed /\ Goto("ready")
  /\ UNCHANGED <<agent, account, row, books, pass>>
\* Staged: the prepared intent is bound to the row.  From here on nothing is
\* rolled back: when the answer is lost, or the bind throws, the row becomes UNKNOWN.
Bind(t) ==
  /\ staged /\ Exec("ready", t)
  /\ IF row[t].st # "PENDING" THEN Leave /\ UNCHANGED <<chain, row>>
     ELSE \/ Mark(t, "UNKNOWN") /\ Leave /\ UNCHANGED chain
          \/ /\ chain' = [chain EXCEPT ![t] = "prepared"]
             /\ \/ SetRow(t, [row[t] EXCEPT !.bound = TRUE]) /\ Goto("bound")
                \/ SetRow(t, [row[t] EXCEPT !.bound = TRUE, !.st = "UNKNOWN"]) /\ Leave
  /\ UNCHANGED <<agent, live, wallet, books, pass>>
\* Mutant: a send that throws is rolled back.
SendOrRollBack(t) ==
  /\ Exec(IF staged THEN "bound" ELSE "ready", t)
  /\ LET sent == [chain EXCEPT ![t] = IF @ = "failed" THEN @ ELSE "sent"] IN
     \/ chain' = sent /\ Goto("sent") /\ UNCHANGED row
     \/ chain' \in {chain, sent} /\ Mark(t, "ROLLED_BACK") /\ Leave
  /\ UNCHANGED <<agent, live, wallet, books, pass>>
\* It is signed and sent; without staging it is also prepared now.
Send(t) ==
  /\ Exec(IF staged THEN "bound" ELSE "ready", t)
  /\ LET sent == [chain EXCEPT ![t] = IF @ = "failed" THEN @ ELSE "sent"] IN
     \/ chain' = sent /\ Goto("sent") /\ UNCHANGED row
     \/ chain' \in {chain, sent} /\ Mark(t, "UNKNOWN") /\ Leave
  /\ UNCHANGED <<agent, live, wallet, books, pass>>
\* markInProgress, with the id the relay gave.
Sent(t) ==
  /\ Exec("sent", t)
  /\ IF Legal(row[t].st, "IN_PROGRESS")
     THEN SetRow(t, [row[t] EXCEPT !.st = "IN_PROGRESS", !.calls = TRUE]) /\ Goto("await")
     ELSE (IF staged THEN Leave ELSE Throw) /\ UNCHANGED row
  /\ UNCHANGED <<agent, account, books, pass>>
\* Mutant: the relay's word is written as it is.
VerdictRaw(answer) == answer
Verdict(answer) == IF answer = "CONFIRMED" THEN "COMMITTED" ELSE "ROLLED_BACK"
\* Mutant: the worker is given the result of executeTradeForAgent as it is.
ResultRaw(answer, hash) == IF hash THEN "project" ELSE "left"
\* What the worker makes of an answer it has journalled.  executeTradeForAgent calls a
\* FAILED receipt committed as well, with the hash of the transaction that reverted; the
\* executor the worker runs with (main of scripts/trade-worker.ts) makes every result whose
\* receipt is not CONFIRMED a rolled-back one.  Of a committed result, one with a hash is
\* projected at once and one without waits for a later cycle.
Result(answer, hash) ==
  CASE answer # "CONFIRMED" -> "refused"
    [] answer = "CONFIRMED" /\ hash -> "project"
    [] OTHER -> "left"
Take(result) == IF result = "left" THEN Leave ELSE Goto(result)
\* The await ends: 45 seconds are over, or the relay has an answer.  Staged,
\* it is written only on the row as it was left; else, if it is legal.
Await(t) ==
  /\ Exec("await", t)
  /\ \/ Leave /\ UNCHANGED row
     \/ \E answer \in Status(t) \ {"PENDING"}, hash \in Hashes :
          LET st == Verdict(answer)
              applies == IF staged THEN row[t].st = "IN_PROGRESS" ELSE Legal(row[t].st, st) IN
          IF applies
          THEN /\ SetRow(t, [row[t] EXCEPT !.st = st, !.tx = @ \/ (hash /\ st = "COMMITTED")])
               /\ Take(Result(answer, hash))
          ELSE (IF staged THEN Leave ELSE Throw) /\ UNCHANGED row
  /\ UNCHANGED <<agent, account, books, pass>>
\* A result that is denied or rolled back settles the intent.
Refused(t) ==
  /\ Exec("refused", t) /\ Settle(t, "rolled-back") /\ Back
  /\ UNCHANGED <<agent, account, row, target, inert, position, pass>>

\* The worker dies anywhere and starts again.
Crash ==
  /\ dies /\ w # IdleW /\ w' = IdleW
  /\ pass' = [pass EXCEPT ![Worker] = NoPass]
  /\ UNCHANGED <<agent, account, row, books>>
\* It dies no more: a step of FairSpec alone.
Calm ==
  /\ dies /\ dies' = FALSE
  /\ UNCHANGED <<staged, armed, owner, account, row, books, pass, w>>
-----------------------------------------------------------------------------
Step ==
  \/ CycleStart \/ ResolveEnd \/ Orphan \/ Unprojected
  \/ PassAsk(Worker) \/ PassWrite(Worker) \/ PassEnd
  \/ \E t \in Trades :
       \/ SettleDead(t) \/ SettleSkip(t) \/ SettleLanded(t)
       \/ Deny(t) \/ Begin(t) \/ Refuse(t) \/ Refused(t) \/ Check(t)
       \/ Bind(t) \/ Send(t) \/ Sent(t) \/ Await(t)
Resolve(t) == Advance(t) \/ Refute(t)
Book(t) == Project(t) \/ (t \in Buys /\ OpenPosition(t)) \/ (t \in Sells /\ ClosePosition(t))
Passes(p) == PassStart(p) \/ PassAsk(p) \/ PassWrite(p)
Next ==
  \/ Step \/ Crash \/ Foreign \/ KeyDies \/ OwnerLooks \/ OwnerRevokes
  \/ \E t \in Trades : Resolve(t) \/ Book(t) \/ Land(t)
  \/ \E b \in Buys : BalanceGone(b) \/ Buy(b) \/ Move(b)
  \/ \E s \in Sells : SettleInert(s) \/ Adopt(s) \/ \E b \in Buys : Sell(s, b)
  \/ \E p \in Others : Passes(p)
Spec == Init /\ [][Next]_vars
-----------------------------------------------------------------------------
InHand == {"project", "book", "exec", "check", "ready", "bound", "sent", "await", "refused"}
RowType == [st : States \cup {"none"}, calls : BOOLEAN, tx : BOOLEAN, bound : BOOLEAN]
PassType == [todo : SUBSET [t : Trades, calls : BOOLEAN], cur : Trades \cup {None},
             out : {None, "COMMITTED", "ROLLED_BACK", "UNKNOWN"}]
WorkerType == [pc : InHand \cup {"idle", "pass", "resolve", "settle", "trade"}, t : Trades \cup {None},
               todo : SUBSET Trades, next : {"idle", "settle", "trade"}]

\* Every variable keeps the shape its table or process has, and a trade in the worker's
\* hand is unsettled.
TypeOK ==
  /\ staged \in BOOLEAN /\ dies \in BOOLEAN /\ armed \in BOOLEAN /\ owner \in {"idle", "looked"}
  /\ live \in BOOLEAN /\ wallet \subseteq Buys
  /\ chain \in [Trades -> {"none", "prepared", "sent", "landed", "failed"}]
  /\ row \in [Trades -> RowType]
  /\ intent \in [Trades -> {"none", "pending", "projected", "rolled-back"}]
  /\ target \in [Sells -> Buys \cup {None}] /\ inert \subseteq Sells
  /\ position \in [Buys -> {"none", "open", "orphaned", "sold", "gone"}]
  /\ pass \in [Procs -> PassType] /\ w \in WorkerType
  /\ w.t # None <=> w.pc \in InHand
  /\ w.t # None => intent[w.t] = "pending"

\* The journal never says of a trade what the chain belies, whichever service wrote the
\* row, whatever answer was lost and wherever the worker died: a trade that is
\* ROLLED_BACK never lands, one that is COMMITTED has.
JournalTruth ==
  \A t \in Trades :
    /\ row[t].st = "COMMITTED" => chain[t] = "landed"
    /\ row[t].st = "ROLLED_BACK" => chain[t] # "landed"

\* An intent is settled as what happened to its trade, except a sell disposed of with an
\* unknown outcome (disposeInertAmbiguousSell), which claims nothing of the past.  A trade
\* that reverted is rolled back because the worker's executor says so (Result).
SettledTruth ==
  \A t \in Trades :
    /\ intent[t] = "projected" => chain[t] = "landed"
    /\ intent[t] = "rolled-back" /\ t \notin inert => chain[t] # "landed"

\* No position without its buy, no sale booked that nobody made, and a buy that landed
\* without its position is never forgotten: its intent is still unsettled.
BooksTruth ==
  \A b \in Buys :
    /\ position[b] # "none" => chain[b] = "landed"
    /\ position[b] = "none" /\ chain[b] = "landed" => intent[b] = "pending"
    /\ position[b] = "sold" => \E s \in Sells : target[s] = b /\ chain[s] = "landed"

\* A position is sold once, even if an answer was lost, the worker restarted and its owner
\* has put the token back in the wallet: what he deposits is not the agent's to sell.
OneSale ==
  \A s, r \in Sells : chain[s] = "landed" /\ chain[r] = "landed" /\ target[s] = target[r] => s = r

\* A sell disposed of as inert lands no more: its position may be removed or renewed.
DisposedIsOver == [][\A s \in inert : chain'[s] = "landed" => chain[s] = "landed"]_vars

\* The abstract books this worker implements.
Phase(t) ==
  CASE intent[t] = "pending" -> "out"
    [] intent[t] = "projected" -> "booked"
    [] intent[t] = "rolled-back" -> IF t \in inert THEN "given up" ELSE "dropped"
    [] OTHER -> "none"

Lots == INSTANCE TradeLots WITH
  phase <- [t \in Trades |-> Phase(t)],
  landed <- {t \in Trades : chain[t] = "landed"},
  of <- target,
  lot <- position

\* Whatever passes, lost answers, deaths and owners do, the worker's steps are steps of
\* these books: nothing is settled as what it was not, nothing settled lands, no lot is
\* offered twice at once or again after a sale landed, none is orphaned under a sale.
ImplementsLots == Lots!Spec
-----------------------------------------------------------------------------
(* Fairness.  The worker dies finitely often and always takes its next     *)
(* step; a row nobody writes gets old; the session key expires.  What a    *)
(* later cycle tries again succeeds in the end: each of these steps is     *)
(* taken at most once for a trade, so one condition serves them all.       *)
(* Nothing is assumed of the relay, the account or the owner.              *)
Converge ==
  \/ \E t \in Trades : Resolve(t) \/ Book(t)
  \/ \E s \in Sells : SettleInert(s) \/ Adopt(s)
Fairness ==
  /\ WF_vars(Calm) /\ WF_vars(Step) /\ WF_vars(KeyDies)
  /\ SF_vars(Converge) /\ SF_vars(CycleOver(Listed))
  /\ \A p \in Others : WF_vars(PassAsk(p) \/ PassWrite(p))

\* A trade bound before it was signed is settled once the chain has decided it, whatever
\* answers were lost (resolution of UNKNOWN from the account's nonce).
Decided(t) == chain[t] \in {"landed", "failed"}
DecidedSettles ==
  \A t \in Trades : (intent[t] = "pending" /\ row[t].bound /\ Decided(t)) ~> (intent[t] # "pending")

\* No sell blocks its position for ever: it is settled, at the latest by its key's death.
SellsSettle == \A s \in Sells : (intent[s] = "pending") ~> (intent[s] # "pending")

\* A sale is booked on its position, also when an exit pass found the wallet empty first
\* and closed the position as gone.
ExitsBooked ==
  \A s \in Sells : (intent[s] = "projected") ~> (intent[s] = "projected" /\ position[target[s]] = "sold")

\* A revoked agent's position does not stay open, although it is left alone while a sell
\* of it is unsettled, and although the trade that opens it may settle after the revoke.
RevokedConverges == \A b \in Buys : (~armed /\ position[b] = "open") ~> (position[b] # "open")
=============================================================================
