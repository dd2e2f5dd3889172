# Verification of 4lpha-marketplace

TLA+ models of the parts of this repository where several processes, a database,
a venue and a chain meet and where a mistake moves money: which steps they take,
which properties those steps keep, and proofs of the most important ones.

The product (`README.md` of the repository) hires trading agents for a user.  An
agent trades from one of two custodies: a *Binance Agentic Wallet* driven through a
vendor command line, or an *Altana* passkey wallet with session keys.  Every running
agent also gets an ERC-8004 identity on BSC.  A backend of HTTP services and worker
daemons over one Postgres database does all of it; a web front end only calls the
services.

How to run things, inside this directory:

    tlc -workers 2 -config dispatch_orders.cfg MCAgenticDispatch
    tlapm AgenticDispatchProofs.tla

`PROJECT.json` lists the components, the runs and their properties, the mutants that
show each property can fail, the source lines of every definition (`map`), the hazards
and the theorems.

## 1. Inventory

Paths are relative to `src/src` unless they start with another directory of the
repository.

| component | state | operations | what is hard | what makes it correct |
|---|---|---|---|---|
| Agentic order dispatch (`agentic/execute.ts`, `resolve.ts`, `store.ts`, `baw.ts`, `childGuard.cjs`, `instances.ts`, `scripts/agentic-gate.ts`) | order rows, wallet fence (a lease), execution journal, instance rows, child processes, the venue's list | begin, quote, claim, start child, record answer, resolve, dispose by an operator | several processes per wallet, one lease nobody renews while a child runs, crashes between any two writes, a venue that lists late and returns no usable order id | one live dispatch; what is booked happened; decisions are final; nothing is left open in silence |
| Identity worker (`identity/*`, `store/erc8004*.ts`) | jobs, signed transactions, next nonce, the agents' identity columns, an advisory lock, the chain | discover, step, prepare, reconcile, block, project, enroll, nonce resync | one key and one nonce line for all agents, a lock whose loss is noticed late, crash between signing and sending, reorganisations | only recorded signatures are sent; a published id is final; fee ceilings; every agent is settled |
| Agentic hire lifecycle (`agentic/worker.ts`, `routes.ts`, `store.ts`, `obligations.ts`) | `agentic_wallets` (waiting ... bound, ending, ended) with a version, the wallet's fence, sessions at Binance | pair, verify, accept hire, resume hire, clean up, sweep, probe, drain, leave, sign out | the owner's calls, the sweep and the worker on one row; a staged hire resumed by two tasks; a sign-out that may not have happened | one active hire per wallet; no agent armed without its hire; a hire ends after its orders, with its session signed out |
| Agentic DCA and Earn lanes (`agentic/dcaLane.ts`, `earnLane.ts`, `store/dcaRounds.ts`) | rounds, levels, earn orders | fire, fill, re-arm; deposit, redeem | they share fence and claim with the dispatch; earn orders settle by balances | a level buys once a round; an earn order is booked once |
| Execution journal (`store/journal.ts`) | one row per decision | begin, bind, mark, resolve unknown, the reconcile pass of seven services | a pass meets rows another process is still submitting; who may move an UNKNOWN row | decided rows are final and say what the chain says |
| Authorisation (`auth/*`, `store/nonces.ts`, `runtimeReplays.ts`) | nonces, replay rows | verify, consume, prune | pruning against clocks; a claim committed although its operation failed | a signature acts once |
| Kill switch (`killswitch/killswitch.ts`) | pauses, a global halt | pause, halt, check | a check is two reads | a halted agent starts nothing new |
| Worker singleton (`deployment/workerSingleton.ts`) | an advisory lock per role | acquire, lose, close | losing a session | one worker of a role |
| Trade worker (`trade/*`, `store/trade*.ts`, `lp/preparedIntent.ts`, `scripts/trade-worker.ts`) | intents, positions, settings | enter, exit, resolve unknown, project, dispose, orphan | intent, journal and position are three rows; answers of the relay are lost; the key expires under a sell; the owner moves tokens and revokes | a position is what was filled and is sold once; every trade is settled |
| Wallet provisioning (`wallet/*`) | hires of the Altana custody, session grants | accept, grant, materialise, renew | resumable in any half-done state | one agent per hire |
| Billing (`billing/*`, `contracts/BillingCollector.sol`) | invoices, session-key generations | bill, collect, rotate | retries against the chain and AWS | an invoice is paid once |
| LP, lending, Venus, quant (`lp`, `lending`, `venus`, `quant`, their stores) | sagas, guards, jobs over the journal | multi-transaction plans | partial execution | each saga resumes or unwinds |
| Contracts (`contracts/*.sol`) | balances, allowances, a lock | swap, payInvoice | tokens that call back | exact input, minimum output |
| Policy, compilers, scoring (`ops`, `core`, `rules`, parts of `trade`) | none | build and admit calls | long tables | unit-tested; no protocol |
| HTTP services, web, demo, studio, deployment (`server.ts`, `http`, `web/`, `demo`, `studio/`, `deploy/`) | requests, simulated agents, build evidence | | | |

Interaction: the services write hires and settings; worker daemons read them and run the
lanes; every lane that spends goes through a fence (a lease or an advisory lock), then an
order row, then the journal, then the outside world, and later resolves what became of
it.  The kill switch and the settings are read at every check.  The identity worker is
separate from trading: it shares only the `agents` table.

Modelled are the dispatch, the identity worker, the hire lifecycle, and of the trade
worker with the journal the life of a trade.  They were taken first because they are
where processes, crashes and an outside world without transactions meet, and because
their code argues for its safety in comments rather than in tests.

## 2. Modules

| module | what it is |
|---|---|
| `AgenticLease` | the clock behind a wallet's fence: lease, claim margin, start window, kill limit |
| `AgenticFence` | the fence without a clock, which `AgenticLease` implements |
| `AgenticLeaseProofs` | proofs about the lease |
| `AgenticDispatch` | one wallet's orders: processes, children, journal, operator, venue |
| `AgenticSwapLedger` | what the dispatch promises, in six actions |
| `AgenticDispatchProofs` | proofs about the dispatch: types, one live dispatch |
| `AgenticBooksProofs` | proofs that its books are true, and that it implements `AgenticSwapLedger` |
| `MCAgenticDispatch` | its instances: starting situations and symmetry |
| `AgenticHire`, `MCAgenticHire` | the pairings and hires of agentic wallets; their starting situations |
| `WalletHires` | what the hires promise: a wallet hired once at a time, an agent behind the gate, an end with the session |
| `AgenticHireProofs` | proofs about the hires, and that they implement `WalletHires` |
| `AltanaTrade`, `MCAltanaTrade` | the trades of an agent of the Altana custody; symmetry |
| `TradeLots` | what the trade worker promises: lots bought, held and sold once |
| `AltanaTradeProofs` | proofs about the trades, and that they implement `TradeLots` |
| `IdentityMinter` | the identity worker, its ledger, its lock and the chain |
| `AgentRegistrations` | what the identity worker promises: one registration of an agent, then its update, then the id |
| `IdentityMinterProofs`, `IdentityFeeProofs` | proofs about the identity worker and about what it signs for |
| `IdentityChainProofs` | the proofs that it implements `AgentRegistrations`, and that a day's fees stay below the daily ceiling |
| `MCIdentityMinter` | its instances |

### AgenticLease, AgenticFence

A wallet's fence is a row with a holder and `lease_until` (120 s).  Before a swap is
handed to a child process the claim statement asks for 35 s of remaining lease
(`AGENTIC_CLAIM_SQL`).  The child is only spawned within 5 s of the start of that query,
its own guard refuses to run 7 s after it, and its timer kills it after 25 s; a parent
watch is there too but may be late.  Nobody renews the lease meanwhile, and the process
that claimed may die.  `ChildUnderLease`: a running child's claimant still holds an
unexpired lease.  It follows from `StartWindow + ChildLimit < ClaimMargin`
(7 + 25 < 35; for a sign 7 + 65 < 75), which is the module's assumption.  Only durations
matter, so one clock stands for the clocks of database and hosts: the model assumes that
they run at the same rate, not that they agree.

`AgenticFence` keeps who holds the fence and says that it lapses only when no child that
its holder started may run.  `ImplementsFence` shows that the lease gives just that, and
`AgenticDispatch` then uses `FenceLapses` with this guard and no clock.

### AgenticDispatch, AgenticSwapLedger

State: the wallet's `fence`; `row`, an order's dispatch (unclaimed, spawned, sealed,
not-started), claimant, outcome, response, bound list row and hash; `jr`, its journal
row; `entriesStopped`; `inst`, the instances with what the operator may know of them
(retired by exit or by dispose, deployment stopped); `task`, where each process is and
what it read; `child`; `venue`, the venue's rows, what became of them on the chain and
whether the list shows them.

A process runs one task at a time: `executeAgenticTrade` (StartExecute, Snapshot, Begin,
Quote, Claim, Launch, Record, Mark), `resolveAgenticOrder` (StartResolve, Read, then the
branch of `NextOf`) or, for a gate process, `dispose` (DisposeRead ... DisposeCommit).
An action is the code between two awaits at which another process can change what the
task relies on.  Every patch of an order is the compare-and-set of `patchOrder` on the
four columns the caller last read (`Cas`, `Fresh`); a lost one either ends the task or is
ignored, as at each place in the code.  Journal and row are separate writes, in the
code's order.

Reductions, each of which only adds behaviours or is exact:

* Halts, pauses, holds on settings, deadlines, term ends and revoked agents only refuse:
  they are the choice between a step and `Refuse` or `Deny`.
* A fence token is its holder's name: a process runs one task at a time and holds at most
  its latest token.
* A claim whose answer is lost is `Claim` followed by `TaskFails`; a fence release that
  fails is a fence that lapses later.
* The journal's read and write are one step: its transition table refuses a lost race,
  which is `TaskFails` or `Throws` here.
* The venue's list is read and the order bound in one step, under a fence that is checked
  to be held (`Holds`).
* `held` says that `hold_reason` is a verdict; the two reasons that only wait
  (no-list-row, receipt-missing) are not held.
* `stopping` is part of `GracefulExit`.
* Orders of one side have the same amount, the worst case for matching; the owner's rows
  have another.  `verifyAgenticSwap` demands the exact input.

Assumptions: an operator attests only what can be seen (`Attested`); the owner, who is
told by `skills/4lpha-hire/SKILL.md:91` not to trade by hand, may do so, but her swap
fills or is refused and does not revert on the chain (`OwnerEnds`).  Without either TLC
finds a wrong booking; both cases are in the hazard list.

`AgenticSwapLedger` is the promise: open, dispatch one at a time, trade at most once while
dispatched, commit only what traded, close or roll back only what did not.
`ImplementsLedger` maps a row to its phase and the venue's landed swaps to `traded`.

Not modelled: gate-run counters and deadlines, heartbeat freshness (an instance may be
refused at any time, `HeartbeatRefused`), orders of kind x402 sign and earn, the CMC and
trade-intent parts of `walletObligations`, the insertion of positions, `repair-fill`.

### AgenticHire, WalletHires

State: the pairing rows (`agentic_wallets`) with their version; the fence of each wallet;
`agent`, the agents row a hire arms or revokes; what is signed in at Binance; `order`, the
one order of a hire that matters to its end (none, listed, spawned, held); `age`, how far
time has gone for a pairing: before the hire past its stage deadline; hired, past the
entry cutoff, the term end, half an hour more, and Binance's longest sign-in, when the
session ends itself; and the tasks of the processes.

A task is one HTTP call (`Call`, `Code`, `Finalize`, `AcceptHire`), the verifier that a
pairing leaves running in the API (`Scan` ... `StoreVerified`), the sweep (`Sweep`), a
worker's cycle (`Cycle`: drain, term end, probe; then the ending with its sign-out) or a
trade that may claim an order.  `resumeHire` is walked stage by stage under the fence
(ResumeHire, Gate, Gated, CreateAgent, Staged, Bind), since the owner's call and the
sweep may both be in it.  Every write is `patchWallet`'s compare-and-set on the version
the task last read (`Wins`), plus the unique index on active hires (`OnlyHire`).

Reductions: a gate refuses or passes whatever it reads; `Touch` is any write of columns
the model leaves out (balances, settings hold, stopped entries, keep-alive), which changes
nothing but the version; a fence's live holder may outlive its lease only where `Slow`
says so.  Not modelled: the Earn lane's wait before a sign-out (`earnBlocksSignOut`), the
settings hold, DCA rounds, the admission lists.

`WalletHires` is the promise, with tasks, versions, fences, clocks, drains and restarts
left out: nobody has a wallet that another hire has; a session begins before its hire;
an agent is armed once, behind the gate, and a hire is bound only with its agent; what
passed the gate is not given up any more; an agent is revoked only once its hire was
bound; a hire is over when its session is, unless a status was misread.
`ImplementsHires` maps a row to its stage (`Stage`: a hiring row with its facts has passed
the gate), an active row to its wallet, Binance's sessions and the misreadings to
themselves.  It also says that no step of the code moves two hires, except a restart.

### AltanaTrade, TradeLots

State: `chain`, what became of a trade's intent (prepared with the account's next nonce,
sent, landed, or failed because the nonce is used); `row`, the journal; `intent`,
`target`, `inert`, the intents; `position`; the `wallet`'s tokens; `live`, the session key;
`armed`, `owner`, the agent's status and a revoke in progress; `pass`, the reconcile
passes; `w`, the one trade worker.

A cycle is `CycleOver` (reconcile), the resolution of UNKNOWN rows (`Advance`, `Refute`),
the second loop of `reconcileTradeIntents` (`Settle...`, then `projectIntent` as
`OpenPosition` or `ClosePosition` and `Project`), the adoption of proceeds, the orphaning,
and trading: an intent, then `executeTradeForAgent` step by step (`Begin`, `Check`, `Bind`,
`Send`, `Sent`, `Await`, with `Deny`, `Refuse`, `Refused`), with or without the staged submit.
At each step a lost answer, a row another service has moved, an exception or a death of
the worker is a disjunct.  The reconcile pass of other services (`Others`) works on the
same rows, with the row as it was listed.  The owner's revoke that keeps the positions is
two steps, its reading and its compare-and-set.

`Result` is what the worker is told of an answer, and the one place where this depends on
a file outside the worker.  `executeTradeForAgent` calls a FAILED receipt committed, with
the hash of the transaction that reverted (`execute.ts:824`), and `worker.ts` books every
committed result that has a hash without looking at its status (1204-1211, 2047-2054,
2874-2877).  But it never gets a committed FAILED one: its executor (`deps.executor`,
called at `worker.ts:585-597`) is the one `scripts/trade-worker.ts` builds (421-430) and
hands over (480), and that turns every committed result whose receipt is not CONFIRMED into
a rolled-back one, which settles the intent at once (`Refused`).  The test of FAILED at
`worker.ts:1198` is for the interface; no executor of the repository outside the tests
meets it.  `SettledTruth`, `BooksTruth`, `ImplementsLots` and their theorems
are therefore about the worker as this script starts it.  Without these lines all three are
false: `ResultRaw`, the mutant of `Result` for the first two, opens a position for a
reverted buy and books a reverted sell of an emptied wallet as a sale.

Reductions: any row may be old or young at a pass (time passes anywhere); prices, sizes,
caps and throttles are a refusal; a buy is also the position it opens, and a wallet
either holds a position's token or not; the agent's turn in the projection sweep (its
status, unsettled sells, open positions) is one step.  One worker, as the deployment has:
nothing enforces it (see the hazards).  Not modelled: portfolio, schedule and DCA
lanes, drain and renewal, partial sells, a second entry in one token.

`TradeLots` is the promise, with the journal, the passes, the relay and restarts left
out: a trade is given out once and is then booked, dropped or given up; only what is out
may land, and what was dropped or given up does not land any more; a lot is opened by a
landed buy, is not offered while a sale of it is out nor after one landed, and a revoke
orphans no lot that is being sold.  `ImplementsLots` maps an intent to its phase
(`Phase`), the chain to what landed, a sell to its target and a position to its lot.

### IdentityMinter, AgentRegistrations

State: `source`, the identity columns of an agent; `jobs`, `txs` and `next`, the ledger's
three tables; `fence`, the session that holds the advisory lock; `task`; `chain`, the
minter's mined transactions (their position is their nonce), how many are final, and the
pool of the node; `clock`.

A process acquires the lock, discovers (a job for every enrolled agent, then projects
completed jobs again), and steps: choose the job (`Candidate`: that of the outstanding
transaction, else the run's own, else the first unsettled), then either prepare (Quote,
Sign, Broadcast) or reconcile (Receipt, Nonces, Broadcast; or Judge, Mint, Settle), then
`Reread` and `Project`.  A refusal is `Block` and a projection.  `Sign` is
one step because `ledger.atomic` is one transaction under the minter's row lock; the
envelope, the nonce and the signed intent are one write, and broadcast is another.

`SessionBreaks` frees the lock without telling the process; `LockLost` is the moment its
`fence.check` fails.  In between it goes on beside the next holder.  `Crash`, lost
answers (`Broadcast` may end the step after the node took the bytes), RPC errors
(`Unavailable`), eviction from the pool, foreign use of the key, reorganisation of
blocks that are not final, reverts and the operator's `Resync` are actions.

Reductions: gas and price are one cost; read and compare-and-set of `#project` are one
step, and the branch where it loses is possible only where a session may break
(`Lossy`), and there for the holder too, which a process that lost the lock may overtake; the
projection's revision counter is left out; agents are numbered in the order of their
public refs, which is the order the ledger is read in; an RPC node answers from the
present chain (it may fail, not lag).  Not modelled: display numbers and metadata URIs;
the read of owner and URI after a receipt, which always matches; `preview` and `verify`
(read-only); the minter migration (one-off, with the workers stopped).

`AgentRegistrations` is the promise, with processes, lock, pool and reorganisations left
out: a transaction is signed once per agent and phase, while none is undecided; a block
becomes final; the ledger says of it what the final block says; an id is published once
both transactions succeeded in final blocks, it is the id the chain gave, and it stays.
`ImplementsRegistrations` maps a row to its outcome (`Registered`) and to the final block
at its nonce (`Outcome`, `MintedId`), and the source to its public id.

## 3. What the runs show

Each "pass" run finishes its whole state space; every property has a mutant of the code
that TLC finds violated under the same configuration.

| run | instance | properties | states |
|---|---|---|---|
| `lease` | 2 processes; Lease 7, margin 5, spawn 1, window 2, limit 2, horizon 18 | `ChildUnderLease`, `ImplementsFence` | 265 000 |
| `dispatch_orders` | 2 buys; 2 workers from the start, or 1 worker and 1 operator over an accepted order that is not yet listed | `OneLiveDispatch`, `NoBuyAfterBreach`, `LedgerSteps` | about 940 000 |
| `dispatch_dispose` | 1 sell, 2 workers of which 1 mortal, 1 operator, 1 row of the owner | `TypeOK`, `RolledBackNeverTraded`, `JournalAgreement`, `CommittedIsOwnSwap`, `DecidedIsFinal`, `ImplementsLedger` | 967 000 |
| `dispatch_settles` | 1 sell, 2 workers of which 1 mortal, fair | `OrderSettles` | 33 000 |
| `identity_ledger` | 1 agent, 2 workers of which 1 may lose its lock and the other may crash; 2 reorganisations | `TypeOK`, `PublishedIsRecorded`, `RegisteredIsFinal`, `ImplementsRegistrations` | 461 000 |
| `identity_fees` | 2 agents, a worker and a run with lower limits; 1 foreign transaction; a day of 2 ticks, horizon 3 | `DailyFees`, `ApprovedFees` | 2 250 000 |
| `identity_settles` | 2 agents, a worker and a mortal run with a lower approval, fair | `Settles`, `CatchesUp` | 28 000 |
| `hire_life` | 2 pairings; a pairing from its creation, two of one wallet hired at once, or a bound hire with a worker, a trade and the sweep | `TypeOK`, `ArmedIsHired`, `OneHirePerWallet`, `EndedIsSignedOut`, `DrainedBeforeTermEnd`, `SignOutIsSafe`, `ImplementsHires` | 1 424 000 |
| `hire_settles` | 1 pairing, crashes anywhere, fair | `PairingsDecided`, `HiresEnd` | 104 000 |
| `trade_life` | 1 buy, 2 sells of it, staged or not; 1 other service, deaths, the owner's deposits and withdrawals | `TypeOK`, `JournalTruth`, `SettledTruth`, `BooksTruth`, `OneSale`, `DisposedIsOver`, `ImplementsLots` | 1 442 000 |
| `trade_settles` | 1 buy, 1 sell, finitely many deaths, withdrawals, fair | `DecidedSettles`, `SellsSettle`, `ExitsBooked`, `RevokedConverges` | 55 000 |
| `identity_every` | 1 agent, 1 worker, a chain where nothing fails, fair | `EveryAgentRegistered`: **violated** | |

Why these bounds are enough to be interesting:

* Lease: the horizon is longer than two leases, so that a second process
  acquires, claims and runs a child after the first one died; the scaled values keep the
  code's inequality with no slack beyond one tick.
* Dispatch: the properties speak of pairs of orders (one live, one breached) or of one
  order and those who work on it.  Two orders and two processes give every race between
  two tasks; a mortal worker dies at every point of its task, its child then lives on
  without it; an operator meets the same order from a third process.  One wallet is
  enough since every table involved is keyed by wallet or by order.
* Dispatch scenarios: whole histories of two orders with an operator are beyond TLC, so
  `dispatch_orders` also starts where the dangerous part begins, with one order accepted
  and not listed; that state is one the first scenario reaches.
* Hire: each scenario of `hire_life` has the tasks that can meet in it and the others
  switched off (`Off`); the starting rows are rows that the first scenario's steps write.
* Trade: two sells of one position are the smallest case of a double sale; one other
  service gives every overtaking, since passes share nothing but the rows.  A confirmation
  without a hash (`Hashless`) is in `trade_life` only: such an intent waits for ever, as
  the hazards say.
* Symmetry (workers, orders of one side, registry ids) is used only in runs whose
  constants are interchangeable and which check no liveness; two workers then count in
  both orders, and TLC's state count varies a little with its scheduling.
* `CHECK_DEADLOCK FALSE` where the system may stop: all orders decided, mortal processes
  dead, the clock at its horizon.
* Identity: two processes and one agent cover every overtaking of one job by a stale
  process; two agents and a run with other limits cover the queue and the sums; a day
  shorter than the horizon makes envelopes expire while later fees are committed.  Foreign
  use of the key is in `identity_fees` only; the properties of `identity_ledger` are
  proved for any number of foreign transactions.

Fairness, and why the code justifies it.  Dispatch: leases, quotes and child timers run
out by themselves (weak); the venue and the chain answer in the end (weak); a worker
daemon cycles over its open orders for ever, so the steps of an immortal worker are
fair, strongly where a step may fail or come too late for its lease again and again and
the next cycle tries once more.  Identity: a daemon loops every five seconds, hence weak
fairness of its own steps, strong fairness for those that need the RPC node to answer
and for the lock, which another process may take in between; the lock of a dead process
is freed by the database; a transaction that is sent again every pass is mined in the
end; blocks become final.  `identity_settles` leaves out foreign transactions and
reorganisations: with them a blocked job whose transaction never reached a node keeps
the queue (see the hazards), so the promise is made only without them.

Hire: the sweep and the worker's cycle come again for ever and try again what failed
(strong); a handler that has begun goes on (weak); time passes, and the lease of a dead
holder runs out.  `hire_settles` has `Slow = FALSE`: with leases that live holders outlive,
TLC finds two tasks that resume one hire, lose the lease to each other at every turn and
never bind it, which no code rules out but which needs every step to last two minutes.

Trade: the worker's loop has no end and catches what its cycle throws, hence weak
fairness of its steps; it dies finitely often (after `Calm` no more); a row that nobody
writes gets older than two minutes, so a full list comes again and again (strong); reads
repeated by every cycle (the account's nonce, a receipt, the key's state) succeed in the
end, each of which is needed at most once per trade, so that one strong condition on
`Converge` stands for them all; session keys expire.  Nothing is assumed of the relay,
which may keep silent for ever.  The owner does not put a sold token back in
`trade_settles`: the projection of a sell waits for the wallet to be empty by design.

### The finding

`identity_every`: on a chain where nothing fails, one steady worker may leave its only
agent without an identity for ever.  `#reconcile` reads the receipt (`service.ts:123`:
none yet) and then the nonces (`service.ts:127`); if the registration is mined in between,
`latest > tx.nonce` holds because of the worker's own transaction, and line 128 takes it
for a foreign use of the nonce and blocks the job.  Later passes still record the mint,
but the status stays `blocked`, nothing selects the job again, a run does not retry it,
and `nonceResync` skips it as `evidence_present`.  The repository's `README.md:26` and
`:88` say that every running agent gets its identity.

## 4. What is proved

| theorem | says | argument |
|---|---|---|
| `LeaseTypeCorrect`, `LeaseInvariant` | `LeaseInv` is inductive | a claim is covered by its lease until its margin has passed: `asked + ClaimMargin <= until` while it is out, and a child's start is within `StartWindow` of `asked` |
| `ChildUnderLeaseAlways` | `ChildUnderLease` for all bounds with `StartWindow + ChildLimit < ClaimMargin` | from `LeaseInv` and arithmetic |
| `LeaseImplementsFence` | every lease step is a fence step or a stutter | from `LeaseInv`; `Tick` past the end of a lease is `Lose` |
| `DispatchTypeCorrect` | `TypeOK` and `TaskInv` | one lemma on the operators each step is made of, one Effect lemma per step |
| `DispatchInvariant` | `DispatchInv` is inductive | below |
| `OneLiveDispatchAlways` | `OneLiveDispatch` | from `DispatchInv` |
| `BooksInvariant` | `BooksInv` is inductive relative to `DispatchInv` | below |
| `RolledBackNeverTradedAlways`, `CommittedIsOwnSwapAlways`, `JournalAgreementAlways` | the invariants of those names | from `BooksInv`, order by order |
| `LedgerStepsAlways`, `DispatchImplementsLedger` | every step of the dispatch opens, closes, commits, rolls back or trades one order as the ledger may, or stutters; `ImplementsLedger` | from `BooksInv`, which is needed where a step decides |
| `NoBuyAfterBreachAlways`, `DecidedIsFinalAlways` | the action properties of those names | from `BooksInv` and the effect of each step |
| `TradesInvariant`, `TradesTypeCorrect` | `TradesInv` is inductive | below |
| `JournalTruthAlways`, `SettledTruthAlways`, `BooksTruthAlways`, `OneSaleAlways` | the invariants of those names | from `TradesInv` |
| `DisposedIsOverAlways` | the action property `DisposedIsOver` | from `InertInv` |
| `TradesImplementLots` | every step of the trades is at most one step of the lots; `ImplementsLots` | from `TradesInv` and `OffInv`, below |
| `MinterInvariant`, `MinterTypeCorrect` | `MinterInv` is inductive | below |
| `PublishedIsRecordedAlways`, `RegisteredIsFinalAlways` | the invariants of those names | from `MinterInv` |
| `FeesInvariant`, `ApprovedFeesAlways` | `FeeInv` is inductive; `ApprovedFees` | below |
| `DailyInvariant`, `DailyFeesAlways` | `DailyInv` is inductive; `DailyFees` | below |
| `RegistrationsInvariant` | `RegistrationsInv` is inductive | below |
| `IdentityImplementsRegistrations` | every step of the identity worker is at most one step of the registrations; `ImplementsRegistrations` | from `RegistrationsInv` |
| `HireInvariant`, `HireTypeCorrect` | `HireInv` is inductive | below |
| `OneHirePerWalletAlways`, `ArmedIsHiredAlways`, `EndedIsSignedOutAlways`, `DrainedBeforeTermEndAlways` | the invariants of those names | from `HireInv` |
| `SignOutIsSafeAlways` | the action property `SignOutIsSafe` | from what `TasksInv` says of a task at a sign-out |
| `AgentsInvariant` | `AgentsInv` is inductive relative to `HireInv` | below |
| `HireStepsAlways`, `HireImplementsHires` | every step of the hires is at most one step of `WalletHires`; `ImplementsHires` and `Hires!Spec` | from `HireInv` and `AgentsInv` |

All hold for any number of orders, pairings, trades, agents and processes, and for any
values of the bounds that the runs set to small ones.  They assume only what the modules
name: `LeaseAssumption` (the bounds' inequality), `DispatchAssumption`,
`TradeAssumption`, `MinterAssumption` and `HireAssumption` (sets of names are disjoint,
bounds are natural numbers; of the dispatch also that the owner's swaps do not revert, see
section 2), and `NullAssumption` of the last two (null is none of the values).

**`DispatchInv`.**  `OneLiveDispatch` is not inductive: it says nothing of a process that
has read "claimed by me" and is about to start a child, of an operator about to seal an
order, or of a claimant that died with its child alive.  `DispatchInv` adds, per order,
that a claimed order with a live child has a claimant that is not known to be quiescent
and, if alive, is waiting for it (`OrderInv`); per task, that what it remembers of its row
is still true where it matters (`MemoryInv`: a response, once read, stays; a claim, once
read, stays with its claimant) and where in its code it can be for a row like that
(`StepInv`: only a dead order is terminalized, filled, rolled back or disposed).  All
steps but two are *calm*: rows only move on and children only stop, so the invariant is
kept by lemmas shared by every calm step.  The claim uses the statement's own guard that
no other order of the wallet is open; the launch uses that the task's memory is the row.

**`BooksInv`.**  The venue returns no usable order id, so the resolver finds an order's row
by elimination (`resolve.ts:279-281`): a row that was in the snapshot, or that another
order is bound to, is not its own.  Why this finds the right one is the heart of the proof.
`FenceBooks` says that while a worker holds the fence from its snapshot to its claim no
other order of the wallet is live, and that its order is therefore *told* of every other
order the venue has got: each is in the snapshot, is committed (so its transaction is
taken) or was refused (`Known`).  The claim makes this a fact of the order, which lasts as
long as it is live, because until then no other order can reach the venue.  What a pass
picks is then the order's own row, one of the owner's, or one that cannot be mistaken for
it (`Picked`).  `OrderBooks` ties journal, row, child and venue together: a `ROLLED_BACK`
journal row needs a dead child and a venue that shows what a revert was, which is what a
late pass or an operator relies on when it rolls back the row.  `TaskBooks` says what a
task knows of the journal between the two writes.  As before, a step changes the
paperwork of one order (`Desk`) or the outside world, and what others rely on only moves
on (`Onward`); lemmas about these two serve every step.

**`TradesInv`.**  `JournalTruth` does not say what a pass of another service is about to
write: `PassInv` adds that its verdict is what the chain said, and the chain does not change
its mind on what landed or failed.  `HandInv` says what each step of
`executeTradeForAgent` and `projectIntent` knows of its row and of the chain; that a row
moved by another service makes the worker leave is used there.  `OneSale` needs the
settling of the first sale of a position to come before the second intent: of two sells
of one position one is dropped (`RivalInv`), that is, rolled back and not merely written
off, so that it never landed; and a dropped intent, once it is one, stays off the chain
(`TradeFacts`).  `InertInv` is the argument of the write-off: the key is dead at a
finalized block, and the worker's cycle, having disposed, does not trade.  `OffInv`, that
what is written off is rolled back, is all that the refinement adds: `TradesInv` already
says of each step of the worker what the abstract guard asks, also where the worker acts
on a row that another service moved.  That the worker projects only what landed rests on
`Result`, that is, on the executor of `scripts/trade-worker.ts` (section 2): with a
committed FAILED receipt `HandInv` is not inductive.

**`MinterInv`, `FeeInv`.**  A process that lost its lock goes on, so nothing may rest on
who holds it.  The proof rests on what only grows (`Grows`): a recorded transaction never
changes but for its outcome, a final block stays, an enrolled agent stays enrolled.
`TasksInv` says of a process's memory only facts of this kind, so that they are still
true when a process that has long lost the lock uses them; every step of another process
keeps them by one lemma.  `JobFinal` holds of the stored job and of every copy of it,
since the compare-and-set writes copies back.  `FeeInv` adds that an envelope, once fixed,
is the same in every copy and covers what was signed, and that a process about to lower
the ceiling has compared it with that envelope.

**`RegistrationsInv`.**  The refinement mapping reads a transaction's verdict off the final
block at its nonce, so it needs that a recorded transaction can be nowhere else: the
chain takes the key's transactions in the order of their nonces (`SlotsInv`, kept by
foreign ones and by a reorganisation, which only cuts off an end).  `DecidedInv` says that
a decided row says what its final block says: it makes a block that becomes final one
whose row is still open, and it is kept because a process that judges a receipt compares
it with the final chain at that moment (`Settled`), however long ago it was read.  A
block that is not final is invisible in the mapping (`Loose`): mining, eviction and
reorganisation are stutters.

**`DailyInv`.**  `DailyFees` compares a sum over mined transactions with a ceiling that
the signer compares with a sum over jobs.  What links the two: a transaction mined in the
last day belongs to a job that still *holds* its envelope, because it is not done or was
done less than a day ago (`Holding`, as `readLiability` counts); there are at most two
such transactions of a job, and its envelope covers both.  `LiabilityInv` says that what
is held stays within `Daily`: only a signature makes a job hold an envelope, under the
lock and after the comparison.  `DayInv` is the link: a job is done no earlier than what
was mined for it (`DoneInv`, `TimesInv`), and nothing is mined for it afterwards, since
both its transactions are final by then (`NotDone`; `OrderInv`: an update is signed only
once its registration is final).  The sums range over finite sets because only finitely
many agents were ever enrolled (`ListedInv`).  What they need (a sum over a part, over a
union, over pairs covered one by one) is proved in `IdentityFeeProofs` by induction on
the finite set: the strict subsets of a finite set are well-founded, so a family of
subsets that is not empty has a minimal one.

**`HireInv`.**  A row is written by compare-and-set on its version, but what a task *did*
before that write (arming, draining, signing out) is not undone when the write loses.  So
the invariant says of each copy of a row what it still implies of the stored one, whoever
wrote in between (`Follows`: a hire whose gate passed keeps its facts, what is over stays
over, what is ending stays so), and of a copy whose version is current that it is the
row (`Matches`).  `Sound` is what a row implies of the world outside it: age, agent,
drain, session; it bounds a wrong wallet status by the number of wrong answers so far.
`Placed` says what a task has told or seen at the place where it is; a sign-out is safe
because a task is there only with a row that is over or ending, when no claimed order
can be young.

**`AgentsInv`.**  `HireInv` says nothing of a row that is bound without an agent, nor of an
agent revoked before that, and neither can be told from the row alone: `createAgent` and
the write of `bound` are two steps, and another task may stand between them with an older
copy.  `AgentsInv` adds that a row that is bound, or was, has its agent and that only such
a row's agent is revoked; and of a task's copy that it does not run ahead of the row
(`Served`: a copy that says bound, ending or ended means that the row is one of these),
and that a task which is about to bind knows that the agent exists.  Both only move on
(`Onward`), so that one lemma keeps the memory of every task that does not move.  In the
refinement a write that loses its compare-and-set is a stutter, and one that wins moves
one pairing along an edge of `Transitions`; that the edge is the one the promise allows
follows from what `HireInv` says of a copy that is current.  The unique index gives the
guard of `Hire`, the bound on misreadings that of `End`.

Only model-checked:

* Every liveness property, which is out of the prover's reach together with `ENABLED`:
  `OrderSettles`, `Settles`, `CatchesUp`, `PairingsDecided`, `HiresEnd`, `DecidedSettles`,
  `SellsSettle`, `ExitsBooked`, `RevokedConverges`.
* The finding, which is a violation.

## 5. Plan

Done: `AgenticLease`, `AgenticFence`, `AgenticDispatch`, `AgenticSwapLedger`,
`IdentityMinter`, `AgentRegistrations`, `AgenticHire`, `WalletHires`, `TradeLots`, and
`AltanaTrade` with the journal's rows of a trade; a proof of every safety property that
their runs check and of the refinements.

Next, in this order.

1. Two trade workers that overlap, as nothing forbids, and the reconcile pass that throws
   (`journal.ts:3056`), as runs of `AltanaTrade` that show the violation.
2. `AgenticDca`, `AgenticEarn`: rounds and earn orders over the fence and the claim of
   `AgenticFence`, with `store/dcaRounds.ts`; then the portfolio and schedule lanes.
3. `OwnerNonces` (nonces, replay rows, pruning, two clocks), `SwapGuard` and
   `BillingCollector` (a token that calls back), `WorkerSingleton`.
4. `Provisioning`, billing generations and the sagas of `lp`, as far as they go.

## 6. Not modelled

The rest of the repository, with the reason for each part, is in `PROJECT.json`
(`components`): most of its lines are tables of addresses and calls, compilers of
transactions, model prompts, a front end and HTTP plumbing, which have no protocol state,
and the sagas of `lp`, lending, Venus, quant and billing, each a system of the size of all
that is modelled here.
