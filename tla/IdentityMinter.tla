--------------------------- MODULE IdentityMinter ---------------------------
(***************************************************************************)
(* The ERC-8004 identity worker (src/src/identity, src/src/store/erc8004): *)
(* one platform key, the minter, registers each enrolled agent with two    *)
(* transactions, register and then the update of its URI, signed one at a  *)
(* time into a ledger in the database before they are broadcast.           *)
(*                                                                         *)
(* Worker daemons and one-agent runs exclude each other by an advisory     *)
(* lock of a database session.  A process whose session broke does not     *)
(* know it at once and goes on beside the next holder.  ledger.atomic is a *)
(* transaction under the minter's row lock: one step.  Gas and price are   *)
(* one number, a cost; 0 stands for a null amount or time of a job.        *)
(***************************************************************************)
EXTENDS Integers, Sequences, FiniteSets, FiniteSetsExt

CONSTANTS
  Agents,    \* numbered in the order of their public refs
  Procs,     \* processes of the identity worker and of the run command
  Target,    \* the agent of a run; None for a worker
  Instance,  \* a process's fee ceiling for one agent, a run's approval included
  Limit,     \* a process's maxGas times maxPrice
  Daily,     \* maxDailyFee
  Costs,     \* what a transaction may be estimated to cost
  Funds,     \* what the minter's balance may be read as
  Outcomes,  \* of a mined transaction: "success", perhaps "reverted"
  Ids,       \* what the registry may assign
  Mortal,    \* processes that may crash
  Lossy,     \* processes whose database session may break unnoticed
  Day, Horizon,     \* 24 hours in ticks; the clock's bound
  Foreign, Reorgs,  \* bounds: transactions of the key not made here; reorganisations
  None

Phases == {"register", "update"}

\* The rows of the tables, a transaction's bytes, an entry of the chain, and what a
\* process remembers between two steps.
Statuses == {"none", "pending", "registering", "updating", "registered", "blocked"}
Codes == {None, "fee_limit", "nonce_conflict", "other"}
Source == [status : Statuses, error : Codes, reg : BOOLEAN, upd : BOOLEAN, id : Ids \cup {None}, existing : Ids \cup {None}]
Job == [status : Statuses \ {"none"}, error : Codes, reg : BOOLEAN, upd : BOOLEAN,
        minted : Ids \cup {None}, env : Nat, ceiling : Nat, updLimit : Nat, done : Nat]
Key == Agents \X Phases
TxRow == [nonce : Nat, cost : Costs, out : {"open", "success", "reverted"}]
TxBytes == [key : Key, nonce : Nat, cost : Costs]
Entry == [tx : TxBytes \cup {None}, out : {"success", "reverted"}, id : Ids \cup {None}, time : Nat]
Receipts == [pos : Nat, entry : Entry]
Quotes == [latest : Nat, pending : Nat, cost : Costs, funds : Funds]

ASSUME MinterAssumption ==
  /\ Agents \subseteq Nat /\ Mortal \subseteq Procs /\ Lossy \subseteq Procs
  /\ Target \in [Procs -> Agents \cup {None}]
  /\ Instance \in [Procs -> Nat \ {0}] /\ Limit \in [Procs -> Nat \ {0}]
  /\ Costs \subseteq Nat \ {0} /\ Funds \subseteq Nat /\ Outcomes \subseteq {"success", "reverted"}
  /\ {Daily, Day, Horizon, Foreign, Reorgs} \subseteq Nat
  /\ None \notin Agents \cup Procs \cup Ids
\* None is null: no row, no transaction, no code.
ASSUME NullAssumption ==
  /\ None \notin Job /\ None \notin TxRow /\ None \notin TxBytes /\ None \notin Receipts /\ None \notin Quotes
  /\ None \notin {"fee_limit", "nonce_conflict", "other"}

VARIABLES
  source,  \* agents.erc8004_identity and erc8004_agent_id
  jobs,    \* erc8004_jobs
  txs,     \* erc8004_transactions, by job and phase
  next,    \* erc8004_nonces.next_nonce
  fence,   \* the session that holds the advisory lock
  task,    \* where each process is, and what it remembers
  chain,   \* the minter's mined transactions, the finalized length, the node's pool
  clock, foreign, reorgs

vars == <<source, jobs, txs, next, fence, task, chain, clock, foreign, reorgs>>
ledger == <<jobs, txs, next>>
world == <<chain, clock, foreign, reorgs>>
-----------------------------------------------------------------------------
(* The ledger.                                                             *)

NewJob == [status |-> "pending", error |-> None, reg |-> FALSE, upd |-> FALSE, minted |-> None,
           env |-> 0, ceiling |-> 0, updLimit |-> 0, done |-> 0]

Enrolled == {a \in Agents : jobs[a] # None}
Recorded == {k \in Agents \X Phases : txs[k] # None}
Open == {k \in Recorded : txs[k].out = "open"}

\* A transaction's bytes, and so its hash, are these facts of its row.
Tx(k) == [key |-> k, nonce |-> txs[k].nonce, cost |-> txs[k].cost]

\* Mutant: a completed job's envelope is free at once.
HeldUntilDone(a) == jobs[a].env # 0 /\ jobs[a].done = 0

\* dailyLiability: envelopes count until a day after their job completed.
Held(a) == jobs[a].env # 0 /\ (jobs[a].done = 0 \/ clock < jobs[a].done + Day)
Liability == MapThenSumSet(LAMBDA a : jobs[a].env, {a \in Enrolled : Held(a)})

Smaller(x, y) == IF x < y THEN x ELSE y

\* The effective ceiling of a job for a process: approvals only shrink.
Effective(p, j) == IF j.ceiling = 0 THEN Instance[p] ELSE Smaller(Instance[p], j.ceiling)
-----------------------------------------------------------------------------
(* Processes.                                                              *)

At(pc) == [at |-> pc, a |-> None, job |-> None, tx |-> None, send |-> TRUE,
           over |-> FALSE, seen |-> None, quote |-> None, code |-> None]

Goto(p, pc) == task' = [task EXCEPT ![p].at = pc]
Fail(p, code) == task' = [task EXCEPT ![p] = [At("block") EXCEPT !.a = task[p].a, !.code = code]]
Look(p) == task' = [task EXCEPT ![p] = [At("reread") EXCEPT !.a = task[p].a, !.over = task[p].over]]
End(p) == task' = [task EXCEPT ![p] = At("done")]

InScope(p, a) == Target[p] \in {None, a}

Acquire(p) ==
  /\ task[p].at = "off" /\ fence = None
  /\ fence' = p /\ task' = [task EXCEPT ![p] = At("discover")]
  /\ UNCHANGED <<source, ledger, world>>

\* The loop of a daemon, or the end of a run: the lock goes with the session.
LoopOrExit(p) ==
  /\ task[p].at = "done"
  /\ \/ task' = [task EXCEPT ![p] = At("discover")] /\ UNCHANGED fence
     \/ /\ task' = [task EXCEPT ![p] = At("off")]
        /\ fence' = IF fence = p THEN None ELSE fence
  /\ UNCHANGED <<source, ledger, world>>

\* discover: every enrolled agent without a job gets one.
Discover(p) ==
  /\ task[p].at = "discover"
  /\ jobs' = [a \in Agents |-> IF jobs[a] = None /\ InScope(p, a) /\ source[a].status = "pending"
                               THEN NewJob ELSE jobs[a]]
  /\ Goto(p, IF Target[p] # None /\ source[Target[p]].status = "none" THEN "done" ELSE "reproject")
  /\ UNCHANGED <<source, txs, next, fence, world>>

\* Mutant: an id is published as soon as it is minted.
ViewMinted(a, j) == [status |-> j.status, error |-> j.error, reg |-> j.reg, upd |-> j.upd, id |-> j.minted,
                     existing |-> IF j.minted # None THEN j.minted ELSE source[a].existing]

\* What #project writes of a job, and when it may.
View(a, j) == [status |-> j.status, error |-> j.error, reg |-> j.reg, upd |-> j.upd, id |-> j.minted,
               existing |-> IF j.status = "registered" THEN j.minted ELSE source[a].existing]
Projectable(a, j) == source[a].existing \in {None, j.minted}

\* Mutant: the jobs not yet completed are projected again.
LaggingNever(p) == {a \in Enrolled : InScope(p, a) /\ jobs[a].done = 0 /\ jobs[a].status = "registered"}

\* discover: completed jobs whose source lags are projected again, if they may be.
Lagging(p) == {a \in Enrolled : /\ InScope(p, a) /\ jobs[a].done # 0
                                /\ Projectable(a, jobs[a]) /\ source[a] # View(a, jobs[a])}
Reproject(p) ==
  /\ task[p].at = "reproject"
  /\ \/ \E a \in Lagging(p) : source' = [source EXCEPT ![a] = View(a, jobs[a])] /\ UNCHANGED task
     \/ Lagging(p) = {} /\ Goto(p, "step") /\ UNCHANGED source
  /\ UNCHANGED <<ledger, fence, world>>

\* #project, the read of the source and its compare-and-set: that finds another's write
\* only where a session may break, and then the holder of the lock may lose it as well as
\* the process that lost the lock.
Project(p) ==
  /\ task[p].at \in {"project", "project-blocked"}
  /\ LET a == task[p].a  j == task[p].job
     IN  \/ /\ Projectable(a, j)
            /\ source' = [source EXCEPT ![a] = View(a, j)]
            /\ End(p)
         \/ /\ ~Projectable(a, j) \/ Lossy # {}
            /\ IF task[p].at = "project" THEN Fail(p, "other") ELSE End(p)
            /\ UNCHANGED source
  /\ UNCHANGED <<ledger, fence, world>>

\* #block: a completed job keeps its evidence.
Block(p) ==
  /\ task[p].at = "block"
  /\ LET a == task[p].a
         j == IF jobs[a].done = 0
              THEN [jobs[a] EXCEPT !.status = "blocked", !.error = task[p].code] ELSE jobs[a]
     IN  /\ jobs' = [jobs EXCEPT ![a] = j]
         /\ task' = [task EXCEPT ![p] = [At("project-blocked") EXCEPT !.a = a, !.job = j]]
  /\ UNCHANGED <<source, txs, next, fence, world>>
-----------------------------------------------------------------------------
(* step: which job, and within which limits.                               *)

\* Mutant: a blocked job stays in the queue.
CandidateBlocked(p) ==
  IF Open # {} THEN {k[1] : k \in Open}
  ELSE IF Target[p] # None THEN {Target[p]} \cap Enrolled
  ELSE LET waiting == {a \in Enrolled : jobs[a].status # "registered"}
       IN  {a \in waiting : \A b \in waiting : a <= b}

\* The job of the outstanding transaction, else the run's own, else the first unsettled.
Candidate(p) ==
  IF Open # {} THEN {k[1] : k \in Open}
  ELSE IF Target[p] # None THEN {Target[p]} \cap Enrolled
  ELSE LET waiting == {a \in Enrolled : jobs[a].status \notin {"registered", "blocked"}}
       IN  {a \in waiting : \A b \in waiting : a <= b}

\* A refusal for its fee that left no evidence is tried again, by a run.
Retryable(j) == j.error = "fee_limit" /\ ~j.reg /\ ~j.upd /\ j.env = 0

OpenOf(a) == {k \in Open : k[1] = a}
OverSpent(p, j) == j.env # 0 /\ j.status # "registered" /\ (j.env > Effective(p, j) \/ Liability > Daily)
Shrinks(p, j) == j.env # 0 /\ j.status # "registered" /\ ~OverSpent(p, j) /\ Effective(p, j) < j.ceiling

\* Where step goes with a job and its outstanding transaction.
Ahead(job, tx, over) ==
  IF job.status = "registered" THEN "reread" ELSE IF tx # None THEN "receipt"
  ELSE IF over THEN "block" ELSE "quote"

Select(p) ==
  /\ task[p].at = "step"
  /\ \/ /\ \A a \in Candidate(p) : ~InScope(p, a)
        /\ End(p) /\ UNCHANGED jobs
     \/ \E a \in {b \in Candidate(p) : InScope(p, b)} :
          LET j == jobs[a]
              tx == IF OpenOf(a) = {} THEN None ELSE Tx(CHOOSE k \in OpenOf(a) : TRUE)
              over == OverSpent(p, j)
              here == [At("step") EXCEPT !.a = a, !.job = j, !.tx = tx, !.over = over,
                        !.send = j.status # "blocked" /\ ~over, !.code = IF over THEN "fee_limit" ELSE None]
          IN  IF j.status = "blocked" /\ tx = None
              THEN IF Retryable(j)
                   THEN /\ jobs' = [jobs EXCEPT ![a] = [@ EXCEPT !.status = "pending", !.error = None]]
                        /\ task' = [task EXCEPT ![p] = [here EXCEPT !.at = "quote", !.job = jobs'[a]]]
                   ELSE /\ task' = [task EXCEPT ![p] = [At("project-blocked") EXCEPT !.a = a, !.job = j]]
                        /\ UNCHANGED jobs
              ELSE /\ task' = [task EXCEPT ![p] = [here EXCEPT !.at =
                                 IF Shrinks(p, j) THEN "shrink" ELSE Ahead(j, tx, over)]]
                   /\ UNCHANGED jobs
  /\ UNCHANGED <<source, txs, next, fence, world>>

\* A lower ceiling is kept; the ledger refuses one that another process undercut.
Shrink(p) ==
  /\ task[p].at = "shrink"
  /\ LET a == task[p].a  low == Effective(p, task[p].job)
     IN  IF jobs[a].ceiling < low
         THEN Fail(p, "fee_limit") /\ UNCHANGED jobs
         ELSE /\ jobs' = [jobs EXCEPT ![a].ceiling = low]
              /\ Goto(p, Ahead(task[p].job, task[p].tx, FALSE))
  /\ UNCHANGED <<source, txs, next, fence, world>>

\* The read after the gateway's work: project what the ledger now says.
Reread(p) ==
  /\ task[p].at = "reread"
  /\ LET j == jobs[task[p].a]
     IN  IF task[p].over /\ j.status # "registered" THEN Fail(p, "fee_limit")
         ELSE task' = [task EXCEPT ![p] = [At("project") EXCEPT !.a = task[p].a, !.job = j]]
  /\ UNCHANGED <<source, ledger, fence, world>>
-----------------------------------------------------------------------------
(* #prepare: quote, sign into the ledger, broadcast.                       *)

Height == Len(chain.mined)
Pending == IF \E t \in chain.pool : t.nonce = Height THEN Height + 1 ELSE Height

PhaseOf(j) == IF j.reg THEN "update" ELSE "register"

Quote(p) ==
  /\ task[p].at = "quote"
  /\ LET j == task[p].job
     IN  IF j.reg /\ (j.minted = None \/ j.upd) THEN Fail(p, "other")
         ELSE \E c \in Costs, f \in Funds :
                IF c > Limit[p] THEN Fail(p, "fee_limit")
                ELSE task' = [task EXCEPT ![p].at = "sign", ![p].quote =
                                [latest |-> Height, pending |-> Pending, cost |-> c, funds |-> f]]
  /\ UNCHANGED <<source, ledger, fence, world>>

\* Mutant: only an outstanding transaction stands in the way of a new one.
ConflictsOpen(k) == Open # {}

Conflicts(k) == Open # {} \/ txs[k] # None
NonceClashes(q) == q.latest # q.pending \/ next \notin {None, q.latest}

\* The envelope of a job covers both transactions and is fixed when it registers.
Envelope(p, k, q) == IF k[2] = "register" THEN q.cost + Limit[p] ELSE jobs[k[1]].env
\* Mutant: the update is not held to what the envelope left for it.
OverspendsFirst(p, k, q) ==
  LET env == Envelope(p, k, q)
  IN  env > Effective(p, jobs[k[1]]) \/ Liability + (IF k[2] = "register" THEN env ELSE 0) > Daily

Overspends(p, k, q) ==
  LET j == jobs[k[1]]  env == Envelope(p, k, q)
  IN  \/ env > Effective(p, j)
      \/ Liability + (IF k[2] = "register" THEN env ELSE 0) > Daily
      \/ k[2] = "update" /\ (q.cost > j.updLimit \/ q.cost + txs[<<k[1], "register">>].cost > env)
Unfunded(p, k, q) == q.funds < IF k[2] = "register" THEN Envelope(p, k, q) ELSE q.cost
Unregistered(k) == k[2] = "update" /\ txs[<<k[1], "register">>].out # "success"

Refusal(p, k, q) ==
  IF Conflicts(k) THEN "other" ELSE IF NonceClashes(q) THEN "nonce_conflict"
  ELSE IF Unregistered(k) THEN "other" ELSE IF Overspends(p, k, q) THEN "fee_limit"
  ELSE IF Unfunded(p, k, q) THEN "other" ELSE None

\* The atomic part: envelope, nonce and signed intent are one write.
Sign(p) ==
  /\ task[p].at = "sign"
  /\ LET a == task[p].a  q == task[p].quote  k == <<a, PhaseOf(task[p].job)>>  j == jobs[a]
         first == k[2] = "register"
     IN  IF Refusal(p, k, q) # None THEN Fail(p, Refusal(p, k, q)) /\ UNCHANGED ledger
         ELSE /\ txs' = [txs EXCEPT ![k] = [nonce |-> q.latest, cost |-> q.cost, out |-> "open"]]
              /\ next' = q.latest + 1
              /\ jobs' = [jobs EXCEPT ![a] =
                   [j EXCEPT !.status = IF first THEN "registering" ELSE "updating", !.error = None,
                             !.reg = TRUE, !.upd = ~first, !.env = Envelope(p, k, q),
                             !.ceiling = Effective(p, j),
                             !.updLimit = IF j.updLimit = 0 THEN Limit[p] ELSE j.updLimit]]
              /\ task' = [task EXCEPT ![p].at = "broadcast", ![p].quote = None,
                            ![p].tx = [key |-> k, nonce |-> q.latest, cost |-> q.cost]]
  /\ UNCHANGED <<source, fence, world>>

\* A node refuses a used nonce; an answer may be lost after the node took the bytes.
Broadcast(p) ==
  /\ task[p].at = "broadcast"
  /\ \/ /\ task[p].tx.nonce >= Height
        /\ chain' = [chain EXCEPT !.pool = @ \cup {task[p].tx}]
        /\ Look(p) \/ End(p)
     \/ task[p].tx.nonce < Height /\ End(p) /\ UNCHANGED chain
  /\ UNCHANGED <<source, ledger, fence, clock, foreign, reorgs>>
-----------------------------------------------------------------------------
(* #reconcile: what became of the outstanding transaction.                 *)

Mined(t) == {i \in DOMAIN chain.mined : chain.mined[i].tx = t}

Receipt(p) ==
  /\ task[p].at = "receipt"
  /\ LET t == task[p].tx
     IN  \/ \E i \in Mined(t) :
              task' = [task EXCEPT ![p].at = "judge", ![p].seen = [pos |-> i, entry |-> chain.mined[i]]]
         \/ /\ Mined(t) = {}
            /\ IF ~task[p].send THEN Look(p)
               ELSE IF t.cost > Limit[p] THEN Fail(p, "other") ELSE Goto(p, "nonces")
  /\ UNCHANGED <<source, ledger, fence, world>>

\* Without a receipt: the nonces, read after it, decide whether it is sent again.
Nonces(p) ==
  /\ task[p].at = "nonces"
  /\ IF Height > task[p].tx.nonce \/ Pending > task[p].tx.nonce + 1
     THEN Fail(p, "nonce_conflict") ELSE Goto(p, "broadcast")
  /\ UNCHANGED <<source, ledger, fence, world>>

\* Mutant: a mined receipt is as good as a final one.
SettledMined(s) == s.pos <= Height /\ chain.mined[s.pos] = s.entry

\* Final: the block is not past the finalized one, and is the one the receipt names.
Settled(s) == s.pos <= chain.final /\ chain.mined[s.pos] = s.entry

\* The ledger keeps what was finalized: a second time differs in its time and is refused.
Finalized(k, out) == txs[k].out = "open" /\ txs' = [txs EXCEPT ![k].out = out]

Judge(p) ==
  /\ task[p].at = "judge"
  /\ LET s == task[p].seen  k == task[p].tx.key
     IN  \/ ~Settled(s) /\ Look(p) /\ UNCHANGED txs
         \/ /\ Settled(s) /\ s.entry.out = "reverted"
            /\ Fail(p, "other")
            /\ \/ Finalized(k, "reverted")
               \/ txs[k].out # "open" /\ UNCHANGED txs
         \/ /\ Settled(s) /\ s.entry.out = "success"
            /\ Goto(p, IF k[2] = "register" /\ task[p].job.minted = None THEN "mint" ELSE "settle")
            /\ UNCHANGED txs
  /\ UNCHANGED <<source, jobs, next, fence, world>>

\* Mutant: evidence unblocks the job.
UnblockedAlways(j) == [j EXCEPT !.status = "updating"]

Unblocked(j) == IF j.status = "blocked" THEN j ELSE [j EXCEPT !.status = "updating"]

\* The id is kept even if the reads that follow fail.
Mint(p) ==
  /\ task[p].at = "mint"
  /\ LET a == task[p].a  id == task[p].seen.entry.id
     IN  IF jobs[a].minted \in {None, id} /\ jobs[a].done = 0
         THEN /\ jobs' = [jobs EXCEPT ![a] = [Unblocked(@) EXCEPT !.minted = id]]
              /\ Goto(p, "settle")
         ELSE Fail(p, "other") /\ UNCHANGED jobs
  /\ UNCHANGED <<source, txs, next, fence, world>>

Settle(p) ==
  /\ task[p].at = "settle"
  /\ LET a == task[p].a  k == task[p].tx.key
     IN  \/ /\ Finalized(k, "success")
            /\ jobs' = [jobs EXCEPT ![a] =
                 IF k[2] = "register" THEN Unblocked(@)
                 ELSE [@ EXCEPT !.status = "registered", !.error = None, !.done = clock]]
            /\ Look(p)
         \/ txs[k].out # "open" /\ Fail(p, "other") /\ UNCHANGED <<jobs, txs>>
  /\ UNCHANGED <<source, next, fence, world>>

\* An RPC error anywhere in the gateway's work ends the step without a verdict.
Unavailable(p) ==
  /\ task[p].at \in {"quote", "broadcast", "receipt", "nonces", "judge", "settle"}
  /\ End(p)
  /\ UNCHANGED <<source, ledger, fence, world>>
-----------------------------------------------------------------------------
(* Enrolment, lost sessions, crashes, the operator's resync.               *)

Enroll(a) ==
  /\ source[a].status = "none"
  /\ source' = [source EXCEPT ![a].status = "pending"]
  /\ UNCHANGED <<ledger, fence, task, world>>

\* The session breaks: the database frees the lock, the process does not know yet.
SessionBreaks(p) ==
  /\ p \in Lossy /\ fence = p
  /\ fence' = None /\ UNCHANGED <<source, ledger, task, world>>

\* fence.check fails: the process stops.
LockLost(p) ==
  /\ task[p].at # "off" /\ fence # p
  /\ task' = [task EXCEPT ![p] = At("off")]
  /\ UNCHANGED <<source, ledger, fence, world>>

Crash(p) ==
  /\ p \in Mortal /\ task[p].at # "off"
  /\ task' = [task EXCEPT ![p] = At("off")]
  /\ fence' = IF fence = p THEN None ELSE fence
  /\ UNCHANGED <<source, ledger, world>>

\* resyncIdentityNonce: past a gap another user of the key left, if nothing is
\* outstanding; jobs refused for it that have no evidence may try again.
Cleared(a) ==
  /\ jobs[a] # None /\ jobs[a].error = "nonce_conflict" /\ ~jobs[a].reg
  /\ source[a].error = "nonce_conflict" /\ source[a].existing = None /\ ~source[a].reg
Resync ==
  /\ fence = None /\ Open = {}
  /\ next # None /\ next < Height /\ Pending = Height
  /\ next' = Height
  /\ jobs' = [a \in Agents |-> IF Cleared(a) THEN [jobs[a] EXCEPT !.status = "pending", !.error = None] ELSE jobs[a]]
  /\ source' = [a \in Agents |-> IF Cleared(a) THEN [source[a] EXCEPT !.status = "pending", !.error = None] ELSE source[a]]
  /\ UNCHANGED <<txs, fence, task, world>>
-----------------------------------------------------------------------------
(* The chain, as the minter's account sees it: mined[i] has nonce i - 1.   *)

Taken == {chain.mined[i].id : i \in DOMAIN chain.mined}

Extend(e) == [chain EXCEPT !.mined = Append(@, e), !.pool = {u \in @ : u.nonce > Height}]

Mine(t) ==
  /\ t \in chain.pool /\ t.nonce = Height
  /\ \E out \in Outcomes, id \in (Ids \ Taken) \cup {None} :
       /\ (id # None) <=> (t.key[2] = "register" /\ out = "success")
       /\ chain' = Extend([tx |-> t, out |-> out, id |-> id, time |-> clock])
  /\ UNCHANGED <<source, ledger, fence, task, clock, foreign, reorgs>>

MineForeign ==
  /\ foreign < Foreign /\ foreign' = foreign + 1
  /\ chain' = Extend([tx |-> None, out |-> "success", id |-> None, time |-> clock])
  /\ UNCHANGED <<source, ledger, fence, task, clock, reorgs>>

Evict(t) ==
  /\ t \in chain.pool
  /\ chain' = [chain EXCEPT !.pool = @ \ {t}]
  /\ UNCHANGED <<source, ledger, fence, task, clock, foreign, reorgs>>

\* Blocks that are not final go; their transactions may be pooled again or not.
Reorg ==
  /\ reorgs < Reorgs /\ reorgs' = reorgs + 1
  /\ \E n \in chain.final .. (Height - 1) :
       LET gone == {chain.mined[i].tx : i \in (n + 1) .. Height} \ {None}
       IN  \E back \in SUBSET gone :
             chain' = [chain EXCEPT !.mined = SubSeq(@, 1, n), !.pool = @ \cup back]
  /\ UNCHANGED <<source, ledger, fence, task, clock, foreign>>

Finalize ==
  /\ chain.final < Height
  /\ chain' = [chain EXCEPT !.final = @ + 1]
  /\ UNCHANGED <<source, ledger, fence, task, clock, foreign, reorgs>>

Tick ==
  /\ clock < Horizon /\ clock' = clock + 1
  /\ UNCHANGED <<source, ledger, fence, task, chain, foreign, reorgs>>
-----------------------------------------------------------------------------
Init ==
  /\ source = [a \in Agents |-> [status |-> "none", error |-> None, reg |-> FALSE, upd |-> FALSE,
                                 id |-> None, existing |-> None]]
  /\ jobs = [a \in Agents |-> None]
  /\ txs = [k \in Agents \X Phases |-> None]
  /\ next = None /\ fence = None
  /\ task = [p \in Procs |-> At("off")]
  /\ chain = [mined |-> <<>>, final |-> 0, pool |-> {}]
  /\ clock = 1 /\ foreign = 0 /\ reorgs = 0

Work(p) ==
  \/ Acquire(p) \/ LoopOrExit(p) \/ Discover(p) \/ Reproject(p) \/ Select(p) \/ Shrink(p)
  \/ Quote(p) \/ Sign(p) \/ Broadcast(p) \/ Receipt(p) \/ Nonces(p) \/ Judge(p)
  \/ Mint(p) \/ Settle(p) \/ Reread(p) \/ Project(p) \/ Block(p)

Next ==
  \/ \E p \in Procs : Work(p) \/ Unavailable(p) \/ SessionBreaks(p) \/ LockLost(p) \/ Crash(p)
  \/ \E a \in Agents : Enroll(a)
  \/ Resync
  \/ \E t \in chain.pool : Mine(t) \/ Evict(t)
  \/ MineForeign \/ Reorg \/ Finalize \/ Tick

Spec == Init /\ [][Next]_vars

\* Steady processes run on and the lock of a dead one is freed in the end; the RPC node
\* answers now and then; a transaction sent again and again is mined; blocks become final.
Fairness ==
  /\ \A p \in Procs \ Mortal :
       /\ WF_vars(LoopOrExit(p) \/ Discover(p) \/ Reproject(p) \/ Select(p) \/ Shrink(p)
                  \/ Mint(p) \/ Reread(p) \/ Project(p) \/ Block(p))
       /\ SF_vars(Acquire(p)) /\ SF_vars(Quote(p)) /\ WF_vars(Sign(p)) /\ SF_vars(Broadcast(p))
       /\ SF_vars(Receipt(p)) /\ SF_vars(Nonces(p)) /\ SF_vars(Judge(p)) /\ SF_vars(Settle(p))
  /\ \A p \in Mortal : WF_vars(Crash(p))
  /\ SF_vars(\E t \in chain.pool : Mine(t)) /\ WF_vars(Finalize)

FairSpec == Spec /\ Fairness
-----------------------------------------------------------------------------
(* Properties.                                                             *)

Places == {"off", "discover", "reproject", "step", "shrink", "quote", "sign", "broadcast", "receipt",
           "nonces", "judge", "mint", "settle", "reread", "project", "block", "project-blocked", "done"}
TaskType == [at : Places, a : Agents \cup {None}, job : Job \cup {None}, tx : TxBytes \cup {None},
             send : BOOLEAN, over : BOOLEAN, seen : Receipts \cup {None}, quote : Quotes \cup {None}, code : Codes]

\* Every variable keeps its type, and a job is blocked exactly when it has an error.
TypeOK ==
  /\ source \in [Agents -> Source] /\ jobs \in [Agents -> Job \cup {None}] /\ txs \in [Key -> TxRow \cup {None}]
  /\ \A a \in Enrolled : (jobs[a].status = "blocked") <=> (jobs[a].error # None)
  /\ next \in Nat \cup {None} /\ fence \in Procs \cup {None}
  /\ task \in [Procs -> TaskType]
  /\ chain \in [mined : Seq(Entry), final : Nat, pool : SUBSET TxBytes] /\ chain.final <= Height
  /\ clock \in Nat /\ foreign \in Nat /\ reorgs \in Nat

\* Nothing is on the chain or in a pool that the ledger does not hold: whatever crashed,
\* lost its lock or was refused, a signature that was sent is the one of its job and phase,
\* so no agent is registered twice (service.ts: the write precedes the broadcast).
Published == chain.pool \cup ({chain.mined[i].tx : i \in DOMAIN chain.mined} \ {None})
PublishedIsRecorded == Published \subseteq {Tx(k) : k \in Recorded}

\* A source names a registered id only if the final chain holds that registration and the
\* update of its URI; a job's minted id is final (service.ts: finalized, blockHash).
OnChain(k, id) == \E i \in 1 .. chain.final : /\ chain.mined[i].tx = Tx(k)
                                              /\ chain.mined[i].out = "success" /\ chain.mined[i].id = id
RegisteredIsFinal ==
  /\ \A a \in Enrolled : jobs[a].minted # None => OnChain(<<a, "register">>, jobs[a].minted)
  /\ \A a \in Agents : source[a].existing # None =>
       /\ OnChain(<<a, "register">>, source[a].existing) /\ OnChain(<<a, "update">>, None)

\* The abstract registrations this worker implements: the row of a transaction, and the
\* final block at its nonce.
Registered(k) == IF k \in Recorded THEN txs[k].out ELSE "unsigned"
Slot(k) == txs[k].nonce + 1
InFinal(k) == k \in Recorded /\ Slot(k) <= chain.final /\ chain.mined[Slot(k)].tx = Tx(k)
Outcome(k) == IF InFinal(k) THEN chain.mined[Slot(k)].out ELSE "open"
MintedId(a) == IF Outcome(<<a, "register">>) = "success" THEN chain.mined[Slot(<<a, "register">>)].id ELSE None

Registrations == INSTANCE AgentRegistrations WITH
  ledger <- [k \in Key |-> Registered(k)],
  final <- [k \in Key |-> Outcome(k)],
  minted <- [a \in Agents |-> MintedId(a)],
  public <- [a \in Agents |-> source[a].existing]

\* Whoever holds the lock, crashes or judges a chain that reorganises: the ledger decides
\* what the final chain has decided, an update follows a final registration, nothing is
\* signed beside what is undecided, and a published id stays.
ImplementsRegistrations == Registrations!Spec

\* The fees of any day on the chain stay within the daily ceiling, whatever the number of
\* processes: the envelopes that dailyLiability holds cover what may still be mined.
Fees(S) == MapThenSumSet(LAMBDA i : chain.mined[i].tx.cost, S)
Today == {i \in DOMAIN chain.mined : chain.mined[i].tx # None /\ chain.mined[i].time > clock - Day}
DailyFees == Fees(Today) <= Daily

\* What was signed for an agent never exceeds the lowest ceiling its job was approved with.
ApprovedFees ==
  \A a \in Enrolled :
    MapThenSumSet(LAMBDA k : txs[k].cost, {k \in Recorded : k[1] = a}) <= jobs[a].ceiling

\* Every enrolled agent is in the end registered, or blocked with a reason.
Settles == \A a \in Agents :
  source[a].status = "pending" ~> jobs[a] # None /\ jobs[a].status \in {"registered", "blocked"}

\* A completed job reaches the agent's record, whatever was lost on the way.
CatchesUp == \A a \in Agents :
  jobs[a] # None /\ jobs[a].done # 0 ~> source[a].status = "registered" /\ source[a].existing = jobs[a].minted

\* README.md:26 and 88: every running agent gets its own ERC-8004 identity.
EveryAgentRegistered == \A a \in Agents : source[a].status = "pending" ~> source[a].status = "registered"
=============================================================================
