----------------------------- MODULE TradeLots -----------------------------
(***************************************************************************)
(* What the trade worker promises of an agent's trades: what is given out  *)
(* is settled as what became of it, a lot is what a buy brought, and it is *)
(* sold once.  AltanaTrade implements this specification under the mapping *)
(* written there; no journal, relay, pass or restart is left in it.        *)
(***************************************************************************)
CONSTANTS Buys, Sells, None

VARIABLES
  phase,   \* a trade: none, out, booked, dropped, or given up (a sell whose key is dead)
  landed,  \* the trades that landed on the chain
  of,      \* the lot a sell is of
  lot      \* what a buy brought: none, open, orphaned, gone, sold
lots == <<phase, landed, of, lot>>

Trades == Buys \cup Sells

Init ==
  /\ phase = [t \in Trades |-> "none"] /\ landed = {}
  /\ of = [s \in Sells |-> None] /\ lot = [b \in Buys |-> "none"]

Turn(t, from, to) == phase[t] = from /\ phase' = [phase EXCEPT ![t] = to]
SalesOf(b) == {s \in Sells : of[s] = b}

Buy(b) == Turn(b, "none", "out") /\ UNCHANGED <<landed, of, lot>>

\* A lot is not offered again while a sale of it is out, nor once one landed.
Sell(s, b) ==
  /\ lot[b] = "open" /\ \A r \in SalesOf(b) : phase[r] # "out" /\ r \notin landed
  /\ Turn(s, "none", "out") /\ of' = [of EXCEPT ![s] = b] /\ UNCHANGED <<landed, lot>>

\* Only what is out may land: not what was dropped, nor what was given up.
Land(t) ==
  /\ phase[t] = "out" /\ t \notin landed /\ landed' = landed \cup {t}
  /\ UNCHANGED <<phase, of, lot>>

Open(b) ==
  /\ b \in landed /\ phase[b] = "out" /\ lot[b] = "none" /\ lot' = [lot EXCEPT ![b] = "open"]
  /\ UNCHANGED <<phase, landed, of>>

\* A sale is booked on its lot; on one that was found gone, when it is booked itself.
Close(s) ==
  /\ s \in landed /\ <<phase[s], lot[of[s]]>> \in {<<"out", "open">>, <<"booked", "gone">>}
  /\ lot' = [lot EXCEPT ![of[s]] = "sold"] /\ UNCHANGED <<phase, landed, of>>

Lose(b) == lot[b] = "open" /\ lot' = [lot EXCEPT ![b] = "gone"] /\ UNCHANGED <<phase, landed, of>>

\* The lots of a revoked agent, but not one that is being sold.
Orphan(B) ==
  /\ \A b \in B : lot[b] = "open" /\ \A r \in SalesOf(b) : phase[r] # "out"
  /\ lot' = [b \in Buys |-> IF b \in B THEN "orphaned" ELSE lot[b]]
  /\ UNCHANGED <<phase, landed, of>>

Book(t) ==
  /\ t \in landed /\ (t \in Buys => lot[t] # "none") /\ (t \in Sells => lot[of[t]] # "open")
  /\ Turn(t, "out", "booked") /\ UNCHANGED <<landed, of, lot>>

Drop(t) == t \notin landed /\ Turn(t, "out", "dropped") /\ UNCHANGED <<landed, of, lot>>

GiveUp(s) == Turn(s, "out", "given up") /\ UNCHANGED <<landed, of, lot>>

Next ==
  \/ \E B \in SUBSET Buys : Orphan(B)
  \/ \E t \in Trades : Land(t) \/ Book(t) \/ Drop(t)
  \/ \E b \in Buys : Buy(b) \/ Open(b) \/ Lose(b)
  \/ \E s \in Sells : Close(s) \/ GiveUp(s) \/ \E b \in Buys : Sell(s, b)

Spec == Init /\ [][Next]_lots
=============================================================================
