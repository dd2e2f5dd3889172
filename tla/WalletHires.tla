---------------------------- MODULE WalletHires ----------------------------
(***************************************************************************)
(* What the hires of agentic wallets promise: a wallet is hired once at a  *)
(* time, an agent is armed only behind the gate and never again, a bound   *)
(* hire has its agent, and it is over when its session is.  AgenticHire    *)
(* implements this specification under the mapping written there; no task, *)
(* version, fence, clock, drain or restart is left in it.                  *)
(***************************************************************************)
EXTENDS Naturals
CONSTANTS Pairings, Wallets, None

VARIABLES
  hire,     \* of a pairing: none, open, closed; hired, gated, bound, ending, over
  wallet,   \* the wallet that the pairing's hire has to itself
  agent,    \* its agent: None, armed, revoked
  session,  \* the pairings whose session Binance has open
  wrong     \* how often wallet status was wrong
hires == <<hire, wallet, agent, session, wrong>>

Init ==
  /\ hire = [p \in Pairings |-> "none"] /\ wallet = [p \in Pairings |-> None]
  /\ agent = [p \in Pairings |-> None] /\ session = {} /\ wrong = 0

Turn(p, from, to) == hire[p] = from /\ hire' = [hire EXCEPT ![p] = to]
Released(p) == wallet' = [wallet EXCEPT ![p] = None]
Revoked(p) == agent[p] = "armed" /\ agent' = [agent EXCEPT ![p] = "revoked"]

Pair(p) == Turn(p, "none", "open") /\ UNCHANGED <<wallet, agent, session, wrong>>

\* A session begins before its hire does; anybody may end it.
SignIn(p) ==
  /\ hire[p] \in {"open", "closed"} /\ session' = session \cup {p}
  /\ UNCHANGED <<hire, wallet, agent, wrong>>
SignOut(p) == session' = session \ {p} /\ UNCHANGED <<hire, wallet, agent, wrong>>

Hire(p, w) ==
  /\ \A q \in Pairings : wallet[q] # w
  /\ Turn(p, "open", "hired") /\ wallet' = [wallet EXCEPT ![p] = w]
  /\ UNCHANGED <<agent, session, wrong>>

Gate(p) == Turn(p, "hired", "gated") /\ UNCHANGED <<wallet, agent, session, wrong>>

\* Once in a hire's life.
Arm(p) ==
  /\ hire[p] = "gated" /\ agent[p] = None /\ agent' = [agent EXCEPT ![p] = "armed"]
  /\ UNCHANGED <<hire, wallet, session, wrong>>

Bind(p) == agent[p] = "armed" /\ Turn(p, "gated", "bound") /\ UNCHANGED <<wallet, agent, session, wrong>>

\* What has not passed the gate may be given up; a restart gives up several.
Close(P) ==
  /\ \A p \in P : hire[p] \in {"open", "hired"}
  /\ hire' = [p \in Pairings |-> IF p \in P THEN "closed" ELSE hire[p]]
  /\ wallet' = [p \in Pairings |-> IF p \in P THEN None ELSE wallet[p]]
  /\ UNCHANGED <<agent, session, wrong>>

\* At the end of its term, or after a stop-loss.
Leave(p) == Turn(p, "bound", "ending") /\ UNCHANGED <<wallet, agent, session, wrong>>

Revoke(p) ==
  /\ hire[p] \in {"bound", "ending", "over"} /\ Revoked(p)
  /\ UNCHANGED <<hire, wallet, session, wrong>>

\* A hire is over when its session is, unless its status was misread.
End(p) ==
  /\ Turn(p, "bound", "over") \/ Turn(p, "ending", "over")
  /\ Released(p) /\ (Revoked(p) \/ UNCHANGED agent)
  /\ wrong' \in {wrong, wrong + 1} /\ (p \in session => wrong' > 0) /\ UNCHANGED session

Misread == wrong' = wrong + 1 /\ UNCHANGED <<hire, wallet, agent, session>>

Next ==
  \/ \E P \in SUBSET Pairings : Close(P)
  \/ \E p \in Pairings :
       \/ Pair(p) \/ SignIn(p) \/ SignOut(p) \/ Gate(p) \/ Arm(p) \/ Bind(p)
       \/ Leave(p) \/ Revoke(p) \/ End(p) \/ \E w \in Wallets : Hire(p, w)
  \/ Misread

Spec == Init /\ [][Next]_hires
=============================================================================
