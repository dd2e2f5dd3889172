------------------------- MODULE AgentRegistrations -------------------------
(***************************************************************************)
(* What the identity worker promises of the agents' registrations: each    *)
(* agent is registered by at most one transaction, then its URI is updated *)
(* by one; one is undecided at a time; the ledger says of a transaction    *)
(* what the final chain says; and an id is published once both succeeded,  *)
(* for good.  IdentityMinter implements this specification under the       *)
(* mapping written there; no lock, process, pool or reorganisation is left *)
(* in it.                                                                  *)
(***************************************************************************)
CONSTANTS Agents, Ids, None

VARIABLES
  ledger,   \* a transaction, by agent and phase: unsigned, open, success, reverted
  final,    \* what the final chain says of it: open, success, reverted
  minted,   \* the id the final chain gave an agent
  public    \* the id that is published for an agent
registrations == <<ledger, final, minted, public>>

Key == Agents \X {"register", "update"}

Init ==
  /\ ledger = [k \in Key |-> "unsigned"] /\ final = [k \in Key |-> "open"]
  /\ minted = [a \in Agents |-> None] /\ public = [a \in Agents |-> None]

\* An update is signed only after its registration succeeded, finally.
Sign(k) ==
  /\ ledger[k] = "unsigned" /\ \A x \in Key : ledger[x] # "open"
  /\ k[2] = "update" => ledger[<<k[1], "register">>] = "success"
  /\ ledger' = [ledger EXCEPT ![k] = "open"] /\ UNCHANGED <<final, minted, public>>

\* Its block becomes final.
Finalize(k, out) ==
  /\ ledger[k] = "open" /\ final[k] = "open" /\ final' = [final EXCEPT ![k] = out]
  /\ IF k[2] = "register" /\ out = "success"
     THEN \E id \in Ids : minted' = [minted EXCEPT ![k[1]] = id]
     ELSE UNCHANGED minted
  /\ UNCHANGED <<ledger, public>>

Decide(k) ==
  /\ ledger[k] = "open" /\ final[k] # "open" /\ ledger' = [ledger EXCEPT ![k] = final[k]]
  /\ UNCHANGED <<final, minted, public>>

Publish(a) ==
  /\ public[a] = None /\ final[<<a, "register">>] = "success" /\ final[<<a, "update">>] = "success"
  /\ public' = [public EXCEPT ![a] = minted[a]] /\ UNCHANGED <<ledger, final, minted>>

Next ==
  \/ \E k \in Key : Sign(k) \/ Decide(k) \/ \E out \in {"success", "reverted"} : Finalize(k, out)
  \/ \E a \in Agents : Publish(a)

Spec == Init /\ [][Next]_registrations
=============================================================================
