---------------------------- MODULE SpendingLimit ----------------------------
(***************************************************************************)
(* What a budget ledger promises, without its accounts: every case claims  *)
(* money of one scope at most once, a claim is spent or freed once and for *)
(* all, and what a scope has held and spent never exceeds its limit.       *)
(***************************************************************************)
EXTENDS Integers, FiniteSetsExt

CONSTANTS Cases, Scopes, None

VARIABLES
  limit,   \* for each scope what may be spent, fixed by its first claim
  claim    \* for each case its claim, or None

limitVars == <<limit, claim>>

\* What the live claims on a scope amount to.
Live(claims, s) ==
  {c \in Cases : claims[c] # None /\ claims[c].scope = s /\ claims[c].state # "FREED"}
Claimed(claims, s) == MapThenSumSet(LAMBDA c : claims[c].amount, Live(claims, s))

Init ==
  /\ limit = [s \in Scopes |-> None]
  /\ claim = [c \in Cases |-> None]

Hold(c, s, amount, l) ==
  /\ claim[c] = None
  /\ limit[s] \in {None, l}
  /\ limit' = [limit EXCEPT ![s] = l]
  /\ claim' = [claim EXCEPT ![c] = [scope |-> s, amount |-> amount, state |-> "HELD"]]
  /\ Claimed(claim', s) <= l

Resolve(c, state) ==
  /\ claim[c] # None /\ claim[c].state = "HELD"
  /\ claim' = [claim EXCEPT ![c].state = state]
  /\ UNCHANGED limit

\* The amount and the limit are whatever the new claim says they are.
Next ==
  \E c \in Cases :
    \/ \E s \in Scopes : claim'[c] # None /\ Hold(c, s, claim'[c].amount, limit'[s])
    \/ \E state \in {"SPENT", "FREED"} : Resolve(c, state)

Spec == Init /\ [][Next]_limitVars
=============================================================================
