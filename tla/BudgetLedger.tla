---------------------------- MODULE BudgetLedger ----------------------------
(***************************************************************************)
(* The food budget ledger of src/food-support/budgetLedger.ts: an account  *)
(* per scope (beneficiary, program and month) with running totals, and one *)
(* reservation per case, written together in one transaction.              *)
(*                                                                         *)
(* A fingerprint stands for the terms a reservation was made for; amounts  *)
(* are in KRW and small here.                                              *)
(***************************************************************************)
EXTENDS Integers, FiniteSetsExt

CONSTANTS
  Cases,
  Scopes,
  Fingerprints,
  None            \* an absent document

ASSUME BudgetNoneAssumption ==
  None \notin [allocation : Nat, reserved : Nat, committed : Nat]
              \cup [scope : Scopes, amount : Nat, fingerprint : Fingerprints,
                    status : {"RESERVED", "COMMITTED", "RELEASED"}]
              \cup [scope : Scopes, amount : Nat, state : {"HELD", "SPENT", "FREED"}]

VARIABLES
  accounts,       \* for each scope its totals, or None
  reservations    \* for each case its reservation, or None

budgetVars == <<accounts, reservations>>

Accounts     == [allocation : Nat, reserved : Nat, committed : Nat]
Reservations == [scope : Scopes, amount : Nat, fingerprint : Fingerprints,
                 status : {"RESERVED", "COMMITTED", "RELEASED"}]

BudgetTypeOK ==
  /\ accounts \in [Scopes -> Accounts \cup {None}]
  /\ reservations \in [Cases -> Reservations \cup {None}]

BudgetInit ==
  /\ accounts = [s \in Scopes |-> None]
  /\ reservations = [c \in Cases |-> None]
-----------------------------------------------------------------------------
\* Mutant: what is already committed is forgotten.
AvailableUncommitted(account) == account.allocation - account.reserved
Available(account) == account.allocation - account.reserved - account.committed

\* The scope's account; the first reservation opens it with the allocation its
\* caller brings, and later callers' allocations are not looked at.
AccountFor(s, allocation) ==
  IF accounts[s] = None
  THEN [allocation |-> allocation, reserved |-> 0, committed |-> 0]
  ELSE accounts[s]

\* A case keeps its first reservation: the same one again is EXISTING, anything
\* else a CONFLICT, once it is released too.
SameReservation(c, s, amount, f) ==
  /\ reservations[c].scope = s
  /\ reservations[c].amount = amount
  /\ reservations[c].fingerprint = f
  /\ reservations[c].status # "RELEASED"

ReserveResult(c, s, allocation, amount, f) ==
  CASE reservations[c] # None ->
         IF SameReservation(c, s, amount, f) THEN "EXISTING" ELSE "CONFLICT"
    [] reservations[c] = None ->
         IF amount > Available(AccountFor(s, allocation)) THEN "INSUFFICIENT" ELSE "RESERVED"

Reserve(c, s, allocation, amount, f) ==
  IF ReserveResult(c, s, allocation, amount, f) # "RESERVED"
  THEN UNCHANGED budgetVars
  ELSE LET account == AccountFor(s, allocation) IN
       /\ accounts' = [accounts EXCEPT ![s] =
                         [account EXCEPT !.reserved = @ + amount]]
       /\ reservations' = [reservations EXCEPT ![c] =
            [scope |-> s, amount |-> amount, fingerprint |-> f, status |-> "RESERVED"]]

\* settle: commit and release.  Settling the same way again answers the same;
\* a reservation settled the other way, of other terms or absent is an error.
Settleable(c, f, next) ==
  /\ reservations[c] # None
  /\ reservations[c].fingerprint = f
  /\ \/ reservations[c].status = next
     \/ /\ reservations[c].status = "RESERVED"
        /\ accounts[reservations[c].scope] # None
        /\ accounts[reservations[c].scope].reserved >= reservations[c].amount

\* Mutant: released money is not given back to the account.
SettleKeeps(c, f, next) ==
  LET r == reservations[c]
      account == accounts[r.scope]
  IN
    IF r.status = next
    THEN UNCHANGED budgetVars
    ELSE /\ accounts' = [accounts EXCEPT ![r.scope] =
              [account EXCEPT !.reserved = IF next = "COMMITTED" THEN @ - r.amount ELSE @,
                        !.committed = IF next = "COMMITTED" THEN @ + r.amount ELSE @]]
         /\ reservations' = [reservations EXCEPT ![c].status = next]
Settle(c, f, next) ==
  LET r == reservations[c]
      account == accounts[r.scope]
  IN
    IF r.status = next
    THEN UNCHANGED budgetVars
    ELSE /\ accounts' = [accounts EXCEPT ![r.scope] =
              [account EXCEPT !.reserved = @ - r.amount,
                        !.committed = IF next = "COMMITTED" THEN @ + r.amount ELSE @]]
         /\ reservations' = [reservations EXCEPT ![c].status = next]
-----------------------------------------------------------------------------
\* Any caller, any order.  Allocations and Amounts are the model's bounds.
BudgetNext(Allocations, Amounts) ==
  \E c \in Cases, f \in Fingerprints :
    \/ \E s \in Scopes, allocation \in Allocations, amount \in Amounts :
         Reserve(c, s, allocation, amount, f)
    \/ \E next \in {"COMMITTED", "RELEASED"} :
         Settleable(c, f, next) /\ Settle(c, f, next)

BudgetSpec(Allocations, Amounts) == BudgetInit /\ [][BudgetNext(Allocations, Amounts)]_budgetVars
-----------------------------------------------------------------------------
(***************************************************************************)
(* Properties.                                                             *)
(***************************************************************************)
InStatus(s, status) ==
  {c \in Cases : /\ reservations[c] # None
                 /\ reservations[c].scope = s /\ reservations[c].status = status}
Total(s, status) == MapThenSumSet(LAMBDA c : reservations[c].amount, InStatus(s, status))

\* The running totals of an account are the sums of the reservations it was
\* made of, over every interleaving of reservations, commits and releases and
\* their repetitions; so settle never meets an account that cannot cover it.
Balanced ==
  /\ BudgetTypeOK
  /\ \A s \in Scopes :
       IF accounts[s] = None
       THEN \A c \in Cases : reservations[c] # None => reservations[c].scope # s
       ELSE /\ accounts[s].reserved = Total(s, "RESERVED")
            /\ accounts[s].committed = Total(s, "COMMITTED")

\* The ledger keeps the promise of SpendingLimit: nothing is overspent, nothing
\* is claimed or settled twice, whatever allocation later callers bring.
Limits == [s \in Scopes |-> IF accounts[s] = None THEN None ELSE accounts[s].allocation]
StateOf(status) == CASE status = "RESERVED"  -> "HELD"
                     [] status = "COMMITTED" -> "SPENT"
                     [] status = "RELEASED"  -> "FREED"
Claims ==
  [c \in Cases |->
    IF reservations[c] = None THEN None
    ELSE [scope |-> reservations[c].scope, amount |-> reservations[c].amount,
          state |-> StateOf(reservations[c].status)]]
Limit == INSTANCE SpendingLimit WITH limit <- Limits, claim <- Claims
KeepsLimit == Limit!Spec
=============================================================================
