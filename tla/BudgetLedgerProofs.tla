------------------------- MODULE BudgetLedgerProofs -------------------------
(***************************************************************************)
(* The theorems of module BudgetLedger, for any number of cases, scopes,   *)
(* fingerprints, allocations and amounts, none of them assumed to be       *)
(* finite.                                                                 *)
(*                                                                         *)
(* The totals are sums over sets of cases.  What such a sum does is proved *)
(* first, by induction over finite sets in the form that first-order       *)
(* provers can use: a property that fails for some subset of a finite set  *)
(* fails for a smallest one.                                               *)
(***************************************************************************)
EXTENDS BudgetLedger, FiniteSetTheorems, TLAPS

\* The sum of what the members of S have as their amount in w.
Sum(w, S) == MapThenSumSet(LAMBDA c : w[c].amount, S)

Pick(S) == CHOOSE x \in S : TRUE

\* The function f sums w over every subset of T.
Sums(f, w, T) ==
  f = [S \in SUBSET T |-> IF S = {} THEN 0 ELSE w[Pick(S)].amount + f[S \ {Pick(S)}]]

LEMMA SmallestCounterexample ==
  ASSUME NEW S, IsFiniteSet(S), NEW B, B \subseteq SUBSET S, B # {}
  PROVE  \E T \in B : \A U \in B : U \subseteq T => U = T
  <1>1. IsWellFoundedOn(StrictSubsetOrdering(S), SUBSET S)
    BY FS_StrictSubsetOrderingWellFounded, FS_FiniteSubsetsOfFinite
  <1>2. PICK T \in B : \A U \in B : <<U, T>> \notin StrictSubsetOrdering(S)
    BY <1>1, WFMin
  <1> QED BY <1>2 DEF StrictSubsetOrdering

LEMMA SumsAgree ==
  ASSUME NEW w, NEW T, IsFiniteSet(T), NEW f, Sums(f, w, T),
         NEW U \in SUBSET T, NEW g, Sums(g, w, U)
  PROVE  f[U] = g[U]
  <1> DEFINE B == {S \in SUBSET U : f[S] # g[S]}
  <1>1. SUFFICES ASSUME B # {} PROVE FALSE
    OBVIOUS
  <1>2. IsFiniteSet(U)
    BY FS_Subset
  <1>3. PICK S \in B : \A V \in B : V \subseteq S => V = S
    <2> HIDE DEF B
    <2>1. B \subseteq SUBSET U
      BY DEF B
    <2> QED BY <1>1, <1>2, <2>1, SmallestCounterexample
  <1>4. S # {}
    BY <1>3 DEF Sums
  <1>5. /\ Pick(S) \in S
        /\ S \ {Pick(S)} \in SUBSET U /\ S \ {Pick(S)} # S
    BY <1>3, <1>4 DEF Pick
  <1>6. f[S \ {Pick(S)}] = g[S \ {Pick(S)}]
    BY <1>3, <1>5
  <1>7. /\ f[S] = w[Pick(S)].amount + f[S \ {Pick(S)}]
        /\ g[S] = w[Pick(S)].amount + g[S \ {Pick(S)}]
    <2>1. S \in SUBSET U /\ S \in SUBSET T
      BY <1>3
    <2> QED BY <1>4, <2>1 DEF Sums
  <1> QED BY <1>3, <1>6, <1>7

LEMMA SumsExist ==
  ASSUME NEW w, NEW T, IsFiniteSet(T)
  PROVE  \E f : Sums(f, w, T)
  <1> DEFINE B == {S \in SUBSET T : ~\E f : Sums(f, w, S)}
  <1>1. SUFFICES ASSUME B # {} PROVE FALSE
    OBVIOUS
  <1>2. PICK S \in B : \A V \in B : V \subseteq S => V = S
    <2> HIDE DEF B
    <2>1. B \subseteq SUBSET T
      BY DEF B
    <2> QED BY <1>1, <2>1, SmallestCounterexample
  <1> DEFINE F(U) == CHOOSE f : Sums(f, w, U)
             g    == [U \in SUBSET S |->
                        IF U # S THEN F(U)[U]
                        ELSE IF S = {} THEN 0
                        ELSE w[Pick(S)].amount + F(S \ {Pick(S)})[S \ {Pick(S)}]]
  <1>3. ASSUME NEW U \in SUBSET S, U # S
        PROVE  IsFiniteSet(U) /\ Sums(F(U), w, U)
    <2>1. U \in SUBSET T /\ U \notin B
      BY <1>2, <1>3
    <2>2. \E f : Sums(f, w, U)
      BY <2>1
    <2> QED BY <2>1, <2>2, FS_Subset
  <1>4. ASSUME NEW U \in SUBSET S
        PROVE  g[U] = IF U = {} THEN 0 ELSE w[Pick(U)].amount + g[U \ {Pick(U)}]
    <2> DEFINE V == U \ {Pick(U)}
    <2>1. CASE U = {} /\ U = S
      BY <2>1
    <2>2. CASE U = {} /\ U # S
      <3>1. F(U)[U] = 0
        <4> HIDE DEF F
        <4> QED BY <1>3, <2>2 DEF Sums
      <3> QED BY <2>2, <3>1
    <2>3. CASE U # {}
      <3>1. V \in SUBSET U /\ V \in SUBSET S /\ V # S /\ V # U
        BY <2>3 DEF Pick
      <3>2. g[V] = F(V)[V]
        BY <3>1
      <3>3. CASE U = S
        BY <2>3, <3>2, <3>3
      <3>4. CASE U # S
        <4>1. IsFiniteSet(U) /\ Sums(F(U), w, U) /\ Sums(F(V), w, V)
          BY <1>3, <3>1, <3>4
        <4>2. g[U] = F(U)[U]
          BY <3>4
        <4> HIDE DEF F, V, g
        <4>3. F(U)[V] = F(V)[V]
          BY <3>1, <4>1, SumsAgree
        <4>4. F(U)[U] = w[Pick(U)].amount + F(U)[V]
          BY <2>3, <4>1 DEF Sums, V
        <4> QED BY <2>3, <3>2, <4>2, <4>3, <4>4 DEF V
      <3> QED BY <3>3, <3>4
    <2> QED BY <2>1, <2>2, <2>3
  <1>5. Sums(g, w, S)
    <2>1. g = [U \in SUBSET S |-> g[U]]
      OBVIOUS
    <2> HIDE DEF g
    <2> QED BY <1>4, <2>1 DEF Sums
  <1> QED BY <1>2, <1>5

LEMMA SumIs ==
  ASSUME NEW w, NEW S, IsFiniteSet(S), NEW f, Sums(f, w, S), NEW T \in SUBSET S
  PROVE  Sum(w, T) = f[T]
  <1> DEFINE g == CHOOSE h : Sums(h, w, T)
  <1>1. IsFiniteSet(T)
    BY FS_Subset
  <1>2. Sums(g, w, T)
    BY <1>1, SumsExist
  <1>3. Sum(w, T) = g[T]
    BY DEF Sum, MapThenSumSet, MapThenFoldSet, Sums, Pick
  <1> HIDE DEF g
  <1> QED BY <1>2, <1>3, SumsAgree

LEMMA SumOfNone ==
  ASSUME NEW w
  PROVE  Sum(w, {}) = 0
  <1>1. PICK f : Sums(f, w, {})
    BY FS_EmptySet, SumsExist
  <1>2. f[{}] = 0
    BY <1>1 DEF Sums
  <1> QED BY <1>1, <1>2, SumIs, FS_EmptySet

LEMMA SumStep ==
  ASSUME NEW w, NEW S, IsFiniteSet(S), S # {}
  PROVE  /\ Pick(S) \in S
         /\ Sum(w, S) = w[Pick(S)].amount + Sum(w, S \ {Pick(S)})
  <1>1. PICK f : Sums(f, w, S)
    BY SumsExist
  <1>2. f[S] = w[Pick(S)].amount + f[S \ {Pick(S)}]
    BY <1>1 DEF Sums
  <1>3. Sum(w, S) = f[S] /\ Sum(w, S \ {Pick(S)}) = f[S \ {Pick(S)}]
    BY <1>1, SumIs
  <1> QED BY <1>2, <1>3 DEF Pick

LEMMA SumNat ==
  ASSUME NEW w, NEW S, IsFiniteSet(S), \A x \in S : w[x].amount \in Nat
  PROVE  Sum(w, S) \in Nat
  <1> DEFINE B == {T \in SUBSET S : Sum(w, T) \notin Nat}
  <1>1. SUFFICES ASSUME B # {} PROVE FALSE
    OBVIOUS
  <1>2. PICK T \in B : \A V \in B : V \subseteq T => V = T
    <2> HIDE DEF B
    <2>1. B \subseteq SUBSET S
      BY DEF B
    <2> QED BY <1>1, <2>1, SmallestCounterexample
  <1>3. T \in SUBSET S /\ Sum(w, T) \notin Nat /\ IsFiniteSet(T)
    BY <1>2, FS_Subset
  <1>4. T # {}
    BY <1>3, SumOfNone
  <1>5. Pick(T) \in T /\ Sum(w, T) = w[Pick(T)].amount + Sum(w, T \ {Pick(T)})
    BY <1>3, <1>4, SumStep
  <1>6. Sum(w, T \ {Pick(T)}) \in Nat
    BY <1>2, <1>5
  <1> QED BY <1>3, <1>5, <1>6

\* The order of the summands does not matter.
LEMMA SumRemove ==
  ASSUME NEW w, NEW S, IsFiniteSet(S), \A c \in S : w[c].amount \in Nat, NEW x \in S
  PROVE  Sum(w, S) = w[x].amount + Sum(w, S \ {x})
  <1> DEFINE B == {T \in SUBSET S : \E y \in T : Sum(w, T) # w[y].amount + Sum(w, T \ {y})}
  <1>1. SUFFICES ASSUME B # {} PROVE FALSE
    OBVIOUS
  <1>2. PICK T \in B : \A V \in B : V \subseteq T => V = T
    <2> HIDE DEF B
    <2>1. B \subseteq SUBSET S
      BY DEF B
    <2> QED BY <1>1, <2>1, SmallestCounterexample
  <1>3. T \in SUBSET S /\ IsFiniteSet(T)
    BY <1>2, FS_Subset
  <1>4. PICK y \in T : Sum(w, T) # w[y].amount + Sum(w, T \ {y})
    BY <1>2
  <1>5. PICK p \in T : p = Pick(T) /\ Sum(w, T) = w[p].amount + Sum(w, T \ {p})
    BY <1>3, <1>4, SumStep
  <1>6. p # y
    BY <1>4, <1>5
  <1> DEFINE V == T \ {y, p}
  <1>7. Sum(w, T \ {p}) = w[y].amount + Sum(w, V)
    <2>1. T \ {p} \in SUBSET S /\ T \ {p} # T /\ y \in T \ {p} /\ (T \ {p}) \ {y} = V
      BY <1>3, <1>5, <1>6
    <2> QED BY <1>2, <2>1
  <1>8. Sum(w, T \ {y}) = w[p].amount + Sum(w, V)
    <2>1. T \ {y} \in SUBSET S /\ T \ {y} # T /\ p \in T \ {y} /\ (T \ {y}) \ {p} = V
      BY <1>3, <1>4, <1>6
    <2> QED BY <1>2, <2>1
  <1>9. w[p].amount \in Nat /\ w[y].amount \in Nat /\ Sum(w, V) \in Nat
    <2>1. IsFiniteSet(V) /\ \A c \in V : w[c].amount \in Nat
      BY <1>3, FS_Subset
    <2> QED BY <1>3, <2>1, SumNat
  <1> HIDE DEF B, V
  <1> QED BY <1>4, <1>5, <1>7, <1>8, <1>9

LEMMA SumAdd ==
  ASSUME NEW w, NEW S, IsFiniteSet(S), NEW x, x \notin S,
         \A c \in S \cup {x} : w[c].amount \in Nat
  PROVE  Sum(w, S \cup {x}) = Sum(w, S) + w[x].amount
  <1>1. IsFiniteSet(S \cup {x}) /\ (S \cup {x}) \ {x} = S
    BY FS_AddElement
  <1>2. Sum(w, S \cup {x}) = w[x].amount + Sum(w, (S \cup {x}) \ {x})
    BY <1>1, SumRemove
  <1>3. Sum(w, S) \in Nat /\ w[x].amount \in Nat
    BY SumNat
  <1>4. Sum(w, S \cup {x}) = w[x].amount + Sum(w, S)
    BY <1>1, <1>2
  <1> QED BY <1>3, <1>4

LEMMA SumSame ==
  ASSUME NEW w, NEW v, NEW S, IsFiniteSet(S), \A c \in S : w[c].amount = v[c].amount
  PROVE  Sum(w, S) = Sum(v, S)
  <1> DEFINE B == {T \in SUBSET S : Sum(w, T) # Sum(v, T)}
  <1>1. SUFFICES ASSUME B # {} PROVE FALSE
    OBVIOUS
  <1>2. PICK T \in B : \A V \in B : V \subseteq T => V = T
    <2> HIDE DEF B
    <2>1. B \subseteq SUBSET S
      BY DEF B
    <2> QED BY <1>1, <2>1, SmallestCounterexample
  <1>3. T \in SUBSET S /\ IsFiniteSet(T) /\ Sum(w, T) # Sum(v, T)
    BY <1>2, FS_Subset
  <1>4. T # {}
    BY <1>3, SumOfNone
  <1>5. /\ Pick(T) \in T
        /\ Sum(w, T) = w[Pick(T)].amount + Sum(w, T \ {Pick(T)})
        /\ Sum(v, T) = v[Pick(T)].amount + Sum(v, T \ {Pick(T)})
    BY <1>3, <1>4, SumStep
  <1>6. Sum(w, T \ {Pick(T)}) = Sum(v, T \ {Pick(T)})
    BY <1>2, <1>5
  <1> QED BY <1>3, <1>5, <1>6

LEMMA SumUnion ==
  ASSUME NEW w, NEW R, IsFiniteSet(R), NEW S, IsFiniteSet(S), R \cap S = {},
         \A c \in R \cup S : w[c].amount \in Nat
  PROVE  Sum(w, R \cup S) = Sum(w, R) + Sum(w, S)
  <1> DEFINE B == {T \in SUBSET S : Sum(w, R \cup T) # Sum(w, R) + Sum(w, T)}
  <1>1. SUFFICES ASSUME B # {} PROVE FALSE
    OBVIOUS
  <1>2. PICK T \in B : \A V \in B : V \subseteq T => V = T
    <2> HIDE DEF B
    <2>1. B \subseteq SUBSET S
      BY DEF B
    <2> QED BY <1>1, <2>1, SmallestCounterexample
  <1>3. T \in SUBSET S /\ IsFiniteSet(T) /\ Sum(w, R \cup T) # Sum(w, R) + Sum(w, T)
    BY <1>2, FS_Subset
  <1>4. Sum(w, R) \in Nat /\ Sum(w, {}) = 0 /\ R \cup {} = R
    BY SumNat, SumOfNone
  <1>5. T # {}
    <2>1. SUFFICES ASSUME T = {} PROVE FALSE
      OBVIOUS
    <2>2. R \cup T = R /\ Sum(w, T) = 0
      BY <1>4, <2>1
    <2>3. Sum(w, R \cup T) = Sum(w, R)
      BY <2>2
    <2> HIDE DEF B
    <2> QED BY <1>3, <1>4, <2>2, <2>3
  <1>6. PICK x \in T : TRUE
    BY <1>5
  <1> DEFINE V == T \ {x}
  <1>7. /\ V \in SUBSET S /\ V # T /\ x \notin V /\ x \notin R \cup V
        /\ T = V \cup {x} /\ R \cup T = (R \cup V) \cup {x}
    BY <1>3, <1>6
  <1>8. Sum(w, R \cup V) = Sum(w, R) + Sum(w, V)
    BY <1>2, <1>7
  <1>9. IsFiniteSet(V) /\ IsFiniteSet(R \cup V)
    BY <1>7, FS_Subset, FS_Union
  <1> HIDE DEF V, B
  <1>10. /\ Sum(w, T) = Sum(w, V) + w[x].amount
         /\ Sum(w, R \cup T) = Sum(w, R \cup V) + w[x].amount
    <2>1. \A c \in (R \cup V) \cup {x} : w[c].amount \in Nat
      BY <1>3, <1>6, <1>7
    <2>2. Sum(w, V \cup {x}) = Sum(w, V) + w[x].amount
      BY <1>7, <1>9, <2>1, SumAdd
    <2>3. Sum(w, (R \cup V) \cup {x}) = Sum(w, R \cup V) + w[x].amount
      BY <1>7, <1>9, <2>1, SumAdd
    <2> QED BY <1>7, <2>2, <2>3
  <1>11. Sum(w, V) \in Nat /\ w[x].amount \in Nat
    BY <1>3, <1>6, <1>7, <1>9, SumNat
  <1> QED BY <1>3, <1>4, <1>8, <1>10, <1>11
-----------------------------------------------------------------------------
(***************************************************************************)
(* The invariant.  Balanced is inductive once the cases that ever reserved *)
(* are known to be finitely many, and SpendingLimit needs in addition that *)
(* no account has given away more than it has.                             *)
(***************************************************************************)
Reserving == {c \in Cases : reservations[c] # None}

BudgetInv ==
  /\ Balanced
  /\ IsFiniteSet(Reserving)
  /\ \A s \in Scopes : accounts[s] # None =>
       accounts[s].reserved + accounts[s].committed <= accounts[s].allocation

BudgetStatus == {"RESERVED", "COMMITTED", "RELEASED"}

LEMMA InStatusFacts ==
  ASSUME BudgetTypeOK, IsFiniteSet(Reserving), NEW s, NEW status
  PROVE  /\ IsFiniteSet(InStatus(s, status))
         /\ \A c \in InStatus(s, status) :
              c \in Cases /\ reservations[c] \in Reservations /\ reservations[c].amount \in Nat
         /\ Total(s, status) = Sum(reservations, InStatus(s, status))
         /\ Total(s, status) \in Nat
  <1>1. InStatus(s, status) \subseteq Reserving
    BY DEF InStatus, Reserving
  <1>2. IsFiniteSet(InStatus(s, status))
    BY <1>1, FS_Subset
  <1>3. \A c \in InStatus(s, status) :
          c \in Cases /\ reservations[c] \in Reservations /\ reservations[c].amount \in Nat
    BY DEF InStatus, BudgetTypeOK, Reservations
  <1>4. Total(s, status) = Sum(reservations, InStatus(s, status))
    BY DEF Total, Sum, MapThenSumSet, MapThenFoldSet
  <1>5. Sum(reservations, InStatus(s, status)) \in Nat
    BY <1>2, <1>3, SumNat
  <1> QED BY <1>2, <1>3, <1>4, <1>5

LEMMA TotalAfter ==
  ASSUME NEW s, NEW status
  PROVE  Total(s, status)' = Sum(reservations', InStatus(s, status)')
  BY DEF Total, Sum, MapThenSumSet, MapThenFoldSet
-----------------------------------------------------------------------------
\* A first reservation adds its amount to what its scope has reserved.
LEMMA ReserveAdds ==
  ASSUME BudgetInv, NEW c \in Cases, NEW s \in Scopes, NEW f \in Fingerprints,
         NEW allocation \in Nat, NEW amount \in Nat, Reserve(c, s, allocation, amount, f),
         ReserveResult(c, s, allocation, amount, f) = "RESERVED"
  PROVE  /\ reservations[c] = None
         /\ AccountFor(s, allocation) \in Accounts
         /\ AccountFor(s, allocation).reserved + AccountFor(s, allocation).committed + amount
              <= AccountFor(s, allocation).allocation
         /\ AccountFor(s, allocation).reserved = Total(s, "RESERVED")
         /\ AccountFor(s, allocation).committed = Total(s, "COMMITTED")
         /\ accounts' = [accounts EXCEPT ![s] =
              [AccountFor(s, allocation) EXCEPT !.reserved = @ + amount]]
         /\ reservations' = [reservations EXCEPT ![c] =
              [scope |-> s, amount |-> amount, fingerprint |-> f, status |-> "RESERVED"]]
  <1> DEFINE account == AccountFor(s, allocation)
  <1>1. reservations[c] = None /\ ~(amount > Available(account))
    BY DEF ReserveResult
  <1>2. /\ account \in Accounts
        /\ account.reserved = Total(s, "RESERVED")
        /\ account.committed = Total(s, "COMMITTED")
        /\ account.reserved + account.committed <= account.allocation \/ accounts[s] = None
    <2>1. CASE accounts[s] = None
      <3>1. account = [allocation |-> allocation, reserved |-> 0, committed |-> 0]
        BY <2>1 DEF AccountFor
      <3>2. InStatus(s, "RESERVED") = {} /\ InStatus(s, "COMMITTED") = {}
        BY <2>1 DEF BudgetInv, Balanced, InStatus
      <3>3. Total(s, "RESERVED") = 0 /\ Total(s, "COMMITTED") = 0
        BY <3>2, InStatusFacts, SumOfNone DEF BudgetInv, Balanced
      <3> QED BY <2>1, <3>1, <3>3 DEF Accounts
    <2>2. CASE accounts[s] # None
      BY <2>2 DEF AccountFor, BudgetInv, Balanced, BudgetTypeOK
    <2> QED BY <2>1, <2>2
  <1>3. account.reserved + account.committed + amount <= account.allocation
    BY <1>1, <1>2 DEF Available, Accounts
  <1> QED BY <1>1, <1>2, <1>3 DEF Reserve

LEMMA ReservePreserves ==
  ASSUME BudgetInv, NEW c \in Cases, NEW s \in Scopes, NEW f \in Fingerprints,
         NEW allocation \in Nat, NEW amount \in Nat, Reserve(c, s, allocation, amount, f),
         ReserveResult(c, s, allocation, amount, f) = "RESERVED"
  PROVE  BudgetInv'
  <1>1. PICK account \in Accounts :
          /\ account = AccountFor(s, allocation)
          /\ account.reserved + account.committed + amount <= account.allocation
          /\ account.reserved = Total(s, "RESERVED")
          /\ account.committed = Total(s, "COMMITTED")
          /\ accounts' = [accounts EXCEPT ![s] = [account EXCEPT !.reserved = @ + amount]]
    BY ReserveAdds
  <1>2. PICK r \in Reservations :
          /\ r = [scope |-> s, amount |-> amount, fingerprint |-> f, status |-> "RESERVED"]
          /\ r.scope = s /\ r.amount = amount /\ r.status = "RESERVED"
          /\ reservations' = [reservations EXCEPT ![c] = r]
    <2> DEFINE e == [scope |-> s, amount |-> amount, fingerprint |-> f, status |-> "RESERVED"]
    <2>1. e \in Reservations /\ e.scope = s /\ e.amount = amount /\ e.status = "RESERVED"
      BY DEF Reservations
    <2>2. reservations' = [reservations EXCEPT ![c] = e]
      BY ReserveAdds
    <2> QED BY <2>1, <2>2
  <1>3. r # None /\ reservations[c] = None
    BY <1>2, ReserveAdds, BudgetNoneAssumption DEF Reservations
  <1>4. PICK a \in Accounts :
          /\ a = [account EXCEPT !.reserved = @ + amount]
          /\ a.reserved = account.reserved + amount
          /\ a.committed = account.committed /\ a.allocation = account.allocation
    <2> DEFINE e == [account EXCEPT !.reserved = @ + amount]
    <2>1. /\ e \in Accounts /\ e.reserved = account.reserved + amount
          /\ e.committed = account.committed /\ e.allocation = account.allocation
      BY DEF Accounts
    <2> QED BY <2>1
  <1>5. accounts' = [accounts EXCEPT ![s] = a] /\ a # None
    BY <1>1, <1>4, BudgetNoneAssumption DEF Accounts
  <1>6. BudgetTypeOK /\ IsFiniteSet(Reserving)
    BY DEF BudgetInv, Balanced
  <1>7. BudgetTypeOK'
    BY <1>2, <1>5, <1>6 DEF BudgetTypeOK
  <1>8. /\ reservations'[c] = r /\ accounts'[s] = a
        /\ \A d \in Cases : d # c => reservations'[d] = reservations[d]
        /\ \A t \in Scopes : t # s => accounts'[t] = accounts[t]
    BY <1>2, <1>5, <1>6 DEF BudgetTypeOK
  <1>9. IsFiniteSet(Reserving)'
    <2>1. Reserving' = Reserving \cup {c}
      BY <1>3, <1>8 DEF Reserving
    <2> QED BY <1>6, <2>1, FS_AddElement
  <1>10. ASSUME NEW t \in Scopes, NEW status \in {"RESERVED", "COMMITTED"},
                t # s \/ status # "RESERVED"
         PROVE  Total(t, status)' = Total(t, status)
    <2>1. InStatus(t, status)' = InStatus(t, status)
      BY <1>2, <1>3, <1>8, <1>10 DEF InStatus
    <2>2. c \notin InStatus(t, status)
      BY <1>3 DEF InStatus
    <2>3. Sum(reservations', InStatus(t, status)) = Sum(reservations, InStatus(t, status))
      BY <1>6, <1>8, <2>2, InStatusFacts, SumSame
    <2> QED BY <1>6, <2>1, <2>3, InStatusFacts, TotalAfter
  <1>11. Total(s, "RESERVED")' = Total(s, "RESERVED") + amount
    <2> DEFINE S == InStatus(s, "RESERVED")
    <2>1. InStatus(s, "RESERVED")' = S \cup {c}
      BY <1>2, <1>3, <1>8 DEF InStatus
    <2>2. c \notin S
      BY <1>3 DEF InStatus
    <2>3. /\ IsFiniteSet(S)
          /\ \A d \in S : d \in Cases /\ reservations[d].amount \in Nat
          /\ Total(s, "RESERVED") = Sum(reservations, S)
      BY <1>6, InStatusFacts
    <2>4. Total(s, "RESERVED")' = Sum(reservations', S \cup {c})
      BY <2>1, TotalAfter
    <2> HIDE DEF S
    <2>5. Sum(reservations', S) = Sum(reservations, S)
      BY <1>8, <2>2, <2>3, SumSame
    <2>6. \A d \in S \cup {c} : reservations'[d].amount \in Nat
      BY <1>2, <1>8, <2>2, <2>3
    <2>7. Sum(reservations', S \cup {c}) = Sum(reservations', S) + reservations'[c].amount
      BY <2>2, <2>3, <2>6, SumAdd
    <2> QED BY <1>2, <1>8, <2>3, <2>4, <2>5, <2>7
  <1>12. ASSUME NEW t \in Scopes
         PROVE  IF accounts'[t] = None
                THEN \A d \in Cases : reservations'[d] # None => reservations'[d].scope # t
                ELSE /\ accounts'[t].reserved = Total(t, "RESERVED")'
                     /\ accounts'[t].committed = Total(t, "COMMITTED")'
    <2>1. CASE t = s
      BY <1>1, <1>4, <1>5, <1>8, <1>10, <1>11, <2>1
    <2>2. CASE t # s
      <3>1. Total(t, "RESERVED")' = Total(t, "RESERVED") /\ Total(t, "COMMITTED")' = Total(t, "COMMITTED")
        BY <1>10, <2>2
      <3> QED BY <1>2, <1>8, <2>2, <3>1 DEF BudgetInv, Balanced
    <2> QED BY <2>1, <2>2
  <1>13. ASSUME NEW t \in Scopes, accounts'[t] # None
         PROVE  accounts'[t].reserved + accounts'[t].committed <= accounts'[t].allocation
    <2>1. CASE t = s
      BY <1>1, <1>4, <1>8, <2>1 DEF Accounts
    <2>2. CASE t # s
      BY <1>8, <1>13, <2>2 DEF BudgetInv
    <2> QED BY <2>1, <2>2
  <1>14. Balanced'
    BY <1>7, <1>12 DEF Balanced
  <1> QED BY <1>9, <1>13, <1>14 DEF BudgetInv

\* A settlement moves its amount out of what the scope has reserved, and when
\* it commits into what the scope has committed.
LEMMA SettlePreserves ==
  ASSUME BudgetInv, NEW c \in Cases, NEW f \in Fingerprints,
         NEW next \in {"COMMITTED", "RELEASED"}, Settleable(c, f, next), Settle(c, f, next),
         reservations[c].status # next
  PROVE  BudgetInv'
  <1>1. BudgetTypeOK /\ IsFiniteSet(Reserving)
    BY DEF BudgetInv, Balanced
  <1>2. PICK r \in Reservations :
          r = reservations[c] /\ r # None /\ r.status = "RESERVED"
    BY <1>1 DEF Settleable, BudgetTypeOK
  <1>3. PICK s \in Scopes : s = r.scope
    BY DEF Reservations
  <1>4. PICK account \in Accounts :
          account = accounts[s] /\ account # None /\ account.reserved >= r.amount
    BY <1>1, <1>2, <1>3 DEF Settleable, BudgetTypeOK
  <1>5. PICK n \in Reservations :
          /\ n = [r EXCEPT !.status = next]
          /\ n.scope = s /\ n.amount = r.amount /\ n.status = next
    <2> DEFINE e == [r EXCEPT !.status = next]
    <2>1. e \in Reservations /\ e.scope = s /\ e.amount = r.amount /\ e.status = next
      BY <1>3 DEF Reservations
    <2> QED BY <2>1
  <1>6. PICK a \in Accounts :
          /\ a = [account EXCEPT !.reserved = @ - r.amount,
                                 !.committed = IF next = "COMMITTED" THEN @ + r.amount ELSE @]
          /\ a.reserved = account.reserved - r.amount
          /\ a.committed = IF next = "COMMITTED" THEN account.committed + r.amount
                           ELSE account.committed
          /\ a.allocation = account.allocation
    <2> DEFINE e == [account EXCEPT
                       !.reserved = @ - r.amount,
                       !.committed = IF next = "COMMITTED" THEN @ + r.amount ELSE @]
    <2>1. account.reserved - r.amount \in Nat /\ account.committed + r.amount \in Nat
      BY <1>4 DEF Accounts, Reservations
    <2>2. /\ e \in Accounts /\ e.reserved = account.reserved - r.amount
          /\ e.committed = IF next = "COMMITTED" THEN account.committed + r.amount
                           ELSE account.committed
          /\ e.allocation = account.allocation
      BY <2>1 DEF Accounts
    <2> QED BY <2>2
  <1>7. accounts' = [accounts EXCEPT ![s] = a] /\ reservations' = [reservations EXCEPT ![c] = n]
    BY <1>2, <1>3, <1>4, <1>5, <1>6 DEF Settle
  <1>8. n # None /\ a # None
    BY BudgetNoneAssumption DEF Accounts, Reservations
  <1>9. BudgetTypeOK'
    BY <1>1, <1>7 DEF BudgetTypeOK
  <1>10. /\ reservations'[c] = n /\ accounts'[s] = a
         /\ \A d \in Cases : d # c => reservations'[d] = reservations[d]
         /\ \A t \in Scopes : t # s => accounts'[t] = accounts[t]
    BY <1>1, <1>7 DEF BudgetTypeOK
  <1>11. IsFiniteSet(Reserving)'
    <2>1. Reserving' = Reserving
      BY <1>2, <1>8, <1>10 DEF Reserving
    <2> QED BY <1>1, <2>1
  <1>12. \A d \in Cases : reservations'[d].amount = reservations[d].amount
    BY <1>2, <1>5, <1>10
  <1> DEFINE In(d, t, status) == reservations[d] # None /\ reservations[d].scope = t
                                   /\ reservations[d].status = status
             After(d, t, status) == reservations'[d] # None /\ reservations'[d].scope = t
                                      /\ reservations'[d].status = status
  <1>13. ASSUME NEW t, NEW status
         PROVE  /\ InStatus(t, status) = {d \in Cases : In(d, t, status)}
                /\ InStatus(t, status)' = {d \in Cases : After(d, t, status)}
    BY DEF InStatus
  <1>14. ASSUME NEW t, NEW status
         PROVE  /\ In(c, t, status) <=> t = s /\ status = "RESERVED"
                /\ After(c, t, status) <=> t = s /\ status = next
                /\ \A d \in Cases : d # c => (After(d, t, status) <=> In(d, t, status))
    BY <1>2, <1>3, <1>5, <1>8, <1>10
  <1> HIDE DEF In, After
  <1>15. ASSUME NEW t \in Scopes, NEW status \in {"RESERVED", "COMMITTED"},
                t # s \/ (status = "COMMITTED" /\ next = "RELEASED")
         PROVE  Total(t, status)' = Total(t, status)
    <2>1. InStatus(t, status)' = InStatus(t, status)
      <3>1. ASSUME NEW d \in Cases PROVE After(d, t, status) <=> In(d, t, status)
        <4>1. CASE d = c
          BY <1>15, <1>14, <4>1
        <4>2. CASE d # c
          BY <1>14, <4>2
        <4> QED BY <4>1, <4>2
      <3> QED BY <1>13, <3>1
    <2>2. Sum(reservations', InStatus(t, status)) = Sum(reservations, InStatus(t, status))
      BY <1>1, <1>12, InStatusFacts, SumSame
    <2> QED BY <1>1, <2>1, <2>2, InStatusFacts, TotalAfter
  <1>16. Total(s, "RESERVED") = Total(s, "RESERVED")' + r.amount /\ Total(s, "RESERVED")' \in Nat
    <2> DEFINE S == InStatus(s, "RESERVED")
    <2>1. InStatus(s, "RESERVED")' = S \ {c} /\ c \in S
      BY <1>13, <1>14
    <2>2. /\ IsFiniteSet(S)
          /\ \A d \in S : d \in Cases /\ reservations[d].amount \in Nat
          /\ Total(s, "RESERVED") = Sum(reservations, S)
      BY <1>1, InStatusFacts
    <2>3. Total(s, "RESERVED")' = Sum(reservations', S \ {c})
      BY <2>1, TotalAfter
    <2>4. c \in S
      BY <2>1
    <2> HIDE DEF S
    <2>5. IsFiniteSet(S \ {c})
      BY <2>2, FS_RemoveElement
    <2>6. Sum(reservations', S \ {c}) = Sum(reservations, S \ {c})
      BY <1>12, <2>2, <2>5, SumSame
    <2>7. Sum(reservations, S) = reservations[c].amount + Sum(reservations, S \ {c})
      BY <2>2, <2>4, SumRemove
    <2>8. Sum(reservations, S \ {c}) \in Nat
      BY <2>2, <2>5, SumNat
    <2> QED BY <1>2, <2>2, <2>3, <2>6, <2>7, <2>8 DEF Reservations
  <1>17. Total(s, "COMMITTED")' = IF next = "COMMITTED" THEN Total(s, "COMMITTED") + r.amount
                                  ELSE Total(s, "COMMITTED")
    <2>1. CASE next = "COMMITTED"
      <3> DEFINE S == InStatus(s, "COMMITTED")
      <3>1. InStatus(s, "COMMITTED")' = S \cup {c} /\ c \notin S
        BY <1>13, <1>14, <2>1
      <3>2. /\ IsFiniteSet(S)
            /\ \A d \in S : d \in Cases /\ reservations[d].amount \in Nat
            /\ Total(s, "COMMITTED") = Sum(reservations, S)
        BY <1>1, InStatusFacts
      <3>3. Total(s, "COMMITTED")' = Sum(reservations', S \cup {c})
        BY <3>1, TotalAfter
      <3>4. c \notin S
        BY <3>1
      <3> HIDE DEF S
      <3>5. Sum(reservations', S) = Sum(reservations, S)
        BY <1>12, <3>2, SumSame
      <3>6. \A d \in S \cup {c} : reservations'[d].amount \in Nat
        BY <1>2, <1>12, <3>2 DEF Reservations
      <3>7. Sum(reservations', S \cup {c}) = Sum(reservations', S) + reservations'[c].amount
        BY <3>2, <3>4, <3>6, SumAdd
      <3> QED BY <1>2, <1>12, <2>1, <3>2, <3>3, <3>5, <3>7
    <2>2. CASE next = "RELEASED"
      BY <1>15, <2>2
    <2> QED BY <2>1, <2>2
  <1>18. ASSUME NEW t \in Scopes
         PROVE  IF accounts'[t] = None
                THEN \A d \in Cases : reservations'[d] # None => reservations'[d].scope # t
                ELSE /\ accounts'[t].reserved = Total(t, "RESERVED")'
                     /\ accounts'[t].committed = Total(t, "COMMITTED")'
    <2>1. CASE t = s
      <3>1. account.reserved = Total(s, "RESERVED") /\ account.committed = Total(s, "COMMITTED")
        BY <1>4 DEF BudgetInv, Balanced
      <3>2. r.amount \in Nat /\ account.reserved \in Nat /\ account.committed \in Nat
        BY DEF Accounts, Reservations
      <3>3. a.reserved = Total(s, "RESERVED")'
        BY <1>6, <1>16, <3>1, <3>2
      <3>4. a.committed = Total(s, "COMMITTED")'
        BY <1>6, <1>17, <3>1
      <3> QED BY <1>8, <1>10, <2>1, <3>3, <3>4
    <2>2. CASE t # s
      <3>1. Total(t, "RESERVED")' = Total(t, "RESERVED") /\ Total(t, "COMMITTED")' = Total(t, "COMMITTED")
        BY <1>15, <2>2
      <3>2. \A d \in Cases : reservations'[d] # None =>
              reservations[d] # None /\ reservations'[d].scope = reservations[d].scope
        BY <1>2, <1>3, <1>5, <1>8, <1>10
      <3>3. accounts'[t] = accounts[t]
        BY <1>10, <2>2
      <3>4. CASE accounts[t] = None
        <4>1. \A d \in Cases : reservations[d] # None => reservations[d].scope # t
          BY <3>4 DEF BudgetInv, Balanced
        <4>2. \A d \in Cases : reservations'[d] # None => reservations'[d].scope # t
          BY <3>2, <4>1
        <4> QED BY <3>3, <3>4, <4>2
      <3>5. CASE accounts[t] # None
        BY <3>1, <3>3, <3>5 DEF BudgetInv, Balanced
      <3> QED BY <3>3, <3>4, <3>5
    <2> QED BY <2>1, <2>2
  <1>19. ASSUME NEW t \in Scopes, accounts'[t] # None
         PROVE  accounts'[t].reserved + accounts'[t].committed <= accounts'[t].allocation
    <2>1. CASE t = s
      <3>1. account.reserved + account.committed <= account.allocation
        BY <1>4 DEF BudgetInv
      <3>2. /\ r.amount \in Nat /\ account.reserved \in Nat /\ account.committed \in Nat
            /\ account.allocation \in Nat
        BY DEF Accounts, Reservations
      <3>3. a.reserved + a.committed <= a.allocation
        BY <1>6, <3>1, <3>2
      <3> QED BY <1>10, <2>1, <3>3
    <2>2. CASE t # s
      BY <1>10, <1>19, <2>2 DEF BudgetInv
    <2> QED BY <2>1, <2>2
  <1>20. Balanced'
    BY <1>9, <1>18 DEF Balanced
  <1> QED BY <1>11, <1>19, <1>20 DEF BudgetInv
-----------------------------------------------------------------------------
LEMMA BudgetInvHolds ==
  ASSUME NEW CONSTANT Allocations \in SUBSET Nat, NEW CONSTANT Amounts \in SUBSET Nat
  PROVE  BudgetSpec(Allocations, Amounts) => []BudgetInv
  <1>1. BudgetInit => BudgetInv
    <2> SUFFICES ASSUME BudgetInit PROVE BudgetInv
      OBVIOUS
    <2>2. BudgetTypeOK /\ Reserving = {} /\ \A s \in Scopes : accounts[s] = None
      BY DEF BudgetInit, BudgetTypeOK, Reserving
    <2>3. \A c \in Cases : reservations[c] = None
      BY DEF BudgetInit
    <2> QED BY <2>2, <2>3, FS_EmptySet DEF BudgetInv, Balanced
  <1>2. BudgetInv /\ [BudgetNext(Allocations, Amounts)]_budgetVars => BudgetInv'
    <2> SUFFICES ASSUME BudgetInv, [BudgetNext(Allocations, Amounts)]_budgetVars
                   PROVE  BudgetInv'
      OBVIOUS
    <2>2. CASE UNCHANGED budgetVars
      <3>1. ASSUME NEW t, NEW status PROVE Total(t, status)' = Total(t, status)
        BY <2>2 DEF budgetVars, Total, InStatus, MapThenSumSet, MapThenFoldSet
      <3> QED BY <2>2, <3>1 DEF budgetVars, BudgetInv, Balanced, BudgetTypeOK, Reserving
    <2>3. ASSUME NEW c \in Cases, NEW f \in Fingerprints, NEW s \in Scopes,
                 NEW allocation \in Allocations, NEW amount \in Amounts,
                 Reserve(c, s, allocation, amount, f)
          PROVE  BudgetInv'
      <3>1. CASE ReserveResult(c, s, allocation, amount, f) = "RESERVED"
        BY <2>3, <3>1, ReservePreserves
      <3>2. CASE ReserveResult(c, s, allocation, amount, f) # "RESERVED"
        BY <2>2, <2>3, <3>2 DEF Reserve
      <3> QED BY <3>1, <3>2
    <2>4. ASSUME NEW c \in Cases, NEW f \in Fingerprints,
                 NEW next \in {"COMMITTED", "RELEASED"}, Settleable(c, f, next), Settle(c, f, next)
          PROVE  BudgetInv'
      <3>1. CASE reservations[c].status = next
        BY <2>2, <2>4, <3>1 DEF Settle
      <3>2. CASE reservations[c].status # next
        BY <2>4, <3>2, SettlePreserves
      <3> QED BY <3>1, <3>2
    <2> QED BY <2>2, <2>3, <2>4 DEF BudgetNext
  <1> QED BY <1>1, <1>2, PTL DEF BudgetSpec

\* Every account is the sum of the reservations it was made of.
THEOREM LedgerBalanced ==
  ASSUME NEW CONSTANT Allocations \in SUBSET Nat, NEW CONSTANT Amounts \in SUBSET Nat
  PROVE  BudgetSpec(Allocations, Amounts) => []Balanced
  <1>1. BudgetInv => Balanced
    BY DEF BudgetInv
  <1> QED BY <1>1, BudgetInvHolds, PTL
-----------------------------------------------------------------------------
(***************************************************************************)
(* The refinement of SpendingLimit.                                        *)
(***************************************************************************)
WithinLimits ==
  \A s \in Scopes : accounts[s] # None => Limit!Claimed(Claims, s) <= accounts[s].allocation

\* What is claimed of a scope is what its account has reserved and committed.
LEMMA ClaimedWithinLimits == BudgetInv => WithinLimits
  <1> SUFFICES ASSUME BudgetInv, NEW s \in Scopes, accounts[s] # None
               PROVE  Limit!Claimed(Claims, s) <= accounts[s].allocation
    BY DEF WithinLimits
  <1> DEFINE R == InStatus(s, "RESERVED")
             C == InStatus(s, "COMMITTED")
  <1>1. BudgetTypeOK /\ IsFiniteSet(Reserving)
    BY DEF BudgetInv, Balanced
  <1>2. ASSUME NEW c \in Cases
        PROVE  /\ reservations[c] = None => Claims[c] = None
               /\ reservations[c] # None =>
                    /\ Claims[c] # None
                    /\ Claims[c].scope = reservations[c].scope
                    /\ Claims[c].amount = reservations[c].amount
                    /\ Claims[c].state # "FREED" <=>
                         reservations[c].status \in {"RESERVED", "COMMITTED"}
    <2>1. CASE reservations[c] = None
      BY <2>1 DEF Claims
    <2>2. CASE reservations[c] # None
      <3>1. PICK r \in Reservations : r = reservations[c]
        BY <1>1, <2>2 DEF BudgetTypeOK
      <3>2. Claims[c] = [scope |-> r.scope, amount |-> r.amount, state |-> StateOf(r.status)]
        BY <2>2, <3>1 DEF Claims
      <3>3. r.scope \in Scopes /\ r.amount \in Nat /\ r.status \in {"RESERVED", "COMMITTED", "RELEASED"}
        BY DEF Reservations
      <3>4. /\ StateOf(r.status) \in {"HELD", "SPENT", "FREED"}
            /\ StateOf(r.status) # "FREED" <=> r.status \in {"RESERVED", "COMMITTED"}
        BY <3>3 DEF StateOf
      <3>5. Claims[c] \in [scope : Scopes, amount : Nat, state : {"HELD", "SPENT", "FREED"}]
        BY <3>2, <3>3, <3>4
      <3>6. Claims[c] # None
        BY <3>5, BudgetNoneAssumption
      <3> QED BY <2>2, <3>1, <3>2, <3>4, <3>6
    <2> QED BY <2>1, <2>2
  <1>3. Limit!Live(Claims, s) = R \cup C
    BY <1>2 DEF Limit!Live, InStatus
  <1>4. /\ IsFiniteSet(R) /\ IsFiniteSet(C)
        /\ \A c \in R \cup C : reservations[c].amount \in Nat /\ Claims[c].amount = reservations[c].amount
        /\ Total(s, "RESERVED") = Sum(reservations, R) /\ Total(s, "RESERVED") \in Nat
        /\ Total(s, "COMMITTED") = Sum(reservations, C) /\ Total(s, "COMMITTED") \in Nat
    <2>1. \A c \in R \cup C : c \in Cases /\ reservations[c] # None
      BY DEF InStatus
    <2>2. \A c \in R \cup C : Claims[c].amount = reservations[c].amount
      BY <1>2, <2>1
    <2> QED BY <1>1, <2>2, InStatusFacts
  <1>5. R \cap C = {}
    BY DEF InStatus
  <1>6. Limit!Claimed(Claims, s) = Sum(Claims, Limit!Live(Claims, s))
    BY DEF Limit!Claimed, Limit!MapThenSumSet, Limit!MapThenFoldSet, Sum, MapThenSumSet, MapThenFoldSet
  <1>7. /\ accounts[s].reserved = Total(s, "RESERVED")
        /\ accounts[s].committed = Total(s, "COMMITTED")
        /\ accounts[s].reserved + accounts[s].committed <= accounts[s].allocation
    BY DEF BudgetInv, Balanced
  <1> HIDE DEF R, C
  <1>8. Sum(Claims, R \cup C) = Sum(reservations, R \cup C)
    BY <1>4, FS_Union, SumSame
  <1>9. Sum(reservations, R \cup C) = Sum(reservations, R) + Sum(reservations, C)
    BY <1>4, <1>5, SumUnion
  <1> QED BY <1>3, <1>4, <1>6, <1>7, <1>8, <1>9

\* Only the first reservation of a case claims money.
LEMMA ReserveHolds ==
  ASSUME BudgetInv, WithinLimits', NEW c \in Cases, NEW s \in Scopes, NEW f \in Fingerprints,
         NEW allocation \in Nat, NEW amount \in Nat, Reserve(c, s, allocation, amount, f),
         ReserveResult(c, s, allocation, amount, f) = "RESERVED"
  PROVE  Limit!Next
  <1>1. BudgetTypeOK
    BY DEF BudgetInv, Balanced
  <1>2. PICK account \in Accounts : account = AccountFor(s, allocation)
    BY ReserveAdds
  <1>3. PICK r \in Reservations :
          r = [scope |-> s, amount |-> amount, fingerprint |-> f, status |-> "RESERVED"]
    BY DEF Reservations
  <1>4. /\ reservations[c] = None
        /\ accounts' = [accounts EXCEPT ![s] = [account EXCEPT !.reserved = @ + amount]]
        /\ reservations' = [reservations EXCEPT ![c] = r]
    BY <1>2, <1>3, ReserveAdds
  <1>5. PICK a \in Accounts :
          a = [account EXCEPT !.reserved = @ + amount] /\ a.allocation = account.allocation
    <2> DEFINE e == [account EXCEPT !.reserved = @ + amount]
    <2>1. e \in Accounts /\ e.allocation = account.allocation
      BY DEF Accounts
    <2> QED BY <2>1
  <1>6. a # None /\ r # None
    BY BudgetNoneAssumption DEF Accounts, Reservations
  <1>7. /\ accounts'[s] = a /\ reservations'[c] = r
        /\ \A d \in Cases : d # c => reservations'[d] = reservations[d]
        /\ \A t \in Scopes : t # s => accounts'[t] = accounts[t]
    BY <1>1, <1>4, <1>5 DEF BudgetTypeOK
  <1> DEFINE held == [scope |-> s, amount |-> amount, state |-> "HELD"]
             l    == account.allocation
  <1>8. held # None /\ Claims'[c] = held
    <2>1. held \in [scope : Scopes, amount : Nat, state : {"HELD", "SPENT", "FREED"}]
      OBVIOUS
    <2>2. r.scope = s /\ r.amount = amount /\ r.status = "RESERVED"
      BY <1>3
    <2> QED BY <1>6, <1>7, <2>1, <2>2, BudgetNoneAssumption DEF Claims, StateOf
  <1>9. Claims[c] = None
    BY <1>4 DEF Claims
  <1>10. Claims' = [Claims EXCEPT ![c] = held]
    <2>1. \A d \in Cases : Claims'[d] = IF d = c THEN held ELSE Claims[d]
      BY <1>7, <1>8 DEF Claims
    <2>2. /\ Claims = [d \in Cases |-> Claims[d]]
          /\ Claims' = [d \in Cases |-> Claims'[d]]
      BY DEF Claims
    <2> QED BY <2>1, <2>2
  <1>11. Limits[s] \in {None, l}
    BY <1>2 DEF Limits, AccountFor
  <1>12. Limits' = [Limits EXCEPT ![s] = l]
    <2>1. \A t \in Scopes : Limits'[t] = IF t = s THEN l ELSE Limits[t]
      BY <1>5, <1>6, <1>7 DEF Limits
    <2>2. /\ Limits = [t \in Scopes |-> Limits[t]]
          /\ Limits' = [t \in Scopes |-> Limits'[t]]
      BY DEF Limits
    <2> QED BY <2>1, <2>2
  <1>13. Limit!Claimed(Claims', s) <= l
    BY <1>5, <1>6, <1>7 DEF WithinLimits
  <1>14. Claims'[c].amount = amount /\ Limits'[s] = l
    BY <1>8, <1>12 DEF Limits
  <1>15. Limit!Hold(c, s, Claims'[c].amount, Limits'[s])
    <2> HIDE DEF l
    <2> QED BY <1>8, <1>9, <1>10, <1>11, <1>12, <1>13, <1>14 DEF Limit!Hold
  <1>16. Claims'[c] # None
    BY <1>8
  <1> QED BY <1>15, <1>16 DEF Limit!Next

LEMMA SettleResolves ==
  ASSUME BudgetInv, NEW c \in Cases, NEW f \in Fingerprints,
         NEW next \in {"COMMITTED", "RELEASED"}, Settleable(c, f, next), Settle(c, f, next),
         reservations[c].status # next
  PROVE  Limit!Next
  <1>1. BudgetTypeOK
    BY DEF BudgetInv, Balanced
  <1>2. PICK r \in Reservations :
          r = reservations[c] /\ r # None /\ r.status = "RESERVED" /\ r.scope \in Scopes
    BY <1>1 DEF Settleable, BudgetTypeOK, Reservations
  <1>3. PICK account \in Accounts :
          account = accounts[r.scope] /\ account # None
    BY <1>1, <1>2 DEF Settleable, BudgetTypeOK
  <1> DEFINE n == [r EXCEPT !.status = next]
             a == [account EXCEPT
                     !.reserved = @ - r.amount,
                     !.committed = IF next = "COMMITTED" THEN @ + r.amount ELSE @]
             state == IF next = "COMMITTED" THEN "SPENT" ELSE "FREED"
             claimed == [scope |-> r.scope, amount |-> r.amount, state |-> "HELD"]
             resolved == [scope |-> r.scope, amount |-> r.amount, state |-> state]
  <1>4. accounts' = [accounts EXCEPT ![r.scope] = a] /\ reservations' = [reservations EXCEPT ![c] = n]
    BY <1>2, <1>3 DEF Settle
  <1>5. /\ n \in Reservations /\ n.scope = r.scope /\ n.amount = r.amount /\ n.status = next
        /\ n # None
    BY BudgetNoneAssumption DEF Reservations
  <1>6. a.allocation = account.allocation /\ a # None
    <2>1. a.allocation = account.allocation
      BY DEF Accounts
    <2>2. accounts[r.scope].reserved >= r.amount /\ r.amount \in Nat
      BY <1>2 DEF Settleable, Reservations
    <2>3. account.reserved - r.amount \in Nat /\ account.committed + r.amount \in Nat
      BY <1>3, <2>2 DEF Accounts
    <2>4. a \in Accounts
      BY <2>3 DEF Accounts
    <2> QED BY <2>1, <2>4, BudgetNoneAssumption DEF Accounts
  <1> HIDE DEF n, a
  <1>7. /\ accounts'[r.scope] = a /\ reservations'[c] = n
        /\ \A d \in Cases : d # c => reservations'[d] = reservations[d]
        /\ \A t \in Scopes : t # r.scope => accounts'[t] = accounts[t]
    BY <1>1, <1>2, <1>4 DEF BudgetTypeOK
  <1>8. Claims[c] = claimed /\ Claims'[c] = resolved
    BY <1>2, <1>5, <1>7 DEF Claims, StateOf
  <1>9. claimed # None
    BY <1>2, BudgetNoneAssumption DEF Reservations
  <1>10. Claims' = [Claims EXCEPT ![c].state = state]
    <2>1. \A d \in Cases : Claims'[d] = IF d = c THEN resolved ELSE Claims[d]
      BY <1>7, <1>8 DEF Claims
    <2>2. /\ Claims = [d \in Cases |-> Claims[d]]
          /\ Claims' = [d \in Cases |-> Claims'[d]]
      BY DEF Claims
    <2>3. resolved = [claimed EXCEPT !.state = state]
      OBVIOUS
    <2> HIDE DEF resolved, claimed
    <2>4. [Claims EXCEPT ![c].state = state] = [Claims EXCEPT ![c] = resolved]
      BY <1>8, <2>2, <2>3
    <2> QED BY <2>1, <2>2, <2>4
  <1>11. Limits' = Limits
    <2>1. \A t \in Scopes : Limits'[t] = Limits[t]
      BY <1>2, <1>3, <1>6, <1>7 DEF Limits
    <2>2. /\ Limits = [t \in Scopes |-> Limits[t]]
          /\ Limits' = [t \in Scopes |-> Limits'[t]]
      BY DEF Limits
    <2> QED BY <2>1, <2>2
  <1>12. Limit!Resolve(c, state)
    <2>1. Claims[c] # None /\ Claims[c].state = "HELD"
      BY <1>8, <1>9
    <2> QED BY <1>10, <1>11, <2>1 DEF Limit!Resolve
  <1>13. state \in {"SPENT", "FREED"}
    OBVIOUS
  <1> QED BY <1>12, <1>13 DEF Limit!Next

\* The ledger implements SpendingLimit.
THEOREM LedgerKeepsLimit ==
  ASSUME NEW CONSTANT Allocations \in SUBSET Nat, NEW CONSTANT Amounts \in SUBSET Nat
  PROVE  BudgetSpec(Allocations, Amounts) => KeepsLimit
  <1>1. BudgetInit => Limit!Init
    BY DEF BudgetInit, Limit!Init, Limits, Claims
  <1>2. BudgetInv /\ WithinLimits' /\ [BudgetNext(Allocations, Amounts)]_budgetVars
          => [Limit!Next]_(Limit!limitVars)
    <2> SUFFICES ASSUME BudgetInv, WithinLimits', [BudgetNext(Allocations, Amounts)]_budgetVars
                 PROVE  [Limit!Next]_(Limit!limitVars)
      OBVIOUS
    <2>1. CASE UNCHANGED budgetVars
      BY <2>1 DEF budgetVars, Limit!limitVars, Limits, Claims
    <2>2. ASSUME NEW c \in Cases, NEW f \in Fingerprints, NEW s \in Scopes,
                 NEW allocation \in Allocations, NEW amount \in Amounts,
                 Reserve(c, s, allocation, amount, f)
          PROVE  [Limit!Next]_(Limit!limitVars)
      <3>1. CASE ReserveResult(c, s, allocation, amount, f) = "RESERVED"
        BY <2>2, <3>1, ReserveHolds
      <3>2. CASE ReserveResult(c, s, allocation, amount, f) # "RESERVED"
        BY <2>1, <2>2, <3>2 DEF Reserve
      <3> QED BY <3>1, <3>2
    <2>3. ASSUME NEW c \in Cases, NEW f \in Fingerprints,
                 NEW next \in {"COMMITTED", "RELEASED"}, Settleable(c, f, next), Settle(c, f, next)
          PROVE  [Limit!Next]_(Limit!limitVars)
      <3>1. CASE reservations[c].status = next
        BY <2>1, <2>3, <3>1 DEF Settle
      <3>2. CASE reservations[c].status # next
        BY <2>3, <3>2, SettleResolves
      <3> QED BY <3>1, <3>2
    <2> QED BY <2>1, <2>2, <2>3 DEF BudgetNext
  <1> QED BY <1>1, <1>2, BudgetInvHolds, ClaimedWithinLimits, PTL DEF BudgetSpec, KeepsLimit, Limit!Spec
=============================================================================
