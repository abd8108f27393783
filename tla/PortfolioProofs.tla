----------------------------- MODULE PortfolioProofs -----------------------------
(***************************************************************************)
(* Proofs about Portfolio for any sets of users, tickers and requests, any  *)
(* orders and prices and any starting cash.                                 *)
(*                                                                          *)
(* The inductive invariant is TypeOK, TransactionIsolated and Solvent       *)
(* together: a fill keeps the account solvent because the row lock keeps    *)
(* what the transaction has read equal to what is committed.  On it rest    *)
(* the accounts: shares and cash are the sums of the trade history, and the *)
(* average price of a holding lies within the prices paid for it.           *)
(***************************************************************************)
EXTENDS Portfolio, WellFoundedInduction, TLAPS

-----------------------------------------------------------------------------
(* Sums of a history.  FoldLeft is a recursive function on the subsets of   *)
(* the positions, so what a sum is follows from the existence of such a     *)
(* function, by induction on the number of positions.                       *)

\* A set of naturals that is not empty has a least member.
LEMMA Least ==
  ASSUME NEW S, S \subseteq Nat, S # {}
  PROVE  \E least \in S : \A x \in S : least <= x
<1>. DEFINE Below == {pair \in Nat \X Nat : pair[1] < pair[2]}
<1>1. IsWellFoundedOn(Below, Nat)
  BY NatLessThanWellFounded DEF OpToRel
<1>2. PICK least \in S : \A x \in S : ~(<<x, least>> \in Below)
  <2>. HIDE DEF Below
  <2>. QED BY <1>1, WFMin
<1>3. \A x, y \in Nat : x < y => <<x, y>> \in Below
  OBVIOUS
<1>. HIDE DEF Below
<1>4. \A x \in S : ~(x < least)
  BY <1>2, <1>3
<1>5. \A x \in S : least <= x
  BY <1>4
<1>. QED BY <1>5

\* Induction over the naturals, by the least counterexample.
LEMMA Induction ==
  ASSUME NEW S, 0 \in S, \A n \in Nat : n \in S => n + 1 \in S
  PROVE  \A n \in Nat : n \in S
<1>. SUFFICES ASSUME NEW m \in Nat, m \notin S PROVE FALSE
  OBVIOUS
<1>1. PICK n \in Nat \ S : \A x \in Nat \ S : n <= x
  <2>1. Nat \ S \subseteq Nat /\ Nat \ S # {}
    OBVIOUS
  <2>. QED BY <2>1, Least
<1>2. n # 0 /\ n - 1 \in Nat
  BY <1>1
<1>3. n - 1 \in S
  BY <1>1, <1>2
<1>. QED BY <1>2, <1>3, <1>1

\* The largest member of a set of positions.
LEMMA MaxOf ==
  ASSUME NEW n \in Nat, NEW s \in SUBSET (1..n), s # {}
  PROVE  Max(s) \in s /\ \A x \in s : x <= Max(s)
<1>. DEFINE T == {n - x : x \in s}
<1>1. T \subseteq Nat /\ T # {}
  <2>1. \A x \in s : n - x \in Nat
    OBVIOUS
  <2>. QED BY <2>1
<1>2. PICK t \in T : \A x \in T : t <= x
  BY <1>1, Least
<1>3. PICK m \in s : t = n - m
  BY <1>2
<1>4. \A x \in s : m >= x
  <2>1. \A x \in s : n - m <= n - x
    BY <1>2, <1>3
  <2>. QED BY <2>1
<1>5. \E y \in s : \A x \in s : y >= x
  BY <1>4
<1>6. Max(s) \in s /\ \A x \in s : Max(s) >= x
  <2>. HIDE DEF T
  <2>. QED BY <1>5, Zenon DEF Max
<1>7. s \subseteq Int
  OBVIOUS
<1>. QED BY <1>6, <1>7

\* f adds up the amounts of a at any of its first n positions, last one first.
Adds(f, a, n) ==
  \A s \in SUBSET (1..n) :
    f[s] = IF s = {} THEN 0 ELSE f[s \ {Max(s)}] + a[Max(s)]

\* Some function adds up the first n amounts of a.
Addable(a, n) == \E f \in [SUBSET (1..n) -> Int] : Adds(f, a, n)

\* Amounts can be added up.
LEMMA AdderExists ==
  ASSUME NEW a, NEW N \in Nat, \A i \in 1..N : a[i] \in Int
  PROVE  Addable(a, N)
<1>. DEFINE Have == {n \in Nat : n <= N => Addable(a, n)}
<1>1. 0 \in Have
  <2>. DEFINE z == [s \in SUBSET (1..0) |-> 0]
  <2>1. Adds(z, a, 0) /\ z \in [SUBSET (1..0) -> Int]
    BY 1..0 = {} DEF Adds
  <2>. HIDE DEF z
  <2>. QED BY <2>1 DEF Addable
<1>2. ASSUME NEW n \in Nat, n \in Have, n + 1 <= N 
      PROVE Addable(a, n + 1)
  <2>0. Addable(a, n)
    <3>1. n <= N
      BY <1>2
    <3>. QED BY <1>2, <3>1
  <2>1. PICK f \in [SUBSET (1..n) -> Int] : Adds(f, a, n)
    <3>. HIDE DEF Have
    <3>. QED BY <2>0 DEF Addable
  <2>. DEFINE D == SUBSET (1..(n + 1))
              g == [s \in D |-> IF n + 1 \in s THEN f[s \ {n + 1}] + a[n + 1] ELSE f[s]]
  <2>2. \A s \in D : /\ s \ {n + 1} \in SUBSET (1..n)
                     /\ n + 1 \notin s => s \in SUBSET (1..n)
    BY 1..(n + 1) = (1..n) \union {n + 1}
  <2>3. /\ a[n + 1] \in Int
        /\ \A s \in SUBSET (1..n) : f[s] \in Int
    BY <1>2, <2>1 DEF Adds
  <2>4. g \in [D -> Int]
    BY <2>2, <2>3
  <2>5. ASSUME NEW s \in D PROVE g[s] = IF s = {} THEN 0 ELSE g[s \ {Max(s)}] + a[Max(s)]
    <3>1. CASE n + 1 \in s
      <4>1. Max(s) = n + 1
        <5>1. Max(s) \in s /\ n + 1 <= Max(s) /\ s \subseteq 1..(n + 1)
          BY <3>1, MaxOf, n + 1 \in Nat
        <5>2. Max(s) \in 1..(n + 1)
          BY <5>1
        <5>. HIDE DEF g
        <5>. QED BY <5>1, <5>2
      <4>2. s \ {n + 1} \in D /\ n + 1 \notin s \ {n + 1}
        OBVIOUS
      <4>3. g[s] = f[s \ {n + 1}] + a[n + 1] /\ g[s \ {n + 1}] = f[s \ {n + 1}]
        BY <3>1, <4>2
      <4>. HIDE DEF g
      <4>. QED BY <3>1, <4>1, <4>3
    <3>2. CASE n + 1 \notin s
      <4>1. s \in SUBSET (1..n) /\ g[s] = f[s]
        BY <2>2, <3>2
      <4>2. CASE s = {}
        BY <2>1, <4>1, <4>2 DEF Adds
      <4>3. CASE s # {}
        <5>1. Max(s) \in s
          BY <4>1, <4>3, MaxOf
        <5>2. /\ s \ {Max(s)} \in SUBSET (1..n) /\ s \ {Max(s)} \in D
              /\ n + 1 \notin s \ {Max(s)}
          BY <3>2, <4>1
        <5>3. g[s \ {Max(s)}] = f[s \ {Max(s)}]
          BY <5>2
        <5>. HIDE DEF g
        <5>. QED BY <2>1, <4>1, <4>3, <5>3 DEF Adds
      <4>. QED BY <4>2, <4>3
    <3>. QED BY <3>1, <3>2
  <2>6. Adds(g, a, n + 1)
    <3>. HIDE DEF g
    <3>. QED BY <2>4, <2>5 DEF Adds
  <2>. HIDE DEF g
  <2>. QED BY <2>4, <2>6 DEF Addable
<1>3. \A n \in Nat : n \in Have => n + 1 \in Have
  BY <1>2
<1>. HIDE DEF Have
<1>4. N \in Have
  BY <1>1, <1>3, Induction
<1>. QED BY <1>4 DEF Have

\* Two ways of adding up the same amounts agree.
LEMMA AddersAgree ==
  ASSUME NEW a, NEW b, NEW N \in Nat, NEW M \in Nat, NEW f, NEW g,
         Adds(f, a, N), Adds(g, b, M),
         NEW k \in Nat, k <= N, k <= M, \A i \in 1..k : a[i] = b[i]
  PROVE  f[1..k] = g[1..k]
<1>. DEFINE Same == {n \in Nat : n <= k => f[1..n] = g[1..n]}
<1>1. 0 \in Same
  BY 1..0 = {} DEF Adds
<1>2. ASSUME NEW n \in Nat, n \in Same, n + 1 <= k PROVE f[1..(n + 1)] = g[1..(n + 1)]
  <2>1. /\ 1..(n + 1) \in SUBSET (1..N) /\ 1..(n + 1) \in SUBSET (1..M)
        /\ 1..(n + 1) # {} /\ n + 1 \in 1..(n + 1)
    BY <1>2
  <2>2. Max(1..(n + 1)) = n + 1
    <3>1. Max(1..(n + 1)) \in 1..(n + 1) /\ n + 1 <= Max(1..(n + 1))
      BY <2>1, MaxOf, n + 1 \in Nat
    <3>. QED BY <3>1
  <2>3. 1..(n + 1) \ {n + 1} = 1..n
    OBVIOUS
  <2>4. /\ f[1..(n + 1)] = f[1..n] + a[n + 1]
        /\ g[1..(n + 1)] = g[1..n] + b[n + 1]
    BY <2>1, <2>2, <2>3 DEF Adds
  <2>. QED BY <1>2, <2>4
<1>3. \A n \in Nat : n \in Same => n + 1 \in Same
  BY <1>2
<1>. HIDE DEF Same
<1>4. k \in Same
  BY <1>1, <1>3, Induction
<1>. QED BY <1>4 DEF Same

\* Total adds up all the amounts of a sequence.
LEMMA TotalUnfolds ==
  ASSUME NEW a \in Seq(Int)
  PROVE  \E f : Adds(f, a, Len(a)) /\ Total(a) = f[1..Len(a)]
<1>. DEFINE F(f) == [s \in SUBSET (1..Len(a)) |->
                       IF s = {} THEN 0 ELSE f[s \ {Max(s)}] + a[Max(s)]]
            T == CHOOSE f : f = F(f)
<1>1. DOMAIN a = 1..Len(a) /\ Len(a) \in Nat /\ \A i \in 1..Len(a) : a[i] \in Int
  OBVIOUS
<1>2. PICK g : Adds(g, a, Len(a)) /\ g \in [SUBSET (1..Len(a)) -> Int]
  BY <1>1, AdderExists DEF Addable
<1>3. g = F(g)
  BY <1>2 DEF Adds
<1>4. T = F(T)
  <2>. HIDE DEF F
  <2>. QED BY <1>3
<1>5. Total(a) = T[1..Len(a)]
  BY <1>1 DEF Total, FoldLeft, MapThenFoldSet
<1>6. Adds(T, a, Len(a))
  <2>1. \A s \in SUBSET (1..Len(a)) : F(T)[s] = IF s = {} THEN 0 ELSE T[s \ {Max(s)}] + a[Max(s)]
    <3>. HIDE DEF T
    <3>. QED OBVIOUS
  <2>. HIDE DEF F
  <2>2. \A s \in SUBSET (1..Len(a)) : T[s] = IF s = {} THEN 0 ELSE T[s \ {Max(s)}] + a[Max(s)]
    <3>. HIDE DEF T
    <3>. QED BY <1>4, <2>1
  <2>. HIDE DEF T
  <2>. QED BY <2>2 DEF Adds
<1>. HIDE DEF T
<1>. QED BY <1>5, <1>6

\* Nothing adds up to nothing.
LEMMA TotalEmpty == Total(<<>>) = 0
<1>1. <<>> \in Seq(Int) /\ Len(<<>>) = 0
  OBVIOUS
<1>2. PICK f : Adds(f, <<>>, 0) /\ Total(<<>>) = f[1..0]
  BY <1>1, TotalUnfolds
<1>. QED BY <1>2, 1..0 = {} DEF Adds

\* Integers add up to an integer.
LEMMA TotalInt ==
  ASSUME NEW a \in Seq(Int)
  PROVE  Total(a) \in Int
<1>1. Len(a) \in Nat /\ \A i \in 1..Len(a) : a[i] \in Int
  OBVIOUS
<1>2. PICK f : Adds(f, a, Len(a)) /\ Total(a) = f[1..Len(a)]
  BY TotalUnfolds
<1>3. PICK g \in [SUBSET (1..Len(a)) -> Int] : Adds(g, a, Len(a))
  BY <1>1, AdderExists DEF Addable
<1>4. f[1..Len(a)] = g[1..Len(a)]
  BY <1>1, <1>2, <1>3, AddersAgree, Len(a) <= Len(a)
<1>. QED BY <1>2, <1>3, <1>4

\* One more amount changes the sum by that amount.
LEMMA TotalAppend ==
  ASSUME NEW a \in Seq(Int), NEW x \in Int
  PROVE  Total(Append(a, x)) = Total(a) + x
<1>. DEFINE b == Append(a, x)
            n == Len(a)
<1>1. /\ b \in Seq(Int) /\ n \in Nat /\ Len(b) = n + 1 /\ b[n + 1] = x
      /\ \A i \in 1..n : a[i] = b[i]
  OBVIOUS
<1>. HIDE DEF b
<1>2. PICK f : Adds(f, a, n) /\ Total(a) = f[1..n]
  BY TotalUnfolds
<1>3. PICK g : Adds(g, b, n + 1) /\ Total(b) = g[1..(n + 1)]
  BY <1>1, TotalUnfolds
<1>. HIDE DEF n
<1>4. f[1..n] = g[1..n]
  <2>1. n \in Nat /\ n + 1 \in Nat /\ n <= n + 1 /\ n <= n
    BY <1>1
  <2>. QED BY <1>1, <1>2, <1>3, <2>1, AddersAgree
<1>5. /\ 1..(n + 1) \in SUBSET (1..(n + 1)) /\ 1..(n + 1) # {} /\ n + 1 \in 1..(n + 1)
      /\ (1..(n + 1)) \ {n + 1} = 1..n
  <2>1. n \in Nat
    BY <1>1
  <2>. QED BY <2>1
<1>6. Max(1..(n + 1)) = n + 1
  <2>1. Max(1..(n + 1)) \in 1..(n + 1) /\ n + 1 <= Max(1..(n + 1))
    BY <1>1, <1>5, MaxOf, n + 1 \in Nat
  <2>. QED BY <1>1, <2>1
<1>7. g[1..(n + 1)] = g[1..n] + b[n + 1]
  BY <1>3, <1>5, <1>6 DEF Adds
<1>. QED BY <1>1, <1>2, <1>3, <1>4, <1>7 DEF b

-----------------------------------------------------------------------------
USE DEF UnitsPerCent, NoPrice, Units

\* Storing a non-negative amount yields a non-negative number of cents, within
\* half a cent of the amount.
LEMMA ToCentsRounds ==
  ASSUME NEW n \in Nat
  PROVE  /\ ToCents(n) \in Nat
         /\ 2 * (Units(ToCents(n)) - n) <= UnitsPerCent
         /\ 2 * (n - Units(ToCents(n))) <= UnitsPerCent
  BY DEF ToCents, RoundHalfUp

\* A rounded quotient of integers is an integer.
LEMMA RoundHalfUpInt ==
  ASSUME NEW n \in Int, NEW d \in Nat \ {0}
  PROVE  RoundHalfUp(n, d) \in Int
  BY DEF RoundHalfUp

IInv == TypeOK /\ TransactionIsolated /\ Solvent

\* What an order says, for any order a request may carry.
LEMMA OrderFacts ==
  ASSUME TypeOK, NEW r \in Requests
  PROVE  /\ order[r].user \in Users
         /\ order[r].ticker \in Tickers
         /\ order[r].side \in {"buy", "sell"}
         /\ order[r].quantity \in Int
         /\ Key(r) \in Users \X Tickers
         /\ Key(r) = <<order[r].user, order[r].ticker>>
  BY OrdersAssumption DEF TypeOK, Key

\* What a request that commits is about to write.
LEMMA CommitFacts ==
  ASSUME IInv, NEW r \in Requests, Commit(r)
  PROVE  /\ TradeOf(r) \in TradeRow
         /\ Cost(r) \in Nat
         /\ NewCash(r) \in Nat
         /\ NewQuantity(r) \in Nat
         /\ NewAvg(r) \in Int
         /\ order[r].side = "buy" => NewQuantity(r) # 0
  <1>1. /\ pc[r] = "loaded" /\ price[r] \in Prices /\ order[r].quantity > 0
        /\ seen[r].cash = cash[order[r].user]
        /\ seen[r].quantity = Held(Key(r))
        /\ Fillable(r)
    BY DEF IInv, TransactionIsolated, Isolated, Commit, InTransaction
  <1>2. price[r] \in Nat \ {0}
    BY <1>1, PricesAssumption
  <1>3. /\ seen[r] \in Seen /\ order[r].user \in Users /\ order[r].ticker \in Tickers
        /\ order[r].side \in {"buy", "sell"} /\ order[r].quantity \in Nat \ {0}
        /\ Key(r) \in Users \X Tickers
    BY <1>1, OrderFacts DEF IInv, TypeOK
  <1>4. seen[r].cash \in Nat
    BY <1>1, <1>3 DEF IInv, TypeOK, Solvent
  <1>5. Held(Key(r)) \in Nat
    BY <1>3 DEF Held, IInv, TypeOK, Solvent, Key
  <1>6. Cost(r) \in Nat
    BY <1>2, <1>3 DEF Cost
  <1>7. NewCash(r) \in Nat
    <2>1. CASE order[r].side = "buy"
      <3>1. Units(seen[r].cash) - Cost(r) \in Nat
        BY <1>1, <1>4, <1>6, <2>1 DEF Fillable
      <3>2. QED
        BY <2>1, <3>1, ToCentsRounds DEF NewCash
    <2>2. CASE order[r].side = "sell"
      <3>1. Units(seen[r].cash) + Cost(r) \in Nat
        BY <1>4, <1>6
      <3>2. QED
        BY <2>2, <3>1, ToCentsRounds DEF NewCash
    <2>3. QED
      BY <1>3, <2>1, <2>2
  <1>8. NewQuantity(r) \in Nat /\ (order[r].side = "buy" => NewQuantity(r) # 0)
    BY <1>1, <1>3, <1>5 DEF NewQuantity, Fillable
  <1>9. NewAvg(r) \in Int
    <2>1. CASE order[r].side = "buy"
      <3>1. seen[r].avg * seen[r].quantity + Cost(r) \in Int
        BY <1>3, <1>6 DEF Seen
      <3>2. QED
        BY <2>1, <3>1, <1>8, RoundHalfUpInt DEF NewAvg
    <2>2. CASE order[r].side = "sell"
      BY <2>2, <1>3 DEF NewAvg, Seen
    <2>3. QED
      BY <1>3, <2>1, <2>2
  <1>10. TradeOf(r) \in TradeRow
    BY <1>2, <1>3 DEF TradeOf, TradeRow
  <1>11. QED
    BY <1>6, <1>7, <1>8, <1>9, <1>10

\* The initial state.
LEMMA InitIInv == Init => IInv
  <1> SUFFICES ASSUME Init PROVE IInv
    OBVIOUS
  <1>1. TypeOK
    BY InitialCashAssumption DEF Init, TypeOK, Stages, Seen, TradeRow
  <1>2. TransactionIsolated
    BY DEF Init, TransactionIsolated, Isolated, InTransaction
  <1>3. Solvent
    BY InitialCashAssumption DEF Init, Solvent
  <1>4. QED
    BY <1>1, <1>2, <1>3 DEF IInv

\* Every step keeps the variables in their types.
LEMMA TypeStep ==
  ASSUME IInv, [Next]_vars
  PROVE  TypeOK'
  <1> USE DEF TypeOK, Stages, InTransaction, Answered, market, tables, requests, ReleasedLock
  <1>1. TypeOK
    BY DEF IInv
  <1>2. ASSUME NEW r \in Requests, Quote(r) PROVE TypeOK'
    BY <1>1, <1>2, OrderFacts DEF Quote
  <1>3. ASSUME NEW r \in Requests, RejectOrder(r) PROVE TypeOK'
    BY <1>1, <1>3 DEF RejectOrder
  <1>4. ASSUME NEW r \in Requests, LockPortfolio(r) PROVE TypeOK'
    <2>1. seen' \in [Requests -> Seen]
      BY <1>1, <1>4, OrderFacts DEF LockPortfolio, Seen
    <2>2. QED
      BY <1>1, <1>4, <2>1, OrderFacts DEF LockPortfolio
  <1>5. ASSUME NEW r \in Requests, LoadPosition(r) PROVE TypeOK'
    <2>1. /\ price[r] \in Int /\ Held(Key(r)) \in Int
          /\ (IF Key(r) \in rows THEN avgPrice[Key(r)] ELSE price[r]) \in Int
      <3>1. price[r] \in Int
        <4>1. price[r] \in Prices \union {0}
          BY <1>1
        <4>2. \A p \in Prices : p \in Int
          BY PricesAssumption
        <4>3. QED
          BY <4>1, <4>2
      <3>2. Key(r) \in Users \X Tickers
        BY <1>1, OrderFacts
      <3>3. quantity[Key(r)] \in Int /\ avgPrice[Key(r)] \in Int
        BY <1>1, <3>2
      <3>4. QED
        BY <3>1, <3>3 DEF Held
    <2>2. seen' \in [Requests -> Seen]
      <3>1. seen[r] \in Seen
        BY <1>1
      <3>2. [cash |-> seen[r].cash, quantity |-> Held(Key(r)),
             avg |-> IF Key(r) \in rows THEN avgPrice[Key(r)] ELSE price[r]] \in Seen
        BY <2>1, <3>1 DEF Seen
      <3>3. QED
        BY <1>1, <1>5, <3>2 DEF LoadPosition
    <2>3. QED
      BY <1>1, <1>5, <2>2 DEF LoadPosition
  <1>6. ASSUME NEW r \in Requests, RejectFill(r) PROVE TypeOK'
    BY <1>1, <1>6, OrderFacts DEF RejectFill
  <1>7. ASSUME NEW r \in Requests, Commit(r) PROVE TypeOK'
    <2>1. trades' \in [Users -> Seq(TradeRow)]
      <3>1. /\ trades[order[r].user] \in Seq(TradeRow) /\ TradeOf(r) \in TradeRow
            /\ order[r].user \in Users
        BY <1>1, <1>7, OrderFacts, CommitFacts
      <3>2. Append(trades[order[r].user], TradeOf(r)) \in Seq(TradeRow)
        BY <3>1
      <3>3. QED
        BY <1>1, <1>7, <3>1, <3>2 DEF Commit
    <2>2. /\ cash' \in [Users -> Int]
          /\ quantity' \in [Users \X Tickers -> Int]
          /\ avgPrice' \in [Users \X Tickers -> Int]
      <3>1. /\ NewCash(r) \in Int /\ NewQuantity(r) \in Int /\ NewAvg(r) \in Int
        BY <1>7, CommitFacts
      <3>2. QED
        BY <1>1, <1>7, <3>1 DEF Commit
    <2>3. QED
      BY <1>1, <1>7, <2>1, <2>2, OrderFacts DEF Commit, RowsAfter
  <1>8. ASSUME NEW r \in Requests, RollBack(r) PROVE TypeOK'
    BY <1>1, <1>8 DEF RollBack
  <1>9. ASSUME NEW r \in Requests, Crash(r) PROVE TypeOK'
    BY <1>1, <1>9 DEF Crash
  <1>10. ASSUME NEW u \in Users, OpenPortfolio(u) PROVE TypeOK'
    BY <1>1, <1>10 DEF OpenPortfolio
  <1>11. ASSUME NEW t \in Tickers, DestroyTicker(t) PROVE TypeOK'
    BY <1>1, <1>11 DEF DestroyTicker
  <1>12. ASSUME NEW t \in Tickers, NEW p \in Prices, PublishPrice(t, p) PROVE TypeOK'
    BY <1>1, <1>12 DEF PublishPrice
  <1>13. CASE UNCHANGED vars
    BY <1>1, <1>13 DEF vars
  <1>14. QED
    BY <1>2, <1>3, <1>4, <1>5, <1>6, <1>7, <1>8, <1>9, <1>10, <1>11, <1>12, <1>13
       DEF Next, Serve

\* The transactions of two different requests belong to different users.
LEMMA OneTransactionPerUser ==
  ASSUME IInv, NEW r \in Requests, NEW q \in Requests, q # r,
         pc[r] \in InTransaction, pc[q] \in InTransaction
  PROVE  order[r].user # order[q].user
  BY DEF IInv, TransactionIsolated, Isolated

\* Every step keeps each transaction isolated: a request enters its transaction
\* only when the row is free, and only the holder of the row writes it.
LEMMA IsolatedStep ==
  ASSUME IInv, [Next]_vars
  PROVE  TransactionIsolated'
  <1> SUFFICES ASSUME NEW q \in Requests PROVE Isolated(q)'
    BY DEF TransactionIsolated
  <1>1. /\ TypeOK /\ Isolated(q) /\ order[q].user \in Users
        /\ Key(q) \in Users \X Tickers /\ Key(q) = <<order[q].user, order[q].ticker>>
    BY OrderFacts DEF IInv, TransactionIsolated
  <1> USE DEF TypeOK, InTransaction, Answered, market, tables, requests, ReleasedLock, Isolated
  <1>2. ASSUME NEW r \in Requests, Quote(r) PROVE Isolated(q)'
    <2>1. /\ latestPrice[order[r].ticker] \in Prices
          /\ order[r].quantity > 0
      BY <1>1, <1>2, OrderFacts DEF Quote, Acceptable
    <2>2. CASE q = r
      BY <1>1, <1>2, <2>1, <2>2 DEF Quote
    <2>3. CASE q # r
      BY <1>1, <1>2, <2>3 DEF Quote, Held, Key, Fillable, Cost
    <2>4. QED
      BY <2>2, <2>3
  <1>3. ASSUME NEW r \in Requests, RejectOrder(r) PROVE Isolated(q)'
    BY <1>1, <1>3 DEF RejectOrder, Held, Key, Fillable, Cost
  <1>4. ASSUME NEW r \in Requests, LockPortfolio(r) PROVE Isolated(q)'
    <2>1. CASE q = r
      BY <1>1, <1>4, <2>1 DEF LockPortfolio, Held, Key, Fillable, Cost
    <2>2. CASE q # r
      <3>1. pc[q] \in InTransaction => order[q].user # order[r].user
        BY <1>1, <1>4, NoRequestAssumption DEF LockPortfolio, RowFree
      <3>2. QED
        BY <1>1, <1>4, <2>2, <3>1, OrderFacts DEF LockPortfolio, Held, Key, Fillable, Cost
    <2>3. QED
      BY <2>1, <2>2
  <1>5. ASSUME NEW r \in Requests, LoadPosition(r) PROVE Isolated(q)'
    <2>1. CASE q = r
      BY <1>1, <1>5, <2>1 DEF LoadPosition, Held, Key, Fillable, Cost
    <2>2. CASE q # r
      BY <1>1, <1>5, <2>2 DEF LoadPosition, Held, Key, Fillable, Cost
    <2>3. QED
      BY <2>1, <2>2
  <1>6. ASSUME NEW r \in Requests, RejectFill(r) PROVE Isolated(q)'
    <2>1. CASE q = r
      BY <1>1, <1>6, <2>1 DEF RejectFill
    <2>2. CASE q # r
      <3>1. pc[q] \in InTransaction => order[q].user # order[r].user
        BY <1>6, <2>2, OneTransactionPerUser DEF RejectFill
      <3>2. QED
        BY <1>1, <1>6, <2>2, <3>1 DEF RejectFill, Held, Key, Fillable, Cost
    <2>3. QED
      BY <2>1, <2>2
  <1>7. ASSUME NEW r \in Requests, Commit(r) PROVE Isolated(q)'
    <2>1. CASE q = r
      BY <1>1, <1>7, <2>1 DEF Commit
    <2>2. CASE q # r
      <3>1. pc[q] \in InTransaction => order[q].user # order[r].user
        BY <1>7, <2>2, OneTransactionPerUser DEF Commit
      <3>2. pc[q] \in InTransaction => Key(q) # Key(r)
        BY <3>1 DEF Key
      <3>3. /\ pc'[q] = pc[q] /\ price' = price /\ order' = order /\ seen' = seen
            /\ pc[q] \in InTransaction =>
                 /\ lockedBy'[order[q].user] = lockedBy[order[q].user]
                 /\ cash'[order[q].user] = cash[order[q].user]
                 /\ quantity'[Key(q)] = quantity[Key(q)]
                 /\ Key(q) \in rows' <=> Key(q) \in rows
        BY <1>1, <1>7, <2>2, <3>1, <3>2 DEF Commit, RowsAfter
      <3>4. Key(q)' = Key(q) /\ (pc[q] \in InTransaction => Held(Key(q))' = Held(Key(q)))
        BY <3>3 DEF Held, Key
      <3>5. pc[q] = "loaded" => Fillable(q)'
        BY <1>1, <3>3, <3>4 DEF Fillable, Cost
      <3>6. QED
        BY <1>1, <3>3, <3>4, <3>5
    <2>3. QED
      BY <2>1, <2>2
  <1>8. ASSUME NEW r \in Requests, RollBack(r) PROVE Isolated(q)'
    <2>1. CASE q = r
      BY <1>1, <1>8, <2>1 DEF RollBack
    <2>2. CASE q # r
      <3>1. pc[q] \in InTransaction => order[q].user # order[r].user
        BY <1>8, <2>2, OneTransactionPerUser DEF RollBack
      <3>2. QED
        BY <1>1, <1>8, <2>2, <3>1 DEF RollBack, Held, Key, Fillable, Cost
    <2>3. QED
      BY <2>1, <2>2
  <1>9. ASSUME NEW r \in Requests, Crash(r) PROVE Isolated(q)'
    <2>1. CASE q = r
      BY <1>1, <1>9, <2>1 DEF Crash
    <2>2. CASE q # r
      <3>1. pc[q] \in InTransaction /\ pc[r] \in InTransaction => order[q].user # order[r].user
        BY <2>2, OneTransactionPerUser
      <3>2. QED
        BY <1>1, <1>9, <2>2, <3>1 DEF Crash, Held, Key, Fillable, Cost
    <2>3. QED
      BY <2>1, <2>2
  <1>10. ASSUME NEW u \in Users, OpenPortfolio(u) PROVE Isolated(q)'
    BY <1>1, <1>10 DEF OpenPortfolio, Held, Key, Fillable, Cost
  <1>11. ASSUME NEW t \in Tickers, DestroyTicker(t) PROVE Isolated(q)'
    BY <1>1, <1>11 DEF DestroyTicker, Held, Key, Fillable, Cost
  <1>12. ASSUME NEW t \in Tickers, NEW p \in Prices, PublishPrice(t, p) PROVE Isolated(q)'
    BY <1>1, <1>12 DEF PublishPrice, Held, Key, Fillable, Cost
  <1>13. CASE UNCHANGED vars
    BY <1>1, <1>13 DEF vars, Held, Key, Fillable, Cost
  <1>14. QED
    BY <1>2, <1>3, <1>4, <1>5, <1>6, <1>7, <1>8, <1>9, <1>10, <1>11, <1>12, <1>13
       DEF Next, Serve

\* Every step keeps the accounts solvent.
LEMMA SolventStep ==
  ASSUME IInv, [Next]_vars
  PROVE  Solvent'
  <1>1. TypeOK /\ Solvent
    BY DEF IInv
  <1> USE DEF market, tables, requests
  <1>2. ASSUME NEW r \in Requests, Commit(r) PROVE Solvent'
    <2>1. /\ NewCash(r) \in Nat /\ NewQuantity(r) \in Nat
          /\ order[r].user \in Users /\ order[r].ticker \in Tickers
          /\ Key(r) = <<order[r].user, order[r].ticker>>
      BY <1>1, <1>2, CommitFacts, OrderFacts
    <2>2. \A u \in Users : cash'[u] >= 0
      BY <1>1, <1>2, <2>1 DEF Commit, TypeOK, Solvent
    <2>3. ASSUME NEW u \in Users, NEW t \in Tickers, <<u, t>> \in rows'
          PROVE  quantity'[<<u, t>>] > 0 /\ u \in opened' /\ t \in tickers'
      <3>1. CASE <<u, t>> = Key(r)
        <4>1. NewQuantity(r) # 0
          BY <1>2, <2>3, <3>1 DEF Commit, RowsAfter
        <4>2. quantity'[<<u, t>>] = NewQuantity(r)
          BY <1>1, <1>2, <3>1 DEF Commit, TypeOK
        <4>3. u = order[r].user /\ t = order[r].ticker
          BY <2>1, <3>1
        <4>4. QED
          BY <1>2, <2>1, <4>1, <4>2, <4>3 DEF Commit, TickerStillExists
      <3>2. CASE <<u, t>> # Key(r)
        <4>1. <<u, t>> \in rows
          BY <1>2, <2>3, <3>2 DEF Commit, RowsAfter
        <4>2. quantity'[<<u, t>>] = quantity[<<u, t>>]
          BY <1>1, <1>2, <3>2 DEF Commit, TypeOK
        <4>3. QED
          BY <1>1, <1>2, <4>1, <4>2 DEF Commit, Solvent
      <3>3. QED
        BY <3>1, <3>2
    <2>4. QED
      BY <2>2, <2>3 DEF Solvent
  <1>3. ASSUME NEW r \in Requests, RejectFill(r) PROVE Solvent'
    BY <1>1, <1>3 DEF RejectFill, Solvent
  <1>4. ASSUME NEW u \in Users, OpenPortfolio(u) PROVE Solvent'
    BY <1>1, <1>4 DEF OpenPortfolio, Solvent
  <1>5. ASSUME NEW t \in Tickers, DestroyTicker(t) PROVE Solvent'
    BY <1>1, <1>5 DEF DestroyTicker, Unreferenced, Solvent
  <1>6. ASSUME NEW t \in Tickers, NEW p \in Prices, PublishPrice(t, p) PROVE Solvent'
    BY <1>1, <1>6 DEF PublishPrice, Solvent
  <1>7. ASSUME NEW r \in Requests,
               \/ Quote(r) \/ RejectOrder(r) \/ LockPortfolio(r) \/ LoadPosition(r)
               \/ RollBack(r) \/ Crash(r)
        PROVE  Solvent'
    <2>1. UNCHANGED <<tickers, tables>>
      BY <1>7 DEF Quote, RejectOrder, LockPortfolio, LoadPosition, RollBack, Crash
    <2>2. QED
      BY <1>1, <2>1 DEF Solvent
  <1>8. CASE UNCHANGED vars
    BY <1>1, <1>8 DEF vars, Solvent
  <1>9. QED
    BY <1>2, <1>3, <1>4, <1>5, <1>6, <1>7, <1>8 DEF Next, Serve

-----------------------------------------------------------------------------
\* The invariant holds throughout, whatever fairness is assumed.
THEOREM Invariance == Spec => []IInv
  <1>1. IInv /\ [Next]_vars => IInv'
    BY TypeStep, IsolatedStep, SolventStep DEF IInv
  <1>2. QED
    BY InitIInv, <1>1, PTL DEF Spec, SafeSpec

\* Every variable keeps its type.
THEOREM TypeCorrect == Spec => []TypeOK
  BY Invariance, PTL DEF IInv

\* No lost update: what a transaction computes with is what is committed.
THEOREM Isolation == Spec => []TransactionIsolated
  BY Invariance, PTL DEF IInv

\* No interleaving of buys, sells, crashes, price moves and ticker deletions
\* overdraws an account or leaves an empty or dangling Position row.
THEOREM Solvency == Spec => []Solvent
  BY Invariance, PTL DEF IInv

-----------------------------------------------------------------------------
(* The books: holdings and cash against the trade history.                  *)

SharesAmounts(u, t) == [i \in DOMAIN trades[u] |-> SharesIn(trades[u][i], t)]
CashAmounts(u) == [i \in DOMAIN trades[u] |-> Signed(trades[u][i], Value(trades[u][i]))]

\* A step that is not a commit leaves positions, cash and trades alone.
LEMMA OnlyCommitWrites ==
  ASSUME [Next]_vars
  PROVE  \/ \E r \in Requests : Commit(r)
         \/ UNCHANGED <<cash, rows, quantity, avgPrice, trades>>
  BY DEF Next, Serve, Quote, RejectOrder, LockPortfolio, LoadPosition, RejectFill,
         RollBack, Crash, OpenPortfolio, DestroyTicker, PublishPrice, market, tables,
         requests, vars

\* The trade that a commit adds to its user's history, and to no other.
LEMMA CommitTrades ==
  ASSUME IInv, NEW r \in Requests, Commit(r), NEW u \in Users
  PROVE  /\ trades[u] \in Seq(TradeRow) /\ TradeOf(r) \in TradeRow
         /\ u = order[r].user => trades'[u] = Append(trades[u], TradeOf(r))
         /\ u # order[r].user => trades'[u] = trades[u] /\ cash'[u] = cash[u]
  <1>1. TypeOK
    BY DEF IInv
  <1>2. QED
    BY <1>1, CommitFacts DEF Commit, TypeOK

\* The amounts of a trade are integers.
LEMMA AmountInt ==
  ASSUME NEW x \in TradeRow, NEW t
  PROVE  SharesIn(x, t) \in Int /\ Signed(x, Value(x)) \in Int
  <1>1. x.quantity \in Nat /\ x.price \in Nat
    BY DEF TradeRow
  <1>2. Value(x) \in Int
    BY <1>1 DEF Value
  <1>3. QED
    BY <1>1, <1>2 DEF SharesIn, Signed

\* The amounts of a history are as many as its trades.
LEMMA AmountsType ==
  ASSUME NEW u, NEW t, trades[u] \in Seq(TradeRow)
  PROVE  /\ SharesAmounts(u, t) \in Seq(Int) /\ CashAmounts(u) \in Seq(Int)
         /\ Len(SharesAmounts(u, t)) = Len(trades[u])
         /\ Len(CashAmounts(u)) = Len(trades[u])
         /\ \A i \in 1..Len(trades[u]) :
              /\ SharesAmounts(u, t)[i] = SharesIn(trades[u][i], t)
              /\ CashAmounts(u)[i] = Signed(trades[u][i], Value(trades[u][i]))
  <1> DEFINE h == trades[u]
             n == Len(h)
  <1>1. n \in Nat /\ DOMAIN h = 1..n /\ \A i \in 1..n : h[i] \in TradeRow
    OBVIOUS
  <1>2. SharesAmounts(u, t) = [i \in 1..n |-> SharesIn(h[i], t)]
    BY <1>1 DEF SharesAmounts
  <1>3. CashAmounts(u) = [i \in 1..n |-> Signed(h[i], Value(h[i]))]
    BY <1>1 DEF CashAmounts
  <1> HIDE DEF h, n
  <1>4. QED
    BY <1>1, <1>2, <1>3, AmountInt DEF h, n

\* What it is to be a sequence with one more member.
LEMMA AppendIs ==
  ASSUME NEW a \in Seq(Int), NEW y \in Int, NEW c,
         c = [i \in 1..(Len(a) + 1) |-> c[i]],
         \A i \in 1..Len(a) : c[i] = a[i], c[Len(a) + 1] = y
  PROVE  c = Append(a, y)
  <1> DEFINE n == Len(a)
             b == Append(a, y)
  <1>1. n \in Nat /\ 1..(n + 1) = (1..n) \union {n + 1}
    <2>1. n \in Nat
      OBVIOUS
    <2>2. QED
      BY <2>1
  <1>2. /\ b = [i \in 1..(n + 1) |-> b[i]]
        /\ \A i \in 1..n : b[i] = a[i]
        /\ b[n + 1] = y
    <2>1. /\ b \in Seq(Int) /\ Len(b) = n + 1 /\ b[n + 1] = y
          /\ \A i \in 1..n : b[i] = a[i]
      OBVIOUS
    <2> HIDE DEF b
    <2>2. b = [i \in 1..(n + 1) |-> b[i]]
      BY <2>1
    <2>3. QED
      BY <2>1, <2>2
  <1>3. c = [i \in 1..(n + 1) |-> c[i]] /\ (\A i \in 1..n : c[i] = a[i]) /\ c[n + 1] = y
    OBVIOUS
  <1> HIDE DEF b, n
  <1>4. \A i \in 1..(n + 1) : c[i] = b[i]
    BY <1>1, <1>2, <1>3
  <1>5. c = b
    BY <1>2, <1>3, <1>4
  <1>6. QED
    BY <1>5 DEF b

\* The amounts of a history that gains a trade.
LEMMA AmountsGrow ==
  ASSUME NEW u \in Users, NEW t, NEW x \in TradeRow,
         trades[u] \in Seq(TradeRow), trades'[u] = Append(trades[u], x)
  PROVE  /\ SharesAmounts(u, t)' = Append(SharesAmounts(u, t), SharesIn(x, t))
         /\ CashAmounts(u)' = Append(CashAmounts(u), Signed(x, Value(x)))
  <1> DEFINE h == trades[u]
             g == trades'[u]
             n == Len(h)
  <1>1. /\ n \in Nat /\ DOMAIN g = 1..(n + 1) /\ g[n + 1] = x
        /\ \A i \in 1..n : g[i] = h[i]
    OBVIOUS
  <1>2. SharesAmounts(u, t)' = [i \in 1..(n + 1) |-> SharesIn(g[i], t)]
    BY <1>1 DEF SharesAmounts, SharesIn, Signed
  <1>3. CashAmounts(u)' = [i \in 1..(n + 1) |-> Signed(g[i], Value(g[i]))]
    BY <1>1 DEF CashAmounts, Value, Signed
  <1>4. /\ SharesAmounts(u, t) \in Seq(Int) /\ CashAmounts(u) \in Seq(Int)
        /\ Len(SharesAmounts(u, t)) = n /\ Len(CashAmounts(u)) = n
        /\ \A i \in 1..n : /\ SharesAmounts(u, t)[i] = SharesIn(h[i], t)
                           /\ CashAmounts(u)[i] = Signed(h[i], Value(h[i]))
    BY AmountsType
  <1> HIDE DEF h, g, n
  <1>5. SharesAmounts(u, t)' = Append(SharesAmounts(u, t), SharesIn(x, t))
    <2> DEFINE a == SharesAmounts(u, t)
               c == SharesAmounts(u, t)'
    <2>1. /\ c = [i \in 1..(n + 1) |-> c[i]] /\ c[n + 1] = SharesIn(x, t)
          /\ \A i \in 1..n : c[i] = a[i]
      BY <1>1, <1>2, <1>3, <1>4
    <2>2. a \in Seq(Int) /\ Len(a) = n /\ SharesIn(x, t) \in Int
      BY <1>4, AmountInt
    <2> HIDE DEF a, c
    <2>3. /\ c = [i \in 1..(Len(a) + 1) |-> c[i]] /\ c[Len(a) + 1] = SharesIn(x, t)
          /\ \A i \in 1..Len(a) : c[i] = a[i]
      BY <2>1, <2>2
    <2>4. c = Append(a, SharesIn(x, t))
      BY <2>2, <2>3, AppendIs
    <2>5. QED
      BY <2>4 DEF a, c
  <1>6. CashAmounts(u)' = Append(CashAmounts(u), Signed(x, Value(x)))
    <2> DEFINE a == CashAmounts(u)
               c == CashAmounts(u)'
    <2>1. /\ c = [i \in 1..(n + 1) |-> c[i]] /\ c[n + 1] = Signed(x, Value(x))
          /\ \A i \in 1..n : c[i] = a[i]
      BY <1>1, <1>2, <1>3, <1>4
    <2>2. a \in Seq(Int) /\ Len(a) = n /\ Signed(x, Value(x)) \in Int
      BY <1>4, AmountInt
    <2> HIDE DEF a, c
    <2>3. /\ c = [i \in 1..(Len(a) + 1) |-> c[i]] /\ c[Len(a) + 1] = Signed(x, Value(x))
          /\ \A i \in 1..Len(a) : c[i] = a[i]
      BY <2>1, <2>2
    <2>4. c = Append(a, Signed(x, Value(x)))
      BY <2>2, <2>3, AppendIs
    <2>5. QED
      BY <2>4 DEF a, c
  <1>7. QED
    BY <1>5, <1>6

\* A commit changes the sums of its own user and ticker by its trade.
LEMMA SumsGrow ==
  ASSUME IInv, NEW r \in Requests, Commit(r), NEW u \in Users, NEW t
  PROVE  /\ SharesTraded(u, t) \in Int /\ Spent(u) \in Int
         /\ u = order[r].user =>
              /\ SharesTraded(u, t)' = SharesTraded(u, t) + SharesIn(TradeOf(r), t)
              /\ Spent(u)' = Spent(u) + Signed(TradeOf(r), Value(TradeOf(r)))
         /\ u # order[r].user =>
              SharesTraded(u, t)' = SharesTraded(u, t) /\ Spent(u)' = Spent(u)
  <1>1. /\ trades[u] \in Seq(TradeRow) /\ TradeOf(r) \in TradeRow
        /\ u = order[r].user => trades'[u] = Append(trades[u], TradeOf(r))
        /\ u # order[r].user => trades'[u] = trades[u]
    BY CommitTrades
  <1>2. /\ SharesTraded(u, t) = Total(SharesAmounts(u, t))
        /\ Spent(u) = Total(CashAmounts(u))
    BY DEF SharesTraded, Spent, SharesAmounts, CashAmounts
  <1>3. /\ SharesTraded(u, t)' = Total(SharesAmounts(u, t)')
        /\ Spent(u)' = Total(CashAmounts(u)')
    BY DEF SharesTraded, Spent, SharesAmounts, CashAmounts
  <1>4. /\ SharesAmounts(u, t) \in Seq(Int) /\ CashAmounts(u) \in Seq(Int)
        /\ SharesIn(TradeOf(r), t) \in Int /\ Signed(TradeOf(r), Value(TradeOf(r))) \in Int
    BY <1>1, AmountsType, AmountInt
  <1>5. CASE u = order[r].user
    <2>1. /\ SharesAmounts(u, t)' = Append(SharesAmounts(u, t), SharesIn(TradeOf(r), t))
          /\ CashAmounts(u)' = Append(CashAmounts(u), Signed(TradeOf(r), Value(TradeOf(r))))
      BY <1>1, <1>5, AmountsGrow
    <2>2. QED
      BY <1>2, <1>3, <1>4, <1>5, <2>1, TotalAppend, TotalInt
  <1>6. CASE u # order[r].user
    <2>1. SharesAmounts(u, t)' = SharesAmounts(u, t) /\ CashAmounts(u)' = CashAmounts(u)
      BY <1>1, <1>6 DEF SharesAmounts, CashAmounts, SharesIn, Signed, Value
    <2>2. QED
      BY <1>2, <1>3, <1>4, <1>6, <2>1, TotalInt
  <1>7. QED
    BY <1>5, <1>6

\* What a commit does to the shares held.
LEMMA CommitHoldings ==
  ASSUME IInv, NEW r \in Requests, Commit(r), NEW u \in Users, NEW t \in Tickers
  PROVE  Held(<<u, t>>)' = IF <<u, t>> = Key(r) THEN NewQuantity(r) ELSE Held(<<u, t>>)
  <1>1. TypeOK
    BY DEF IInv
  <1>2. <<u, t>> \in Users \X Tickers
    OBVIOUS
  <1>3. CASE <<u, t>> = Key(r)
    BY <1>1, <1>2, <1>3 DEF Commit, RowsAfter, Held, TypeOK
  <1>4. CASE <<u, t>> # Key(r)
    BY <1>1, <1>2, <1>4 DEF Commit, RowsAfter, Held, TypeOK
  <1>5. QED
    BY <1>3, <1>4

\* The cash a commit writes is the old cash less the value of the trade, to
\* within half a cent.
LEMMA CommitCash ==
  ASSUME IInv, NEW r \in Requests, Commit(r)
  PROVE  LET error == Units(NewCash(r) - cash[order[r].user])
                        + Signed(TradeOf(r), Value(TradeOf(r))) IN
         /\ error \in Int /\ NewCash(r) \in Int /\ cash[order[r].user] \in Int
         /\ 2 * error <= UnitsPerCent /\ -2 * error <= UnitsPerCent
  <1> DEFINE c == cash[order[r].user]
  <1>1. TypeOK /\ TransactionIsolated /\ Solvent
    BY DEF IInv
  <1>2. /\ Cost(r) \in Nat /\ NewCash(r) \in Nat
        /\ order[r].side \in {"buy", "sell"}
        /\ Value(TradeOf(r)) = Cost(r) /\ TradeOf(r).side = order[r].side
    BY <1>1, CommitFacts, OrderFacts DEF TradeOf, Cost, Value
  <1>3. seen[r].cash = c /\ c \in Nat /\ Fillable(r)
    BY <1>1, OrderFacts DEF Commit, TransactionIsolated, Isolated, InTransaction, Solvent, TypeOK
  <1> HIDE DEF c
  <1>4. CASE order[r].side = "buy"
    <2>1. Units(c) - Cost(r) \in Nat
      BY <1>2, <1>3, <1>4 DEF Fillable
    <2>2. NewCash(r) = ToCents(Units(c) - Cost(r))
      BY <1>3, <1>4 DEF NewCash
    <2>3. Signed(TradeOf(r), Value(TradeOf(r))) = Cost(r)
      BY <1>2, <1>4 DEF Signed
    <2>4. /\ 2 * (100 * NewCash(r) - (100 * c - Cost(r))) <= 100
          /\ 2 * ((100 * c - Cost(r)) - 100 * NewCash(r)) <= 100
      BY <2>1, <2>2, ToCentsRounds
    <2>5. QED
      BY <1>2, <1>3, <2>3, <2>4 DEF c
  <1>5. CASE order[r].side = "sell"
    <2>1. Units(c) + Cost(r) \in Nat
      BY <1>2, <1>3
    <2>2. NewCash(r) = ToCents(Units(c) + Cost(r))
      BY <1>3, <1>5 DEF NewCash
    <2>3. Signed(TradeOf(r), Value(TradeOf(r))) = -Cost(r)
      BY <1>2, <1>5 DEF Signed
    <2>4. /\ 2 * (100 * NewCash(r) - (100 * c + Cost(r))) <= 100
          /\ 2 * ((100 * c + Cost(r)) - 100 * NewCash(r)) <= 100
      BY <2>1, <2>2, ToCentsRounds
    <2>5. QED
      BY <1>2, <1>3, <2>3, <2>4 DEF c
  <1>6. QED
    BY <1>2, <1>4, <1>5

\* Every step keeps the holdings equal to the sums of the trade histories.
LEMMA HoldingsStep ==
  ASSUME IInv, HoldingsMatchTrades, [Next]_vars
  PROVE  HoldingsMatchTrades'
  <1> SUFFICES ASSUME NEW u \in Users, NEW t \in Tickers
               PROVE  Held(<<u, t>>)' = SharesTraded(u, t)'
    BY DEF HoldingsMatchTrades
  <1>1. Held(<<u, t>>) = SharesTraded(u, t)
    BY DEF HoldingsMatchTrades
  <1>2. ASSUME NEW r \in Requests, Commit(r)
        PROVE  Held(<<u, t>>)' = SharesTraded(u, t)'
    <2>1. /\ TypeOK /\ pc[r] = "loaded" /\ Key(r) = <<order[r].user, order[r].ticker>>
          /\ order[r].side \in {"buy", "sell"} /\ order[r].quantity \in Int
          /\ seen[r].quantity = Held(Key(r))
      BY <1>2, OrderFacts DEF IInv, TransactionIsolated, Isolated, Commit
    <2>2. Held(<<u, t>>)' = IF <<u, t>> = Key(r) THEN NewQuantity(r) ELSE Held(<<u, t>>)
      BY <1>2, CommitHoldings
    <2>3. CASE u # order[r].user
      BY <1>1, <1>2, <2>1, <2>2, <2>3, SumsGrow
    <2>4. CASE u = order[r].user /\ t # order[r].ticker
      <3>1. SharesIn(TradeOf(r), t) = 0
        BY <2>4 DEF SharesIn, TradeOf
      <3>2. SharesTraded(u, t)' = SharesTraded(u, t)
        BY <1>2, <2>4, <3>1, SumsGrow
      <3>3. QED
        BY <1>1, <2>1, <2>2, <2>4, <3>2
    <2>5. CASE u = order[r].user /\ t = order[r].ticker
      <3>1. SharesTraded(u, t)' = SharesTraded(u, t) + SharesIn(TradeOf(r), t)
        BY <1>2, <2>5, SumsGrow
      <3>2. SharesTraded(u, t) \in Int
        BY <1>2, SumsGrow
      <3>3. NewQuantity(r) = Held(<<u, t>>) + SharesIn(TradeOf(r), t)
        BY <1>1, <2>1, <2>5, <3>2 DEF NewQuantity, SharesIn, Signed, TradeOf
      <3>4. QED
        BY <1>1, <2>1, <2>2, <2>5, <3>1, <3>3
    <2>6. QED
      BY <2>3, <2>4, <2>5
  <1>3. CASE UNCHANGED <<cash, rows, quantity, avgPrice, trades>>
    BY <1>1, <1>3 DEF Held, SharesTraded
  <1>4. QED
    BY <1>2, <1>3, OnlyCommitWrites

\* Initially nothing has been traded.
LEMMA InitSums ==
  ASSUME Init, NEW u \in Users, NEW t
  PROVE  SharesTraded(u, t) = 0 /\ Spent(u) = 0
  <1>1. trades[u] = <<>>
    BY DEF Init
  <1>2. /\ [i \in DOMAIN trades[u] |-> SharesIn(trades[u][i], t)] = <<>>
        /\ [i \in DOMAIN trades[u] |-> Signed(trades[u][i], Value(trades[u][i]))] = <<>>
    BY <1>1
  <1>3. QED
    BY <1>2, TotalEmpty DEF SharesTraded, Spent

\* No share is lost or counted twice, whatever buys and sells of the same user
\* race: what is held is what the trade history adds up to.
THEOREM HoldingsAccounted == Spec => []HoldingsMatchTrades
  <1>1. Init => HoldingsMatchTrades
    BY InitSums DEF Init, Held, HoldingsMatchTrades
  <1>2. QED
    BY <1>1, HoldingsStep, Invariance, PTL DEF Spec, SafeSpec

\* Every step keeps the cash within half a cent per trade of the history.
LEMMA CashStep ==
  ASSUME IInv, CashMatchesTrades, [Next]_vars
  PROVE  CashMatchesTrades'
  <1> DEFINE drift(u) == Units(cash[u]) - (Units(InitialCash) - Spent(u))
             Near(u) == /\ 2 * drift(u) <= UnitsPerCent * Len(trades[u])
                        /\ -2 * drift(u) <= UnitsPerCent * Len(trades[u])
  <1> SUFFICES ASSUME NEW u \in Users PROVE Near(u)'
    BY DEF CashMatchesTrades
  <1>1. Near(u)
    BY DEF CashMatchesTrades
  <1>2. ASSUME NEW r \in Requests, Commit(r) PROVE Near(u)'
    <2>1. /\ trades[u] \in Seq(TradeRow) /\ TradeOf(r) \in TradeRow
          /\ u = order[r].user => trades'[u] = Append(trades[u], TradeOf(r))
          /\ u # order[r].user => trades'[u] = trades[u] /\ cash'[u] = cash[u]
      BY <1>2, CommitTrades
    <2>2. CASE u # order[r].user
      <3>1. Spent(u)' = Spent(u)
        BY <1>2, <2>2, SumsGrow
      <3>2. QED
        BY <1>1, <2>1, <2>2, <3>1
    <2>3. CASE u = order[r].user
      <3> DEFINE x == Signed(TradeOf(r), Value(TradeOf(r)))
                 n == Len(trades[u])
                 s == Spent(u)
                 c == cash[u]
                 d == NewCash(r)
      <3>1. s \in Int /\ Spent(u)' = s + x /\ x \in Int
        BY <1>2, <2>1, <2>3, SumsGrow, AmountInt
      <3>2. n \in Nat /\ Len(trades'[u]) = n + 1
        BY <2>1, <2>3
      <3>3. /\ d \in Int /\ c \in Int
            /\ 2 * (100 * (d - c) + x) <= 100
            /\ -2 * (100 * (d - c) + x) <= 100
        BY <1>2, <2>3, CommitCash
      <3>4. cash'[u] = d
        BY <1>2, <2>3 DEF Commit, IInv, TypeOK
      <3>5. /\ 2 * (100 * c - (100 * InitialCash - s)) <= 100 * n
            /\ -2 * (100 * c - (100 * InitialCash - s)) <= 100 * n
        BY <1>1
      <3> HIDE DEF x, n, s, c, d
      <3>6. /\ 2 * (100 * d - (100 * InitialCash - (s + x))) <= 100 * (n + 1)
            /\ -2 * (100 * d - (100 * InitialCash - (s + x))) <= 100 * (n + 1)
        BY <3>1, <3>2, <3>3, <3>5, InitialCashAssumption
      <3>7. QED
        BY <3>1, <3>2, <3>4, <3>6 DEF n
    <2>4. QED
      BY <2>2, <2>3
  <1>3. CASE UNCHANGED <<cash, rows, quantity, avgPrice, trades>>
    BY <1>1, <1>3 DEF Spent
  <1>4. QED
    BY <1>2, <1>3, OnlyCommitWrites

\* Cash never drifts from what the trades spent by more than the rounding.
THEOREM CashAccounted == Spec => []CashMatchesTrades
  <1>1. Init => CashMatchesTrades
    <2> SUFFICES ASSUME Init, NEW u \in Users
                 PROVE  LET drift == Units(cash[u]) - (Units(InitialCash) - Spent(u)) IN
                        /\ 2 * drift <= UnitsPerCent * Len(trades[u])
                        /\ -2 * drift <= UnitsPerCent * Len(trades[u])
      BY DEF CashMatchesTrades
    <2>1. cash[u] = InitialCash /\ Spent(u) = 0 /\ Len(trades[u]) = 0
      BY InitSums DEF Init
    <2>2. QED
      BY <2>1, InitialCashAssumption
  <1>2. QED
    BY <1>1, CashStep, Invariance, PTL DEF Spec, SafeSpec

\* Cash moves only with a trade, by its value to within half a cent.
THEOREM CashFollowsTrades == Spec => CashMovesWithTrade
  <1> DEFINE Moves(u) ==
        cash'[u] # cash[u] =>
          /\ trades'[u] # <<>>
          /\ LET trade == trades'[u][Len(trades'[u])]
                 error == Units(cash'[u] - cash[u]) + Signed(trade, Value(trade)) IN
             /\ trades'[u] = Append(trades[u], trade)
             /\ 2 * error <= UnitsPerCent /\ -2 * error <= UnitsPerCent
  <1>1. ASSUME IInv, [Next]_vars, NEW u \in Users, cash'[u] # cash[u]
        PROVE  Moves(u)
    <2>1. PICK r \in Requests : Commit(r)
      BY <1>1, OnlyCommitWrites
    <2>2. /\ trades[u] \in Seq(TradeRow) /\ TradeOf(r) \in TradeRow
          /\ trades'[u] = Append(trades[u], TradeOf(r)) /\ u = order[r].user
      BY <1>1, <2>1, CommitTrades
    <2>3. cash'[u] = NewCash(r)
      BY <1>1, <2>1, <2>2 DEF Commit, IInv, TypeOK
    <2>4. trades'[u] # <<>> /\ trades'[u][Len(trades'[u])] = TradeOf(r)
      BY <2>2
    <2>5. QED
      BY <1>1, <2>1, <2>2, <2>3, <2>4, CommitCash
  <1>2. IInv /\ [Next]_vars => [\A u \in Users : Moves(u)]_vars
    BY <1>1
  <1>3. QED
    BY <1>2, Invariance, PTL DEF Spec, SafeSpec, CashMovesWithTrade

-----------------------------------------------------------------------------
(* The average price: a request in its transaction averages with the price  *)
(* that is committed, and a rounded weighted average of integers stays      *)
(* between the bounds of what is averaged.                                  *)

\* The average a loaded position carries is the committed one, or the price
\* of the order itself where there is no row.
LoadedAvg ==
  \A r \in Requests : pc[r] = "loaded" =>
    seen[r].avg = IF Key(r) \in rows THEN avgPrice[Key(r)] ELSE price[r]

AvgInv == LoadedAvg /\ AvgPriceWithinPaid

\* Rounding half up respects integer bounds on the quotient.
LEMMA RoundHalfUpBounds ==
  ASSUME NEW n \in Int, NEW d \in Nat \ {0}, NEW b \in Int
  PROVE  /\ b * d <= n => b <= RoundHalfUp(n, d)
         /\ n <= b * d => RoundHalfUp(n, d) <= b
  <1> DEFINE z == RoundHalfUp(n, d)
  <1>1. /\ z \in Int /\ 2 * d * z <= 2 * n + d /\ 2 * n + d < 2 * d * (z + 1)
    BY DEF RoundHalfUp
  <1> HIDE DEF z
  <1>2. ASSUME b * d <= n PROVE b <= z
    BY <1>1, <1>2
  <1>3. ASSUME n <= b * d PROVE z <= b
    BY <1>1, <1>3
  <1>4. QED
    BY <1>2, <1>3 DEF z

\* The average over old and new shares lies within any bound on both prices.
LEMMA AverageBounds ==
  ASSUME NEW x \in Int, NEW m \in Nat, NEW p \in Int, NEW n \in Nat \ {0}, NEW b \in Int
  PROVE  /\ b <= x /\ b <= p => b <= RoundHalfUp(x * m + p * n, m + n)
         /\ x <= b /\ p <= b => RoundHalfUp(x * m + p * n, m + n) <= b
  <1>1. x * m + p * n \in Int /\ m + n \in Nat \ {0} /\ b * (m + n) = b * m + b * n
    OBVIOUS
  <1>2. ASSUME b <= x, b <= p PROVE b * (m + n) <= x * m + p * n
    <2>1. b * m <= x * m /\ b * n <= p * n
      BY <1>2
    <2>2. QED
      BY <1>1, <2>1
  <1>3. ASSUME x <= b, p <= b PROVE x * m + p * n <= b * (m + n)
    <2>1. x * m <= b * m /\ p * n <= b * n
      BY <1>3
    <2>2. QED
      BY <1>1, <2>1
  <1>4. QED
    BY <1>1, <1>2, <1>3, RoundHalfUpBounds

\* A first purchase carries its own price.
LEMMA FirstAverage ==
  ASSUME NEW x \in Int, NEW p \in Int, NEW n \in Nat \ {0}
  PROVE  RoundHalfUp(x * 0 + p * n, 0 + n) = p
  <1>1. x * 0 + p * n = p * n /\ 0 + n = n /\ p * n \in Int
    OBVIOUS
  <1>2. p <= RoundHalfUp(p * n, n) /\ RoundHalfUp(p * n, n) <= p
    BY <1>1, RoundHalfUpBounds
  <1>3. RoundHalfUp(p * n, n) \in Int
    BY <1>1, RoundHalfUpInt
  <1>4. QED
    BY <1>1, <1>2, <1>3

\* Every step keeps the loaded averages current: only the holder of the row
\* lock writes the position.
LEMMA LoadedAvgStep ==
  ASSUME IInv, LoadedAvg, [Next]_vars
  PROVE  LoadedAvg'
  <1> SUFFICES ASSUME NEW q \in Requests, pc'[q] = "loaded"
               PROVE  seen'[q].avg = IF Key(q)' \in rows' THEN avgPrice'[Key(q)'] ELSE price'[q]
    BY DEF LoadedAvg
  <1>1. TypeOK /\ Key(q) \in Users \X Tickers /\ Key(q) = <<order[q].user, order[q].ticker>>
    BY OrderFacts DEF IInv
  <1>2. pc[q] = "loaded" => seen[q].avg = IF Key(q) \in rows THEN avgPrice[Key(q)] ELSE price[q]
    BY DEF LoadedAvg
  <1> USE DEF market, tables, requests
  <1>3. ASSUME NEW r \in Requests, LoadPosition(r)
        PROVE  seen'[q].avg = IF Key(q)' \in rows' THEN avgPrice'[Key(q)'] ELSE price'[q]
    <2>1. UNCHANGED <<rows, avgPrice, price, order>> /\ Key(q)' = Key(q)
      BY <1>3 DEF LoadPosition, Key
    <2>2. CASE q = r
      BY <1>1, <1>3, <2>1, <2>2 DEF LoadPosition, TypeOK
    <2>3. CASE q # r
      BY <1>1, <1>2, <1>3, <2>1, <2>3 DEF LoadPosition, TypeOK
    <2>4. QED
      BY <2>2, <2>3
  <1>4. ASSUME NEW r \in Requests, Commit(r)
        PROVE  seen'[q].avg = IF Key(q)' \in rows' THEN avgPrice'[Key(q)'] ELSE price'[q]
    <2>1. q # r /\ pc[q] = "loaded"
      BY <1>1, <1>4 DEF Commit, TypeOK
    <2>2. Key(q) # Key(r)
      BY <1>4, <2>1, OneTransactionPerUser DEF Commit, InTransaction, Key
    <2>3. UNCHANGED <<price, order, seen>> /\ Key(q)' = Key(q)
      BY <1>4 DEF Commit, Key
    <2>4. avgPrice'[Key(q)] = avgPrice[Key(q)] /\ (Key(q) \in rows' <=> Key(q) \in rows)
      BY <1>1, <1>4, <2>2 DEF Commit, RowsAfter, TypeOK
    <2>5. QED
      BY <1>2, <2>1, <2>3, <2>4
  <1>5. CASE /\ UNCHANGED <<rows, avgPrice, order, price>>
             /\ seen'[q] = seen[q] /\ pc[q] = "loaded"
    BY <1>2, <1>5 DEF Key
  <1>6. ASSUME NEW r \in Requests,
               \/ Quote(r) \/ RejectOrder(r) \/ LockPortfolio(r) \/ RejectFill(r)
               \/ RollBack(r) \/ Crash(r)
        PROVE  /\ UNCHANGED <<rows, avgPrice, order>>
               /\ price'[q] = price[q] /\ seen'[q] = seen[q] /\ pc[q] = "loaded"
    BY <1>1, <1>6 DEF Quote, RejectOrder, LockPortfolio, RejectFill, RollBack, Crash, TypeOK
  <1>7. CASE /\ UNCHANGED <<rows, avgPrice, order>>
             /\ price'[q] = price[q] /\ seen'[q] = seen[q] /\ pc[q] = "loaded"
    BY <1>2, <1>7 DEF Key
  <1>8. ASSUME \/ \E u \in Users : OpenPortfolio(u)
               \/ \E t \in Tickers : DestroyTicker(t) \/ \E p \in Prices : PublishPrice(t, p)
               \/ UNCHANGED vars
        PROVE  UNCHANGED <<rows, avgPrice, order, price, seen, pc>>
    BY <1>8 DEF OpenPortfolio, DestroyTicker, PublishPrice, vars
  <1>9. QED
    BY <1>3, <1>4, <1>5, <1>6, <1>7, <1>8 DEF Next, Serve

\* What a user has paid is never forgotten, and a purchase adds its price.
LEMMA PaidGrows ==
  ASSUME IInv, NEW r \in Requests, Commit(r), NEW u \in Users, NEW t \in Tickers
  PROVE  /\ Paid(u, t) \subseteq Paid(u, t)'
         /\ <<u, t>> = Key(r) /\ order[r].side = "buy" => price[r] \in Paid(u, t)'
         /\ \A p \in Paid(u, t) : p \in Int
  <1>1. /\ trades[u] \in Seq(TradeRow) /\ TradeOf(r) \in TradeRow
        /\ u = order[r].user => trades'[u] = Append(trades[u], TradeOf(r))
        /\ u # order[r].user => trades'[u] = trades[u]
    BY CommitTrades
  <1> DEFINE h == trades[u]
             g == trades'[u]
             n == Len(h)
  <1>2. /\ n \in Nat /\ DOMAIN h = 1..n /\ DOMAIN g \subseteq Nat
        /\ \A i \in 1..n : i \in DOMAIN g /\ g[i] = h[i] /\ h[i].price \in Int
        /\ u = order[r].user => n + 1 \in DOMAIN g /\ g[n + 1] = TradeOf(r)
    <2>1. /\ n \in Nat /\ DOMAIN h = 1..n /\ \A i \in 1..n : h[i] \in TradeRow
      BY <1>1
    <2>2. \A i \in 1..n : h[i].price \in Int
      BY <2>1 DEF TradeRow
    <2>3. CASE u = order[r].user
      BY <1>1, <2>1, <2>2, <2>3
    <2>4. CASE u # order[r].user
      BY <1>1, <2>1, <2>2, <2>4
    <2>5. QED
      BY <2>3, <2>4
  <1>3. Paid(u, t) = {h[i].price : i \in {j \in DOMAIN h : h[j].ticker = t /\ h[j].side = "buy"}}
    BY DEF Paid
  <1>4. Paid(u, t)' = {g[i].price : i \in {j \in DOMAIN g : g[j].ticker = t /\ g[j].side = "buy"}}
    BY DEF Paid
  <1> HIDE DEF h, g, n
  <1>5. Paid(u, t) \subseteq Paid(u, t)' /\ \A p \in Paid(u, t) : p \in Int
    BY <1>2, <1>3, <1>4
  <1>6. ASSUME <<u, t>> = Key(r), order[r].side = "buy" PROVE price[r] \in Paid(u, t)'
    <2>1. u = order[r].user /\ t = order[r].ticker
      BY <1>6 DEF Key
    <2>2. /\ TradeOf(r).ticker = t /\ TradeOf(r).side = "buy" /\ TradeOf(r).price = price[r]
      BY <1>6, <2>1 DEF TradeOf
    <2>3. QED
      BY <1>2, <1>4, <2>1, <2>2
  <1>7. QED
    BY <1>5, <1>6

\* A commit leaves the average of its row within what its user has paid.
LEMMA CommitAvg ==
  ASSUME IInv, AvgInv, NEW r \in Requests, Commit(r), NEW u \in Users, NEW t \in Tickers,
         <<u, t>> \in rows', <<u, t>> = Key(r)
  PROVE  /\ \E p \in Paid(u, t)' : p <= NewAvg(r)
         /\ \E p \in Paid(u, t)' : NewAvg(r) <= p
  <1>1. /\ TypeOK /\ Solvent /\ pc[r] = "loaded" /\ price[r] \in Prices
        /\ order[r].quantity > 0 /\ order[r].quantity \in Int
        /\ order[r].side \in {"buy", "sell"}
        /\ seen[r].quantity = Held(<<u, t>>) /\ Fillable(r)
    BY OrderFacts DEF IInv, TransactionIsolated, Isolated, Commit, InTransaction
  <1>2. price[r] \in Int /\ <<u, t>> \in Users \X Tickers
    <2>1. price[r] \in Int
      <3>1. \A p \in Prices : p \in Int
        BY PricesAssumption
      <3>2. QED
        BY <1>1, <3>1
    <2>2. QED
      BY <2>1
  <1>3. seen[r].avg = IF <<u, t>> \in rows THEN avgPrice[<<u, t>>] ELSE price[r]
    BY <1>1 DEF AvgInv, LoadedAvg
  <1>4. /\ Paid(u, t) \subseteq Paid(u, t)'
        /\ order[r].side = "buy" => price[r] \in Paid(u, t)'
        /\ \A p \in Paid(u, t) : p \in Int
    BY PaidGrows
  <1>5. CASE order[r].side = "sell"
    <2>1. <<u, t>> \in rows
      BY <1>1, <1>5 DEF Fillable, Held
    <2>2. NewAvg(r) = avgPrice[<<u, t>>]
      BY <1>3, <1>5, <2>1 DEF NewAvg
    <2>3. QED
      BY <1>4, <2>1, <2>2 DEF AvgInv, AvgPriceWithinPaid
  <1>6. CASE order[r].side = "buy" /\ <<u, t>> \in rows
    <2> DEFINE x == avgPrice[<<u, t>>]
               m == quantity[<<u, t>>]
               n == order[r].quantity
    <2>1. x \in Int /\ m \in Nat /\ n \in Nat \ {0}
      BY <1>1, <1>2, <1>6 DEF TypeOK, Solvent
    <2>2. NewAvg(r) = RoundHalfUp(x * m + price[r] * n, m + n)
      BY <1>1, <1>3, <1>6 DEF NewAvg, NewQuantity, Cost, Held
    <2>3. PICK lo \in Paid(u, t) : lo <= x
      BY <1>6 DEF AvgInv, AvgPriceWithinPaid
    <2>4. PICK hi \in Paid(u, t) : x <= hi
      BY <1>6 DEF AvgInv, AvgPriceWithinPaid
    <2>5. lo \in Int /\ hi \in Int
      BY <1>4
    <2> HIDE DEF x, m, n
    <2>6. \A b \in Int : /\ b <= x /\ b <= price[r] => b <= NewAvg(r)
                         /\ x <= b /\ price[r] <= b => NewAvg(r) <= b
      BY <1>2, <2>1, <2>2, AverageBounds
    <2>7. \E p \in Paid(u, t)' : p <= NewAvg(r)
      <3>1. CASE lo <= price[r]
        BY <1>4, <2>3, <2>5, <2>6, <3>1
      <3>2. CASE price[r] <= lo
        <4>1. price[r] <= x
          BY <1>2, <2>1, <2>3, <2>5, <3>2
        <4>2. price[r] <= NewAvg(r)
          BY <1>2, <2>6, <4>1
        <4>3. QED
          BY <1>4, <1>6, <4>2
      <3>3. QED
        BY <1>2, <2>5, <3>1, <3>2
    <2>8. \E p \in Paid(u, t)' : NewAvg(r) <= p
      <3>1. CASE price[r] <= hi
        BY <1>4, <2>4, <2>5, <2>6, <3>1
      <3>2. CASE hi <= price[r]
        <4>1. x <= price[r]
          BY <1>2, <2>1, <2>4, <2>5, <3>2
        <4>2. NewAvg(r) <= price[r]
          BY <1>2, <2>6, <4>1
        <4>3. QED
          BY <1>4, <1>6, <4>2
      <3>3. QED
        BY <1>2, <2>5, <3>1, <3>2
    <2>9. QED
      BY <2>7, <2>8
  <1>7. CASE order[r].side = "buy" /\ <<u, t>> \notin rows
    <2>1. seen[r].quantity = 0 /\ seen[r].avg = price[r]
      BY <1>1, <1>3, <1>7 DEF Held
    <2>2. NewAvg(r) = RoundHalfUp(price[r] * 0 + price[r] * order[r].quantity,
                                  0 + order[r].quantity)
      BY <1>7, <2>1 DEF NewAvg, NewQuantity, Cost
    <2>3. NewAvg(r) = price[r]
      <3>1. order[r].quantity \in Nat \ {0}
        BY <1>1
      <3>2. QED
        BY <1>2, <2>2, <3>1, FirstAverage, Zenon
    <2>4. QED
      BY <1>2, <1>4, <1>7, <2>3
  <1>8. QED
    BY <1>1, <1>5, <1>6, <1>7

\* Every step keeps the averages within what was paid.
LEMMA AvgStep ==
  ASSUME IInv, AvgInv, [Next]_vars
  PROVE  AvgPriceWithinPaid'
  <1> SUFFICES ASSUME NEW u \in Users, NEW t \in Tickers, <<u, t>> \in rows'
               PROVE  /\ \E p \in Paid(u, t)' : p <= avgPrice'[<<u, t>>]
                      /\ \E p \in Paid(u, t)' : avgPrice'[<<u, t>>] <= p
    BY DEF AvgPriceWithinPaid
  <1>1. TypeOK
    BY DEF IInv
  <1>2. <<u, t>> \in rows => /\ \E p \in Paid(u, t) : p <= avgPrice[<<u, t>>]
                             /\ \E p \in Paid(u, t) : avgPrice[<<u, t>>] <= p
    BY DEF AvgInv, AvgPriceWithinPaid
  <1>3. ASSUME NEW r \in Requests, Commit(r)
        PROVE  /\ \E p \in Paid(u, t)' : p <= avgPrice'[<<u, t>>]
               /\ \E p \in Paid(u, t)' : avgPrice'[<<u, t>>] <= p
    <2>1. CASE <<u, t>> = Key(r)
      <3>1. avgPrice'[<<u, t>>] = NewAvg(r)
        BY <1>1, <1>3, <2>1 DEF Commit, TypeOK
      <3>2. QED
        BY <1>3, <2>1, <3>1, CommitAvg
    <2>2. CASE <<u, t>> # Key(r)
      <3>1. <<u, t>> \in rows /\ avgPrice'[<<u, t>>] = avgPrice[<<u, t>>]
        BY <1>1, <1>3, <2>2 DEF Commit, RowsAfter, TypeOK
      <3>2. Paid(u, t) \subseteq Paid(u, t)'
        BY <1>3, PaidGrows
      <3>3. QED
        BY <1>2, <3>1, <3>2
    <2>3. QED
      BY <2>1, <2>2
  <1>4. CASE UNCHANGED <<cash, rows, quantity, avgPrice, trades>>
    <2>1. Paid(u, t)' = Paid(u, t)
      BY <1>4 DEF Paid
    <2>2. QED
      BY <1>2, <1>4, <2>1
  <1>5. QED
    BY <1>3, <1>4, OnlyCommitWrites

\* The average cost of a position stays between the lowest and the highest
\* price paid, for any prices and any interleaving of requests.
THEOREM AverageSound == Spec => []AvgPriceWithinPaid
  <1>1. Init => AvgInv
    BY DEF Init, AvgInv, LoadedAvg, AvgPriceWithinPaid
  <1>2. IInv /\ AvgInv /\ [Next]_vars => AvgInv'
    BY LoadedAvgStep, AvgStep DEF AvgInv
  <1>3. AvgInv => AvgPriceWithinPaid
    BY DEF AvgInv
  <1>4. QED
    BY <1>1, <1>2, <1>3, Invariance, PTL DEF Spec, SafeSpec

-----------------------------------------------------------------------------
\* Where the rows and quantities stand still, so do the shares.
LEMMA SameShares ==
  ASSUME UNCHANGED <<rows, quantity>>
  PROVE  Shares' = Shares
  BY DEF Shares, Held

\* The account's money is the endpoints' money.
LEMMA SameMoney ==
  ASSUME NEW x
  PROVE  Account!Units(x) = Units(x) /\ Account!ToCents(x) = ToCents(x)
  BY DEF Account!Units, Account!ToCents, Account!RoundHalfUp, Account!UnitsPerCent,
         ToCents, RoundHalfUp

\* A commit is one indivisible fill of the account.
LEMMA CommitRefines ==
  ASSUME IInv, NEW r \in Requests, Commit(r)
  PROVE  Account!Next
  <1> DEFINE u == order[r].user
             t == order[r].ticker
             n == order[r].quantity
             p == price[r]
  <1>1. TypeOK /\ Isolated(r) /\ pc[r] = "loaded"
    BY DEF IInv, TransactionIsolated, Commit
  <1>2. /\ u \in Users /\ t \in Tickers /\ Key(r) = <<u, t>> /\ <<u, t>> \in Users \X Tickers
        /\ order[r].side \in {"buy", "sell"} /\ order[r] \in Orders
    BY <1>1, OrderFacts DEF TypeOK
  <1>3. p \in Prices /\ n > 0 /\ n \in Int /\ n \in Quantities
    BY <1>1, <1>2, OrderFacts DEF Isolated, InTransaction, Quantities
  <1>4. /\ seen[r].cash = cash[u] /\ seen[r].quantity = Held(<<u, t>>) /\ Fillable(r)
    BY <1>1, <1>2 DEF Isolated, InTransaction
  <1>5. Shares[<<u, t>>] = Held(<<u, t>>)
    BY <1>2 DEF Shares
  <1>6. Shares' = [Shares EXCEPT ![<<u, t>>] = NewQuantity(r)]
    <2>1. ASSUME NEW k \in Users \X Tickers, k # <<u, t>>
          PROVE  Held(k)' = Held(k)
      BY <1>1, <1>2, <2>1 DEF Commit, RowsAfter, Held, TypeOK
    <2>2. (IF <<u, t>> \in rows' THEN quantity'[<<u, t>>] ELSE 0) = NewQuantity(r)
      BY <1>1, <1>2 DEF Commit, RowsAfter, Held, TypeOK
    <2>3. Shares' = [k \in Users \X Tickers |-> IF k \in rows' THEN quantity'[k] ELSE 0]
      BY DEF Shares, Held
    <2>4. ASSUME NEW k \in Users \X Tickers
          PROVE  (IF k \in rows' THEN quantity'[k] ELSE 0)
                   = IF k = <<u, t>> THEN NewQuantity(r) ELSE Shares[k]
      <3>1. CASE k = <<u, t>>
        BY <2>2, <3>1
      <3>2. CASE k # <<u, t>>
        <4>1. Shares[k] = Held(k)
          BY DEF Shares
        <4>2. QED
          BY <2>1, <3>2, <4>1 DEF Held
      <3>3. QED
        BY <3>1, <3>2
    <2>5. Shares = [k \in Users \X Tickers |-> Shares[k]]
      BY DEF Shares
    <2>6. QED
      BY <2>3, <2>4, <2>5
  <1>7. /\ opened' = opened \union {u}
        /\ cash' = [cash EXCEPT ![u] = NewCash(r)]
        /\ trades' = [trades EXCEPT ![u] = Append(@, TradeOf(r))]
    BY DEF Commit
  <1>8. CASE order[r].side = "buy"
    <2>1. p * n <= Units(cash[u])
      BY <1>4, <1>8 DEF Fillable, Cost
    <2>2. NewQuantity(r) = Shares[<<u, t>>] + n
      BY <1>4, <1>5, <1>8 DEF NewQuantity
    <2>3. NewCash(r) = ToCents(Units(cash[u]) - p * n)
      BY <1>4, <1>8 DEF NewCash, Cost
    <2>4. Account!Buy(u, t, n, p)
      <3>1. cash' = [cash EXCEPT ![u] = ToCents(Units(@) - p * n)]
        BY <1>1, <1>7, <2>3 DEF TypeOK
      <3>2. Shares' = [Shares EXCEPT ![<<u, t>>] = @ + n]
        BY <1>2, <1>6, <2>2 DEF Shares
      <3>3. Account!Record(u, t, "buy", n, p)
        BY <1>7, <1>8 DEF Account!Record, TradeOf
      <3>4. QED
        BY <1>7, <2>1, <3>1, <3>2, <3>3, SameMoney DEF Account!Buy
    <2>5. QED
      BY <1>2, <1>3, <2>4 DEF Account!Next
  <1>9. CASE order[r].side = "sell"
    <2>1. n <= Shares[<<u, t>>]
      BY <1>2, <1>4, <1>5, <1>9 DEF Fillable
    <2>2. NewQuantity(r) = Shares[<<u, t>>] - n
      BY <1>4, <1>5, <1>9 DEF NewQuantity
    <2>3. NewCash(r) = ToCents(Units(cash[u]) + p * n)
      BY <1>4, <1>9 DEF NewCash, Cost
    <2>4. Account!Sell(u, t, n, p)
      <3>1. cash' = [cash EXCEPT ![u] = ToCents(Units(@) + p * n)]
        BY <1>1, <1>7, <2>3 DEF TypeOK
      <3>2. Shares' = [Shares EXCEPT ![<<u, t>>] = @ - n]
        BY <1>2, <1>6, <2>2 DEF Shares
      <3>3. Account!Record(u, t, "sell", n, p)
        BY <1>7, <1>9 DEF Account!Record, TradeOf
      <3>4. QED
        BY <1>7, <2>1, <3>1, <3>2, <3>3, SameMoney DEF Account!Sell
    <2>5. QED
      BY <1>2, <1>3, <2>4 DEF Account!Next
  <1>10. QED
    BY <1>2, <1>8, <1>9

\* The endpoints implement atomic fills: every step is a fill, the opening of
\* an account, or invisible to the account.
THEOREM Refinement == Spec => AccountSpec
  <1>1. Init => Account!Init
    BY DEF Init, Account!Init, Shares, Held
  <1>2. ASSUME IInv, [Next]_vars
        PROVE  [Account!Next]_(Account!vars)
    <2> USE DEF market, tables, requests
    <2>1. ASSUME NEW r \in Requests, Commit(r) PROVE Account!Next
      BY <1>2, <2>1, CommitRefines
    <2>2. ASSUME NEW r \in Requests, RejectFill(r) PROVE Account!Next
      <3>1. order[r].user \in Users
        BY <1>2, OrderFacts DEF IInv
      <3>2. Account!Open(order[r].user)
        BY <2>2, SameShares DEF RejectFill, Account!Open
      <3>3. QED
        BY <3>1, <3>2 DEF Account!Next
    <2>3. ASSUME NEW u \in Users, OpenPortfolio(u) PROVE Account!Next
      <3>1. Account!Open(u)
        BY <2>3, SameShares DEF OpenPortfolio, Account!Open
      <3>2. QED
        BY <3>1 DEF Account!Next
    <2>4. ASSUME \/ \E r \in Requests : \/ Quote(r) \/ RejectOrder(r) \/ LockPortfolio(r)
                                        \/ LoadPosition(r) \/ RollBack(r) \/ Crash(r)
                 \/ \E t \in Tickers : DestroyTicker(t) \/ \E p \in Prices : PublishPrice(t, p)
                 \/ UNCHANGED vars
          PROVE  UNCHANGED Account!vars
      <3>1. UNCHANGED <<opened, cash, rows, quantity, trades>>
        BY <2>4 DEF Quote, RejectOrder, LockPortfolio, LoadPosition, RollBack, Crash,
                    DestroyTicker, PublishPrice, vars
      <3>2. QED
        BY <3>1, SameShares DEF Account!vars
    <2>5. QED
      BY <1>2, <2>1, <2>2, <2>3, <2>4 DEF Next, Serve
  <1>3. QED
    BY <1>1, <1>2, Invariance, PTL DEF Spec, SafeSpec, AccountSpec, Account!Spec

=================================================================================
