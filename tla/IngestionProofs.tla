---------------------------- MODULE IngestionProofs ----------------------------
(***************************************************************************)
(* What the fetchers of a run cannot do, whatever the places, their pages   *)
(* and the posts on them, and whatever requests fail: leave their types and *)
(* bounds, or pass over something they could have read and stored.  What    *)
(* the feeds show of a table, whatever its rows.                            *)
(***************************************************************************)
EXTENDS Ingestion, FiniteSetTheorems, WellFoundedInduction, TLAPS

-----------------------------------------------------------------------------
(* Recursion and folds.                                                     *)

\* A set of naturals that is not empty has a least member.
LEMMA Least ==
  ASSUME NEW S, S \subseteq Nat, S # {}
  PROVE  \E least \in S : \A x \in S : least <= x
<1>. DEFINE Below == {pair \in Nat \X Nat : pair[1] < pair[2]}
<1>1. IsWellFoundedOn(Below, Nat)
  BY NatLessThanWellFounded DEF OpToRel
<1>2. PICK least \in S : \A x \in S : ~(<<x, least>> \in Below)
  <2>. HIDE DEF Below
  <2>. QED BY <1>1, WFMin
<1>3. \A x, y \in Nat : x < y => <<x, y>> \in Below
  OBVIOUS
<1>. HIDE DEF Below
<1>4. \A x \in S : ~(x < least)
  BY <1>2, <1>3
<1>. QED BY <1>4

\* Induction over the naturals, by the least counterexample.
LEMMA Induction ==
  ASSUME NEW S, 0 \in S, \A n \in Nat : n \in S => n + 1 \in S
  PROVE  \A n \in Nat : n \in S
<1>. SUFFICES ASSUME NEW m \in Nat, m \notin S PROVE FALSE
  OBVIOUS
<1>1. PICK n \in Nat \ S : \A x \in Nat \ S : n <= x
  <2>1. Nat \ S \subseteq Nat /\ Nat \ S # {}
    OBVIOUS
  <2>. QED BY <2>1, Least
<1>2. n # 0 /\ n - 1 \in Nat
  BY <1>1
<1>3. n - 1 \in S
  BY <1>1, <1>2
<1>. QED BY <1>2, <1>3, <1>1

\* pick names a member of every subset of D, g maps a member and a value to a
\* value, and f takes the members of a set away one after the other, as pick says.
Picks(pick, D) == \A S \in SUBSET D : S # {} => pick[S] \in S
Maps(g, D, X) == \A d \in D, x \in X : g[<<d, x>>] \in X
Folds(f, D, pick, base, g) ==
  \A S \in SUBSET D : f[S] = IF S = {} THEN base ELSE g[<<pick[S], f[S \ {pick[S]}]>>]

\* A function can be defined on the subsets of a finite set by taking away one
\* member after the other.
LEMMA RecursionExists ==
  ASSUME NEW D, IsFiniteSet(D), NEW pick, Picks(pick, D),
         NEW X, NEW base \in X, NEW g, Maps(g, D, X)
  PROVE  \E f \in [SUBSET D -> X] : Folds(f, D, pick, base, g)
<1>. DEFINE Rec(f, S) == f[S] = IF S = {} THEN base ELSE g[<<pick[S], f[S \ {pick[S]}]>>]
            Upto(n, f) == \A S \in SUBSET D : Cardinality(S) <= n => Rec(f, S)
            Have == {n \in Nat : \E f \in [SUBSET D -> X] : Upto(n, f)}
<1>1. \A S \in SUBSET D : /\ IsFiniteSet(S) /\ Cardinality(S) \in Nat
                          /\ Cardinality(S) <= Cardinality(D) /\ Cardinality(D) \in Nat
  BY FS_Subset, FS_CardinalityType
<1>2. \A S \in SUBSET D : S # {} => Cardinality(S \ {pick[S]}) = Cardinality(S) - 1
  BY <1>1, FS_RemoveElement DEF Picks
<1>3. 0 \in Have
  <2>. DEFINE f == [S \in SUBSET D |-> base]
  <2>1. f \in [SUBSET D -> X]
    OBVIOUS
  <2>2. ASSUME NEW S \in SUBSET D, Cardinality(S) <= 0 PROVE S = {}
    <3>1. IsFiniteSet(S) /\ Cardinality(S) = 0
      BY <1>1, <2>2
    <3>. QED BY <3>1, FS_EmptySet
  <2>3. Upto(0, f)
    BY <2>2
  <2>. QED BY <2>1, <2>3
<1>4. ASSUME NEW n \in Nat, n \in Have PROVE n + 1 \in Have
  <2>1. PICK f \in [SUBSET D -> X] : Upto(n, f)
    BY <1>4
  <2>. DEFINE h == [S \in SUBSET D |-> IF S = {} THEN base ELSE g[<<pick[S], f[S \ {pick[S]}]>>]]
  <2>2. \A S \in SUBSET D : S # {} => pick[S] \in D /\ S \ {pick[S]} \in SUBSET D
    BY DEF Picks
  <2>3. h \in [SUBSET D -> X]
    BY <2>2 DEF Maps
  <2>4. ASSUME NEW S \in SUBSET D, Cardinality(S) <= n PROVE h[S] = f[S]
    <3>1. Rec(f, S)
      BY <2>1, <2>4
    <3>. QED BY <3>1
  <2>5. ASSUME NEW S \in SUBSET D, Cardinality(S) <= n + 1 PROVE Rec(h, S)
    <3>1. CASE S = {}
      BY <3>1
    <3>2. CASE S # {}
      <4>1. Cardinality(S \ {pick[S]}) = Cardinality(S) - 1 /\ Cardinality(S) \in Nat
        BY <1>1, <1>2, <3>2
      <4>2. S \ {pick[S]} \in SUBSET D /\ Cardinality(S \ {pick[S]}) <= n
        BY <2>5, <4>1
      <4>3. h[S \ {pick[S]}] = f[S \ {pick[S]}]
        BY <2>4, <4>2
      <4>4. h[S] = g[<<pick[S], f[S \ {pick[S]}]>>]
        BY <3>2
      <4>. HIDE DEF h
      <4>. QED BY <3>2, <4>3, <4>4
    <3>. QED BY <3>1, <3>2
  <2>6. Upto(n + 1, h)
    <3>. HIDE DEF Rec, h
    <3>. QED BY <2>5
  <2>. HIDE DEF Upto, h
  <2>7. (\E f1 \in [SUBSET D -> X] : Upto(n + 1, f1)) /\ n + 1 \in Nat
    BY <2>3, <2>6
  <2>. QED BY <2>7
<1>5. \A n \in Nat : n \in Have => n + 1 \in Have
  BY <1>4
<1>. HIDE DEF Have
<1>6. Cardinality(D) \in Have
  BY <1>1, <1>3, <1>5, Induction
<1>7. PICK f \in [SUBSET D -> X] : Upto(Cardinality(D), f)
  <2>. HIDE DEF Upto
  <2>. QED BY <1>6 DEF Have
<1>. QED BY <1>1, <1>7 DEF Folds

\* The largest member of a set of positions.
LEMMA MaxOf ==
  ASSUME NEW n \in Nat, NEW s \in SUBSET (1..n), s # {}
  PROVE  Max(s) \in s /\ \A x \in s : x <= Max(s)
<1>. DEFINE T == {n - x : x \in s}
<1>1. T \subseteq Nat /\ T # {}
  <2>1. \A x \in s : n - x \in Nat
    OBVIOUS
  <2>. QED BY <2>1
<1>2. PICK t \in T : \A x \in T : t <= x
  BY <1>1, Least
<1>3. PICK m \in s : t = n - m
  BY <1>2
<1>4. \A x \in s : m >= x
  <2>1. \A x \in s : n - m <= n - x /\ x \in Int
    BY <1>2, <1>3
  <2>. HIDE DEF T
  <2>. QED BY <1>3, <2>1
<1>5. \E y \in s : \A x \in s : y >= x
  BY <1>4
<1>6. Max(s) \in s /\ \A x \in s : Max(s) >= x
  <2>. HIDE DEF T
  <2>. QED BY <1>5, Zenon DEF Max
<1>7. s \subseteq Int
  OBVIOUS
<1>. QED BY <1>6, <1>7

\* What FoldLeft takes away first from the first i positions.
LEMMA LastPosition ==
  ASSUME NEW n \in Nat, NEW i \in 1..n
  PROVE  /\ 1..i \in SUBSET (1..n) /\ 1..i # {} /\ Max(1..i) = i
         /\ (1..i) \ {i} = 1..(i - 1) /\ i - 1 \in 0..n
<1>1. 1..i \in SUBSET (1..n) /\ 1..i # {} /\ i \in 1..i
  OBVIOUS
<1>2. Max(1..i) \in 1..i /\ i <= Max(1..i)
  BY <1>1, MaxOf
<1>3. \A x \in 1..i : i <= x => x = i
  OBVIOUS
<1>4. Max(1..i) = i
  BY <1>2, <1>3
<1>. QED BY <1>1, <1>4

\* f takes away the last of n positions first.
FoldsUp(f, n, base, g) ==
  \A S \in SUBSET (1..n) : f[S] = IF S = {} THEN base ELSE g[<<Max(S), f[S \ {Max(S)}]>>]

\* A fold over positions is a function that RecursionExists gives.
LEMMA FoldExists ==
  ASSUME NEW n \in Nat, NEW X, NEW base \in X, NEW g, Maps(g, 1..n, X)
  PROVE  \E f \in [SUBSET (1..n) -> X] : FoldsUp(f, n, base, g)
<1>. DEFINE D == 1..n
            pick == [S \in SUBSET D |-> Max(S)]
<1>1. \A S \in SUBSET D : pick[S] = Max(S)
  OBVIOUS
<1>2. Picks(pick, D)
  BY <1>1, MaxOf DEF Picks
<1>3. IsFiniteSet(D) /\ Maps(g, D, X)
  BY FS_Interval, 1 \in Int, n \in Int
<1>. HIDE DEF pick, D
<1>4. PICK f \in [SUBSET D -> X] : Folds(f, D, pick, base, g)
  BY <1>2, <1>3, RecursionExists
<1>5. \A S \in SUBSET D : f[S] = IF S = {} THEN base ELSE g[<<pick[S], f[S \ {pick[S]}]>>]
  BY <1>4 DEF Folds
<1>6. \A S \in SUBSET D : f[S] = IF S = {} THEN base ELSE g[<<Max(S), f[S \ {Max(S)}]>>]
  BY <1>1, <1>5, Zenon
<1>. QED BY <1>4, <1>6 DEF D, FoldsUp

-----------------------------------------------------------------------------
(* What the filters keep.                                                   *)

\* One step of Kept.
Keep(kept, c, good) == IF c \in good THEN Append(kept, c) ELSE kept

\* Kept is a function on positions that adds the children up to each of them.
LEMMA KeptUnfolds ==
  ASSUME NEW S, NEW s \in Seq(S), NEW good
  PROVE  \E q : /\ q[0] = <<>> /\ Kept(s, good) = q[Len(s)]
                /\ \A i \in 1..Len(s) : q[i] = Keep(q[i - 1], s[i], good)
<1>. DEFINE n == Len(s)
            F(f) == [X \in SUBSET (1..n) |->
                       IF X = {} THEN <<>> ELSE Keep(f[X \ {Max(X)}], s[Max(X)], good)]
            T == CHOOSE f : f = F(f)
            g == [x \in (1..n) \X Seq(S) |-> Keep(x[2], s[x[1]], good)]
<1>1. n \in Nat /\ DOMAIN s = 1..n /\ (\A i \in 1..n : s[i] \in S) /\ <<>> \in Seq(S)
  OBVIOUS
<1>2. \A i \in 1..n, k \in Seq(S) : Keep(k, s[i], good) \in Seq(S)
  BY <1>1 DEF Keep
<1>3. \A i \in 1..n, k \in Seq(S) : g[<<i, k>>] = Keep(k, s[i], good)
  OBVIOUS
<1>4. Kept(s, good) = T[1..n]
  BY <1>1 DEF Kept, Keep, FoldLeft, MapThenFoldSet
<1>. HIDE DEF g
<1>5. Maps(g, 1..n, Seq(S))
  BY <1>2, <1>3 DEF Maps
<1>. HIDE DEF n
<1>6. PICK f \in [SUBSET (1..n) -> Seq(S)] : FoldsUp(f, n, <<>>, g)
  BY <1>1, <1>5, FoldExists
<1>7. ASSUME NEW X \in SUBSET (1..n)
      PROVE  f[X] = IF X = {} THEN <<>> ELSE Keep(f[X \ {Max(X)}], s[Max(X)], good)
  <2>1. CASE X # {}
    <3>1. Max(X) \in 1..n /\ X \ {Max(X)} \in SUBSET (1..n)
      BY <1>1, <2>1, MaxOf
    <3>2. f[X \ {Max(X)}] \in Seq(S)
      BY <1>6, <3>1
    <3>. QED BY <1>3, <1>6, <2>1, <3>1, <3>2 DEF FoldsUp
  <2>. QED BY <1>6, <2>1 DEF FoldsUp
<1>8. f = F(f)
  <2>1. F(f) = [X \in SUBSET (1..n) |-> f[X]]
    BY <1>7
  <2>. HIDE DEF F
  <2>. QED BY <1>6, <2>1
<1>9. T = F(T)
  <2>. HIDE DEF F
  <2>. QED BY <1>8
<1>10. \A X \in SUBSET (1..n) :
         F(T)[X] = IF X = {} THEN <<>> ELSE Keep(T[X \ {Max(X)}], s[Max(X)], good)
  <2>. HIDE DEF T
  <2>. QED OBVIOUS
<1>. HIDE DEF F
<1>11. \A X \in SUBSET (1..n) :
         T[X] = IF X = {} THEN <<>> ELSE Keep(T[X \ {Max(X)}], s[Max(X)], good)
  <2>. HIDE DEF T
  <2>. QED BY <1>9, <1>10
<1>. HIDE DEF T
<1>. DEFINE q == [i \in 0..n |-> T[1..i]]
<1>12. q[0] = <<>> /\ q[n] = T[1..n]
  <2>1. 1..0 = {} /\ 0 \in 0..n /\ n \in 0..n
    BY <1>1
  <2>. QED BY <1>11, <2>1
<1>13. ASSUME NEW i \in 1..n PROVE q[i] = Keep(q[i - 1], s[i], good)
  <2>1. /\ 1..i \in SUBSET (1..n) /\ 1..i # {} /\ Max(1..i) = i
        /\ (1..i) \ {i} = 1..(i - 1) /\ i - 1 \in 0..n /\ i \in 0..n
    <3>1. n \in Nat
      BY <1>1
    <3>2. i \in 0..n
      BY <3>1
    <3>. QED BY <3>1, <3>2, LastPosition
  <2>2. T[1..i] = Keep(T[1..(i - 1)], s[i], good)
    BY <1>11, <2>1
  <2>. QED BY <2>1, <2>2
<1>. HIDE DEF q
<1>14. \A i \in 1..n : q[i] = Keep(q[i - 1], s[i], good)
  BY <1>13
<1>. QED BY <1>4, <1>12, <1>14 DEF n

\* The members of sequences.
LEMMA MembersType ==
  ASSUME NEW S, NEW s \in Seq(S)
  PROVE  ToSet(s) \subseteq S
BY DEF ToSet

LEMMA NoMembers == ToSet(<<>>) = {}
BY DEF ToSet

LEMMA MembersAppend ==
  ASSUME NEW S, NEW s \in Seq(S), NEW x \in S
  PROVE  ToSet(Append(s, x)) = ToSet(s) \union {x}
<1>1. /\ DOMAIN Append(s, x) = 1..(Len(s) + 1) /\ DOMAIN s = 1..Len(s) /\ Len(s) \in Nat
      /\ Append(s, x)[Len(s) + 1] = x /\ \A i \in 1..Len(s) : Append(s, x)[i] = s[i]
  OBVIOUS
<1>2. 1..(Len(s) + 1) = (1..Len(s)) \union {Len(s) + 1}
  BY <1>1
<1>. QED BY <1>1, <1>2 DEF ToSet

LEMMA MembersConcat ==
  ASSUME NEW S, NEW s \in Seq(S), NEW t \in Seq(S)
  PROVE  s \o t \in Seq(S) /\ ToSet(s \o t) = ToSet(s) \union ToSet(t)
<1>. DEFINE u == s \o t
<1>1. /\ u \in Seq(S) /\ DOMAIN u = 1..(Len(s) + Len(t)) /\ DOMAIN s = 1..Len(s) /\ DOMAIN t = 1..Len(t)
      /\ Len(s) \in Nat /\ Len(t) \in Nat
      /\ \A i \in 1..Len(s) : u[i] = s[i]
      /\ \A i \in 1..Len(t) : u[Len(s) + i] = t[i]
  OBVIOUS
<1>. HIDE DEF u
<1>2. \A i \in DOMAIN u : i \in DOMAIN s \/ (i - Len(s) \in DOMAIN t /\ i = Len(s) + (i - Len(s)))
  BY <1>1
<1>3. (\A i \in DOMAIN s : i \in DOMAIN u) /\ (\A i \in DOMAIN t : Len(s) + i \in DOMAIN u)
  BY <1>1
<1>4. \A x \in ToSet(u) : x \in ToSet(s) \/ x \in ToSet(t)
  <2>. SUFFICES ASSUME NEW i \in DOMAIN u PROVE u[i] \in ToSet(s) \/ u[i] \in ToSet(t)
    BY DEF ToSet
  <2>. QED BY <1>1, <1>2 DEF ToSet
<1>5. ToSet(s) \subseteq ToSet(u) /\ ToSet(t) \subseteq ToSet(u)
  BY <1>1, <1>3 DEF ToSet
<1>6. u \in Seq(S) /\ ToSet(u) = ToSet(s) \union ToSet(t)
  BY <1>1, <1>4, <1>5
<1>. QED BY <1>6 DEF u

LEMMA MembersHead ==
  ASSUME NEW S, NEW s \in Seq(S), s # <<>>
  PROVE  /\ Head(s) \in S /\ Tail(s) \in Seq(S)
         /\ ToSet(s) = {Head(s)} \union ToSet(Tail(s))
<1>1. /\ Len(s) \in Nat \ {0} /\ DOMAIN s = 1..Len(s) /\ DOMAIN Tail(s) = 1..(Len(s) - 1)
      /\ Head(s) = s[1] /\ \A i \in 1..(Len(s) - 1) : Tail(s)[i] = s[i + 1]
  OBVIOUS
<1>2. Head(s) \in S /\ Tail(s) \in Seq(S)
  OBVIOUS
<1>3. \A i \in DOMAIN s : i = 1 \/ (i - 1 \in 1..(Len(s) - 1) /\ (i - 1) + 1 = i)
  BY <1>1
<1>4. 1 \in DOMAIN s /\ \A i \in 1..(Len(s) - 1) : i + 1 \in DOMAIN s
  BY <1>1
<1>5. \A i \in DOMAIN s : s[i] = Head(s) \/ s[i] \in ToSet(Tail(s))
  BY <1>1, <1>3 DEF ToSet
<1>. QED BY <1>1, <1>2, <1>4, <1>5 DEF ToSet

\* Kept loses no good member of a sequence, and adds none.
LEMMA KeptMembers ==
  ASSUME NEW S, NEW s \in Seq(S), NEW good
  PROVE  Kept(s, good) \in Seq(S) /\ ToSet(Kept(s, good)) = ToSet(s) \cap good
<1>1. PICK q : /\ q[0] = <<>> /\ Kept(s, good) = q[Len(s)]
               /\ \A i \in 1..Len(s) : q[i] = Keep(q[i - 1], s[i], good)
  BY KeptUnfolds
<1>. DEFINE n == Len(s)
            Upto(i) == {s[j] : j \in 1..i}
            Have == {i \in Nat : i <= n => q[i] \in Seq(S) /\ ToSet(q[i]) = Upto(i) \cap good}
<1>2. n \in Nat /\ ToSet(s) = Upto(n) /\ \A i \in 1..n : s[i] \in S
  BY DEF ToSet
<1>3. 0 \in Have
  <2>1. <<>> \in Seq(S) /\ Upto(0) = {}
    OBVIOUS
  <2>. QED BY <1>1, <2>1, NoMembers
<1>4. ASSUME NEW i \in Nat, i \in Have, i + 1 <= n
      PROVE  q[i + 1] \in Seq(S) /\ ToSet(q[i + 1]) = Upto(i + 1) \cap good
  <2>1. q[i] \in Seq(S) /\ ToSet(q[i]) = Upto(i) \cap good
    BY <1>2, <1>4
  <2>2. i + 1 \in 1..n /\ (i + 1) - 1 = i
    BY <1>2, <1>4
  <2>3. q[i + 1] = Keep(q[i], s[i + 1], good) /\ s[i + 1] \in S
    BY <1>1, <1>2, <2>2
  <2>4. Upto(i + 1) = Upto(i) \union {s[i + 1]}
    <3>1. 1..(i + 1) = (1..i) \union {i + 1}
      OBVIOUS
    <3>. QED BY <3>1
  <2>5. ToSet(Append(q[i], s[i + 1])) = ToSet(q[i]) \union {s[i + 1]}
    BY <2>1, <2>3, MembersAppend
  <2>. HIDE DEF Upto
  <2>6. CASE s[i + 1] \in good
    BY <2>1, <2>3, <2>4, <2>5, <2>6 DEF Keep
  <2>7. CASE s[i + 1] \notin good
    BY <2>1, <2>3, <2>4, <2>7 DEF Keep
  <2>. QED BY <2>6, <2>7
<1>5. \A i \in Nat : i \in Have => i + 1 \in Have
  <2>. HIDE DEF n, Upto
  <2>. QED BY <1>4
<1>. HIDE DEF Have
<1>6. n \in Have
  BY <1>2, <1>3, <1>5, Induction
<1>7. q[n] \in Seq(S) /\ ToSet(q[n]) = Upto(n) \cap good
  BY <1>2, <1>6 DEF Have
<1>. QED BY <1>1, <1>2, <1>7


-----------------------------------------------------------------------------
(* The lists of sources and places.                                         *)

\* A child that the parser hands on and that is worth it.
Wanted(s, at, i) ==
  {c \in ToSet(Pages[at][i]) :
     c.kind # "broken" /\ (s = "news_google" => Relevant(c)) /\ Worth(c)}

LEMMA FetchersType ==
  /\ Sources \in Seq(AllPlaces)
  /\ Len(Fetchers) = Len(Sources) + 1 /\ Len(Sources) \in Nat
  /\ DOMAIN Fetchers = 1..Len(Fetchers)
  /\ Fetchers[1] = "reddit"
  /\ \A i \in 2..Len(Fetchers) : i - 1 \in DOMAIN Sources /\ Fetchers[i] = Sources[i - 1]
<1>1. Sources \in Seq(AllPlaces)
  BY PlacesAssumption
<1>. QED BY <1>1 DEF Fetchers

LEMMA OtherFetchers ==
  \A i \in 2..Len(Fetchers) : Fetchers[i] \in ToSet(Sources) /\ Fetchers[i] # "reddit"
<1>1. \A i \in 2..Len(Fetchers) : Fetchers[i] \in ToSet(Sources)
  BY FetchersType DEF ToSet
<1>. QED BY <1>1, PlacesAssumption

\* No fetcher comes twice.
LEMMA FetchersDistinct ==
  ASSUME NEW i \in 1..Len(Fetchers), NEW j \in 1..Len(Fetchers), Fetchers[i] = Fetchers[j]
  PROVE  i = j
<1>1. CASE i = 1 \/ j = 1
  <2>1. Len(Fetchers) \in Nat /\ (i # 1 => i \in 2..Len(Fetchers)) /\ (j # 1 => j \in 2..Len(Fetchers))
    BY FetchersType
  <2>. QED BY <1>1, <2>1, FetchersType, OtherFetchers
<1>2. CASE i # 1 /\ j # 1
  <2>1. i \in 2..Len(Fetchers) /\ j \in 2..Len(Fetchers)
    BY <1>2, FetchersType
  <2>2. i - 1 \in DOMAIN Sources /\ j - 1 \in DOMAIN Sources /\ Sources[i - 1] = Sources[j - 1]
    BY <2>1, FetchersType
  <2>3. i - 1 = j - 1
    BY <2>2, PlacesAssumption
  <2>. QED BY <2>1, <2>3
<1>. QED BY <1>1, <1>2

LEMMA PlacesType ==
  ASSUME NEW i \in 1..Len(Fetchers), NEW how
  PROVE  /\ PlacesOf(Fetchers[i], how) \in Seq(AllPlaces)
         /\ \A k, m \in DOMAIN PlacesOf(Fetchers[i], how) :
              PlacesOf(Fetchers[i], how)[k] = PlacesOf(Fetchers[i], how)[m] => k = m
         /\ (i > 1 \/ how \in {"oauth", "public"}) => 1 \in DOMAIN PlacesOf(Fetchers[i], how)
<1>1. CASE i = 1
  <2>1. PlacesOf(Fetchers[i], how) \in {SUBREDDITS, PUBLIC_SUBREDDITS, <<>>}
    BY <1>1, FetchersType DEF PlacesOf
  <2>2. how \in {"oauth", "public"} => PlacesOf(Fetchers[i], how) \in {SUBREDDITS, PUBLIC_SUBREDDITS}
    BY <1>1, FetchersType DEF PlacesOf
  <2>3. \A list \in {SUBREDDITS, PUBLIC_SUBREDDITS} :
          /\ list \in Seq(AllPlaces) /\ 1 \in DOMAIN list
          /\ \A k, m \in DOMAIN list : list[k] = list[m] => k = m
    BY PlacesAssumption
  <2>4. <<>> \in Seq(AllPlaces) /\ DOMAIN <<>> = {}
    OBVIOUS
  <2>5. CASE PlacesOf(Fetchers[i], how) = <<>>
    <3>1. ~(how \in {"oauth", "public"}) /\ ~(i > 1)
      BY <1>1, <2>2, <2>3, <2>4, <2>5
    <3>. QED BY <2>4, <2>5, <3>1
  <2>6. CASE PlacesOf(Fetchers[i], how) \in {SUBREDDITS, PUBLIC_SUBREDDITS}
    BY <2>3, <2>6
  <2>. QED BY <2>1, <2>5, <2>6
<1>2. CASE i # 1
  <2>1. i \in 2..Len(Fetchers)
    BY <1>2, FetchersType
  <2>2. PlacesOf(Fetchers[i], how) = <<Fetchers[i]>> /\ Fetchers[i] \in AllPlaces
    BY <2>1, OtherFetchers DEF PlacesOf, AllPlaces
  <2>. QED BY <2>2
<1>. QED BY <1>1, <1>2

\* What a place is listed for.
LEMMA PlacesMembers ==
  ASSUME NEW i \in 1..Len(Fetchers), NEW how, NEW at \in ToSet(PlacesOf(Fetchers[i], how))
  PROVE  /\ at \in AllPlaces
         /\ i = 1 => at \in ToSet(SUBREDDITS) \union ToSet(PUBLIC_SUBREDDITS)
         /\ i # 1 => at = Fetchers[i] /\ at \in ToSet(Sources)
<1>1. CASE i = 1
  <2>1. PlacesOf(Fetchers[i], how) \in {SUBREDDITS, PUBLIC_SUBREDDITS, <<>>}
    BY <1>1, FetchersType DEF PlacesOf
  <2>2. at \in ToSet(SUBREDDITS) \union ToSet(PUBLIC_SUBREDDITS)
    BY <2>1, NoMembers
  <2>. QED BY <1>1, <2>2 DEF AllPlaces
<1>2. CASE i # 1
  <2>1. i \in 2..Len(Fetchers)
    BY <1>2, FetchersType
  <2>2. PlacesOf(Fetchers[i], how) = <<Fetchers[i]>> /\ Fetchers[i] \in ToSet(Sources)
    BY <2>1, OtherFetchers DEF PlacesOf
  <2>3. at = Fetchers[i]
    BY <2>2 DEF ToSet
  <2>. QED BY <1>2, <2>2, <2>3 DEF AllPlaces
<1>. QED BY <1>1, <1>2

\* Two fetchers share no place.
LEMMA PlacesApart ==
  ASSUME NEW i \in 1..Len(Fetchers), NEW j \in 1..Len(Fetchers), NEW how,
         NEW at \in ToSet(PlacesOf(Fetchers[i], how)), at \in ToSet(PlacesOf(Fetchers[j], how))
  PROVE  i = j
<1>. DEFINE subs == ToSet(SUBREDDITS) \union ToSet(PUBLIC_SUBREDDITS)
<1>1. /\ i = 1 => at \in subs
      /\ i # 1 => at = Fetchers[i] /\ at \in ToSet(Sources)
  BY PlacesMembers
<1>2. /\ j = 1 => at \in subs
      /\ j # 1 => at = Fetchers[j] /\ at \in ToSet(Sources)
  BY PlacesMembers
<1>3. at \notin subs \/ at \notin ToSet(Sources)
  BY PlacesAssumption, Zenon
<1>. HIDE DEF subs
<1>4. i = 1 <=> j = 1
  BY <1>1, <1>2, <1>3, Zenon
<1>5. CASE i = 1
  BY <1>4, <1>5
<1>6. CASE i # 1
  <2>1. Fetchers[i] = Fetchers[j]
    BY <1>1, <1>2, <1>4, <1>6, Zenon
  <2>. QED BY <2>1, FetchersDistinct
<1>. QED BY <1>5, <1>6

LEMMA PageType ==
  ASSUME NEW at \in AllPlaces
  PROVE  /\ Len(Pages[at]) \in Nat \ {0}
         /\ \A n \in 1..Len(Pages[at]) : Pages[at][n] \in Seq(Children)
BY PagesAssumption

\* The parser keeps what is complete, and the test of quality what is worth it.
LEMMA ParsedMembers ==
  ASSUME NEW s, NEW at \in AllPlaces, NEW n \in 1..Len(Pages[at])
  PROVE  /\ Parsed(s, Pages[at][n]) \in Seq(Children)
         /\ \A c \in ToSet(Parsed(s, Pages[at][n])) : Worth(c) => c \in Wanted(s, at, n)
         /\ Wanted(s, at, n) \subseteq ToSet(Parsed(s, Pages[at][n]))
<1>. DEFINE list == Pages[at][n]
            good == {c \in ToSet(list) : c.kind # "broken" /\ (s = "news_google" => Relevant(c))}
<1>1. list \in Seq(Children)
  BY PageType
<1>2. Kept(list, good) \in Seq(Children) /\ ToSet(Kept(list, good)) = ToSet(list) \cap good
  <2>. HIDE DEF list, good
  <2>. QED BY <1>1, KeptMembers
<1>. QED BY <1>2 DEF Parsed, Wanted

LEMMA WorthMembers ==
  ASSUME NEW list \in Seq(Children)
  PROVE  /\ Kept(list, {c \in ToSet(list) : Worth(c)}) \in Seq(Children)
         /\ \A c \in ToSet(list) : Worth(c) => c \in ToSet(Kept(list, {d \in ToSet(list) : Worth(d)}))
<1>. DEFINE good == {c \in ToSet(list) : Worth(c)}
<1>1. Kept(list, good) \in Seq(Children) /\ ToSet(Kept(list, good)) = ToSet(list) \cap good
  <2>. HIDE DEF good
  <2>. QED BY KeptMembers
<1>. QED BY <1>1

-----------------------------------------------------------------------------
(* Types and bounds.                                                        *)

Stages == {"idle", "symbol", "token", "ask", "told", "wait", "store", "done"}

Named == UNION {ToSet(s) : s \in Symbols}

StoryRecords == [child : Stories, left : Seq(Named)]

TypeInv ==
  /\ setup \subseteq {"client", "agent"}
  /\ pc \in [Processes -> Stages]
  /\ story \in [Processes -> StoryRecords \union {None}]
  /\ ticker \in [Processes -> Tickers \union {None}]
  /\ source \in [Processes -> 1..Len(Fetchers)]
  /\ mode \in [Processes -> {"oauth", "public", "none"}]
  /\ place \in [Processes -> Nat \ {0}]
  /\ page \in [Processes -> 1..MaxPages]
  /\ after \in [Processes -> Nat]
  /\ tries \in [Processes -> 0..Retries]
  /\ posts \in [Processes -> Seq(Children)]
  /\ served \in [Processes -> SUBSET (AllPlaces \X Nat)]
  /\ gaveUp \in [Processes -> SUBSET AllPlaces]
  /\ raised \in [Processes -> SUBSET ToSet(Fetchers)]

Requesting(p) == pc[p] \in {"ask", "told", "wait"}

\* The next request of p is one that a fetcher makes: of a page of one of its
\* places, the one after the pages it has read.
RequestOK(p) ==
  /\ place[p] \in DOMAIN Places(p)
  /\ tries[p] <= RetriesOf(p)
  /\ page[p] <= PagesOf(Source(p), mode[p])
  /\ after[p] = page[p] - 1
  /\ after[p] < Len(Pages[Place(p)])

\* What p has in each stage.
StageOK(p) ==
  /\ pc[p] \in {"token", "ask", "told", "wait", "store", "done"} => ticker[p] # None
  /\ pc[p] = "symbol" => story[p] \in StoryRecords
  /\ pc[p] \in {"idle", "symbol", "token", "done"} => posts[p] = <<>>
  /\ pc[p] \in {"idle", "symbol", "token"} =>
       /\ source[p] = 1 /\ mode[p] = "none"
       /\ served[p] = {} /\ gaveUp[p] = {} /\ raised[p] = {}
  /\ pc[p] = "done" => source[p] = Len(Fetchers)
  /\ Requesting(p) => RequestOK(p)

StageInv == \A p \in Processes : StageOK(p)

\* Everything p has.
Local(p) ==
  <<pc[p], story[p], ticker[p], source[p], mode[p], place[p], page[p], after[p], tries[p],
    posts[p], served[p], gaveUp[p], raised[p]>>

Acts(p) ==
  \/ \E t \in Tickers : BeginPeriodic(p, t)
  \/ \E child \in Stories, symbols \in Symbols : HandleNews(p, child, symbols)
  \/ Step(p) \/ Crash(p)

\* A process leaves the others alone, and no step deletes a row.
LEMMA OthersLeft ==
  ASSUME TypeInv, NEW p \in Processes, NEW q \in Processes, p # q, Acts(p)
  PROVE  Local(q)' = Local(q)
<1>. USE DEF Local, TypeInv, Goto, request, history, run
<1>1. ASSUME NEW t \in Tickers, BeginPeriodic(p, t) PROVE Local(q)' = Local(q)
  BY <1>1 DEF BeginPeriodic, Begin
<1>2. ASSUME NEW child \in Stories, NEW symbols \in Symbols, HandleNews(p, child, symbols)
      PROVE Local(q)' = Local(q)
  BY <1>2 DEF HandleNews
<1>3. CASE TakeSymbol(p)
  BY <1>3 DEF TakeSymbol, Begin
<1>4. CASE EndRun(p) \/ Crash(p)
  BY <1>4 DEF EndRun, Crash, Forget
<1>5. CASE EndStory(p)
  BY <1>5 DEF EndStory
<1>6. CASE AskToken(p)
  BY <1>6 DEF AskToken, FirstRequest
<1>7. CASE Served(p)
  BY <1>7 DEF Served, NextPlace
<1>8. CASE Retry(p) \/ Waited(p)
  BY <1>8 DEF Retry, Waited
<1>9. CASE GiveUp(p)
  BY <1>9 DEF GiveUp, NextPlace
<1>10. CASE Raise(p)
  BY <1>10 DEF Raise, FirstRequest
<1>11. CASE StorePost(p)
  BY <1>11 DEF StorePost
<1>12. CASE NextSource(p)
  BY <1>12 DEF NextSource, FirstRequest
<1>. QED
  BY <1>1, <1>2, <1>3, <1>4, <1>5, <1>6, <1>7, <1>8, <1>9, <1>10, <1>11, <1>12 DEF Acts, Step

LEMMA RowsKept ==
  ASSUME NEW p \in Processes, Acts(p)
  PROVE  rows \subseteq rows' /\ UNCHANGED setup
BY DEF Acts, Step, BeginPeriodic, HandleNews, TakeSymbol, EndRun, Crash, EndStory, AskToken, Served,
       Retry, Waited, GiveUp, Raise, StorePost, NextSource

LEMMA StageKept ==
  ASSUME NEW q \in Processes, Local(q)' = Local(q), StageOK(q)
  PROVE  StageOK(q)'
BY DEF Local, StageOK, Requesting, RequestOK, Places, Place, Source, RetriesOf

\* The request of p is one for a place that has the page.
LEMMA RequestFacts ==
  ASSUME TypeInv, NEW p \in Processes, RequestOK(p)
  PROVE  /\ source[p] \in 1..Len(Fetchers) /\ Source(p) = Fetchers[source[p]]
         /\ Places(p) = PlacesOf(Source(p), mode[p]) /\ Places(p) \in Seq(AllPlaces)
         /\ place[p] \in 1..Len(Places(p)) /\ Len(Places(p)) \in Nat
         /\ Place(p) = Places(p)[place[p]] /\ Place(p) \in ToSet(Places(p)) /\ Place(p) \in AllPlaces
         /\ after[p] + 1 \in 1..Len(Pages[Place(p)])
<1>1. source[p] \in 1..Len(Fetchers) /\ Source(p) = Fetchers[source[p]]
  BY DEF TypeInv, Source
<1>2. Places(p) = PlacesOf(Source(p), mode[p]) /\ Places(p) \in Seq(AllPlaces)
  BY <1>1, PlacesType DEF Places
<1>3. place[p] \in 1..Len(Places(p)) /\ Len(Places(p)) \in Nat /\ place[p] \in DOMAIN Places(p)
  BY <1>2 DEF RequestOK
<1>4. Place(p) = Places(p)[place[p]] /\ Place(p) \in ToSet(Places(p)) /\ Place(p) \in AllPlaces
  BY <1>2, <1>3 DEF Place, ToSet
<1>5. after[p] + 1 \in 1..Len(Pages[Place(p)])
  BY <1>4, PageType DEF RequestOK, TypeInv
<1>. QED BY <1>1, <1>2, <1>3, <1>4, <1>5

\* What an answer adds to what p has gathered.
Gathered(p) == posts[p] \o Parsed(Source(p), Pages[Place(p)][after[p] + 1])

LEMMA GatheredMembers ==
  ASSUME TypeInv, NEW p \in Processes, RequestOK(p)
  PROVE  /\ Gathered(p) \in Seq(Children)
         /\ ToSet(posts[p]) \subseteq ToSet(Gathered(p))
         /\ Wanted(Source(p), Place(p), after[p] + 1) \subseteq ToSet(Gathered(p))
<1>. DEFINE new == Parsed(Source(p), Pages[Place(p)][after[p] + 1])
<1>1. /\ new \in Seq(Children)
      /\ Wanted(Source(p), Place(p), after[p] + 1) \subseteq ToSet(new)
  BY RequestFacts, ParsedMembers
<1>2. posts[p] \in Seq(Children)
  BY DEF TypeInv
<1>3. posts[p] \o new \in Seq(Children) /\ ToSet(posts[p] \o new) = ToSet(posts[p]) \union ToSet(new)
  <2>. HIDE DEF new
  <2>. QED BY <1>1, <1>2, MembersConcat
<1>. QED BY <1>1, <1>3 DEF Gathered

\* What comes after a place: the next one, or the end of the fetch.
Moves(p, g) ==
  /\ tries' = [tries EXCEPT ![p] = 0] /\ page' = [page EXCEPT ![p] = 1]
  /\ after' = [after EXCEPT ![p] = 0]
  /\ posts'[p] \in Seq(Children) /\ posts' = [posts EXCEPT ![p] = posts'[p]]
  /\ \A c \in ToSet(g) : Worth(c) => c \in ToSet(posts'[p])
  /\ \/ /\ place[p] = Len(Places(p)) /\ place' = [place EXCEPT ![p] = 1]
        /\ pc' = [pc EXCEPT ![p] = "store"]
     \/ /\ place[p] # Len(Places(p)) /\ place' = [place EXCEPT ![p] = place[p] + 1]
        /\ pc' = pc

LEMMA PlaceLeft ==
  ASSUME TypeInv, NEW p \in Processes, NEW g \in Seq(Children), NextPlace(p, g)
  PROVE  Moves(p, g)
<1>1. CASE place[p] = Len(Places(p))
  <2>1. posts' = [posts EXCEPT ![p] = Kept(g, {c \in ToSet(g) : Worth(c)})]
    BY <1>1 DEF NextPlace
  <2>2. posts'[p] = Kept(g, {c \in ToSet(g) : Worth(c)}) /\ posts' = [posts EXCEPT ![p] = posts'[p]]
    BY <2>1 DEF TypeInv
  <2>. QED BY <1>1, <2>2, WorthMembers DEF NextPlace, Moves, Goto
<1>2. CASE place[p] # Len(Places(p))
  <2>1. posts' = [posts EXCEPT ![p] = g]
    BY <1>2 DEF NextPlace
  <2>2. posts'[p] = g /\ posts' = [posts EXCEPT ![p] = posts'[p]]
    BY <2>1 DEF TypeInv
  <2>. QED BY <1>2, <2>2 DEF NextPlace, Moves, FirstCursor, TypeInv
<1>. QED BY <1>1, <1>2

\* An answer leads to the next page, or past the place.
Turns(p) ==
  /\ page[p] < PagesOf(Source(p), mode[p]) /\ after[p] + 1 < Len(Pages[Place(p)])
  /\ posts' = [posts EXCEPT ![p] = Gathered(p)]
  /\ page' = [page EXCEPT ![p] = page[p] + 1] /\ after' = [after EXCEPT ![p] = after[p] + 1]
  /\ tries' = [tries EXCEPT ![p] = 0]
  /\ UNCHANGED <<pc, place>>

Leaves(p) ==
  /\ ~(page[p] < PagesOf(Source(p), mode[p]) /\ after[p] + 1 < Len(Pages[Place(p)]))
  /\ Moves(p, Gathered(p))

LEMMA ServedSteps ==
  ASSUME TypeInv, NEW p \in Processes, RequestOK(p), Served(p)
  PROVE  /\ pc[p] = "ask"
         /\ served' = [served EXCEPT ![p] = served[p] \union {<<Place(p), after[p] + 1>>}]
         /\ UNCHANGED <<rows, setup, story, ticker, source, mode, gaveUp, raised>>
         /\ Turns(p) \/ Leaves(p)
<1>1. CASE page[p] < PagesOf(Source(p), mode[p]) /\ after[p] + 1 < Len(Pages[Place(p)])
  BY <1>1 DEF Served, Turns, Gathered, TypeInv
<1>2. CASE ~(page[p] < PagesOf(Source(p), mode[p]) /\ after[p] + 1 < Len(Pages[Place(p)]))
  <2>1. NextPlace(p, Gathered(p))
    BY <1>2 DEF Served, Gathered
  <2>2. Moves(p, Gathered(p))
    BY <2>1, PlaceLeft, GatheredMembers
  <2>. QED BY <1>2, <2>2 DEF Served, Leaves, TypeInv
<1>. QED BY <1>1, <1>2

LEMMA SymbolsNamed ==
  ASSUME NEW symbols \in Symbols
  PROVE  symbols \in Seq(Named)
<1>1. symbols \in Seq(ToSet(symbols)) /\ ToSet(symbols) \subseteq Named
  BY NamesAssumption DEF Named
<1>2. Len(symbols) \in Nat /\ symbols \in [1..Len(symbols) -> Named]
  BY <1>1
<1>. QED BY <1>2

LEMMA LimitsBounds ==
  ASSUME NEW s, NEW how, NEW p \in Processes
  PROVE  /\ PagesOf(s, how) \in 1..MaxPages /\ 1 \in 1..MaxPages /\ 0 \in 0..Retries
         /\ RetriesOf(p) \in {0, Retries} /\ Retries \in Nat
BY LimitsAssumption DEF PagesOf, RetriesOf

LEMMA InitTypes == Init => TypeInv /\ StageInv
<1>. SUFFICES ASSUME Init PROVE TypeInv /\ StageInv
  OBVIOUS
<1>1. /\ <<>> \in Seq(Children) /\ 1 \in 1..Len(Fetchers)
      /\ 1 \in 1..MaxPages /\ 0 \in 0..Retries
  BY FetchersType, LimitsAssumption
<1>2. TypeInv
  BY <1>1 DEF Init, TypeInv, Stages
<1>3. StageInv
  BY DEF Init, StageInv, StageOK, Requesting
<1>. QED BY <1>2, <1>3

LEMMA MovesType ==
  ASSUME TypeInv, NEW p \in Processes, NEW g, Moves(p, g)
  PROVE  /\ pc' \in [Processes -> Stages] /\ place' \in [Processes -> Nat \ {0}]
         /\ page' \in [Processes -> 1..MaxPages] /\ after' \in [Processes -> Nat]
         /\ tries' \in [Processes -> 0..Retries] /\ posts' \in [Processes -> Seq(Children)]
<1>1. 1 \in 1..MaxPages /\ 0 \in 0..Retries
  BY LimitsAssumption
<1>2. pc' \in [Processes -> Stages] /\ place' \in [Processes -> Nat \ {0}]
  <2>1. place[p] + 1 \in Nat \ {0} /\ 1 \in Nat \ {0} /\ "store" \in Stages
    BY DEF TypeInv, Stages
  <2>2. pc' = pc \/ pc' = [pc EXCEPT ![p] = "store"]
    BY DEF Moves
  <2>3. \E k \in Nat \ {0} : place' = [place EXCEPT ![p] = k]
    BY <2>1 DEF Moves
  <2>4. pc' \in [Processes -> Stages]
    BY <2>1, <2>2 DEF TypeInv
  <2>5. place' \in [Processes -> Nat \ {0}]
    BY <2>3 DEF TypeInv
  <2>. QED BY <2>4, <2>5
<1>3. /\ page' \in [Processes -> 1..MaxPages] /\ after' \in [Processes -> Nat]
      /\ tries' \in [Processes -> 0..Retries]
  BY <1>1 DEF Moves, TypeInv
<1>4. posts' \in [Processes -> Seq(Children)]
  BY DEF Moves, TypeInv
<1>. QED BY <1>2, <1>3, <1>4

\* Every action keeps the variables in their types.
LEMMA TypeStep ==
  ASSUME TypeInv, StageInv, NEW p \in Processes, Acts(p)
  PROVE  TypeInv'
<1>. USE DEF Goto, request, history, run, Stages
<1>0. /\ <<>> \in Seq(Children) /\ 1 \in 1..Len(Fetchers) /\ 1 \in Nat \ {0} /\ 0 \in Nat
      /\ 1 \in 1..MaxPages /\ 0 \in 0..Retries /\ StageOK(p) /\ {} \in SUBSET (AllPlaces \X Nat)
  BY FetchersType, LimitsAssumption DEF StageInv
<1>1. ASSUME NEW t \in Tickers, BeginPeriodic(p, t) PROVE TypeInv'
  BY <1>0, <1>1 DEF BeginPeriodic, Begin, TypeInv
<1>2. ASSUME NEW child \in Stories, NEW symbols \in Symbols, HandleNews(p, child, symbols)
      PROVE TypeInv'
  <2>1. [child |-> child, left |-> symbols] \in StoryRecords
    BY SymbolsNamed DEF StoryRecords
  <2>. QED BY <1>2, <2>1 DEF HandleNews, TypeInv
<1>3. CASE TakeSymbol(p)
  <2>1. story[p] \in StoryRecords /\ story[p].left # <<>>
    BY <1>0, <1>3 DEF TakeSymbol, StageOK
  <2>2. Tail(story[p].left) \in Seq(Named)
    BY <2>1 DEF StoryRecords
  <2>3. [story[p] EXCEPT !.left = Tail(story[p].left)] \in StoryRecords
    BY <2>1, <2>2 DEF StoryRecords
  <2>4. story' \in [Processes -> StoryRecords \union {None}]
    <3>1. story' = [story EXCEPT ![p].left = Tail(story[p].left)]
      BY <1>3, Zenon DEF TakeSymbol
    <3>. QED BY <2>3, <3>1 DEF TypeInv
  <2>5. CASE UNCHANGED <<rows, pc, run>>
    BY <1>3, <2>4, <2>5 DEF TakeSymbol, TypeInv
  <2>6. CASE \E t \in Tickers : Begin(p, t)
    BY <1>0, <1>3, <2>4, <2>6 DEF TakeSymbol, Begin, TypeInv
  <2>. QED BY <1>3, <2>5, <2>6 DEF TakeSymbol
<1>4. CASE EndRun(p) \/ Crash(p)
  <2>1. /\ pc' \in [Processes -> Stages] /\ story' \in [Processes -> StoryRecords \union {None}]
        /\ UNCHANGED setup
    BY <1>4 DEF EndRun, Crash, TypeInv
  <2>2. Forget(p)
    BY <1>4 DEF EndRun, Crash
  <2>. QED BY <1>0, <2>1, <2>2 DEF Forget, TypeInv
<1>5. CASE EndStory(p)
  BY <1>5 DEF EndStory, TypeInv
<1>6. CASE AskToken(p)
  BY <1>0, <1>6 DEF AskToken, FirstRequest, TypeInv
<1>7. CASE Served(p)
  <2>1. RequestOK(p)
    BY <1>0, <1>7 DEF Served, StageOK, Requesting
  <2>2. /\ pc[p] = "ask"
        /\ served' = [served EXCEPT ![p] = served[p] \union {<<Place(p), after[p] + 1>>}]
        /\ UNCHANGED <<rows, setup, story, ticker, source, mode, gaveUp, raised>>
        /\ Turns(p) \/ Leaves(p)
    BY <1>7, <2>1, ServedSteps
  <2>3. Place(p) \in AllPlaces /\ after[p] \in Nat /\ after[p] + 1 \in Nat
    BY <2>1, RequestFacts DEF TypeInv
  <2>4. served' \in [Processes -> SUBSET (AllPlaces \X Nat)]
    BY <2>2, <2>3 DEF TypeInv
  <2>5. CASE Turns(p)
    <3>1. page[p] + 1 \in 1..MaxPages
      <4>1. page[p] < PagesOf(Source(p), mode[p]) /\ page[p] \in 1..MaxPages
        BY <2>5 DEF Turns, TypeInv
      <4>2. PagesOf(Source(p), mode[p]) \in 1..MaxPages
        BY LimitsBounds
      <4>3. MaxPages \in Nat
        BY LimitsAssumption
      <4>. QED BY <4>1, <4>2, <4>3
    <3>. QED BY <1>0, <2>1, <2>2, <2>3, <2>4, <2>5, <3>1, GatheredMembers DEF Turns, TypeInv
  <2>6. CASE Leaves(p)
    <3>1. Moves(p, Gathered(p))
      BY <2>6 DEF Leaves
    <3>. QED BY <2>2, <2>4, <3>1, MovesType DEF TypeInv
  <2>. QED BY <2>2, <2>5, <2>6
<1>8. CASE Retry(p)
  <2>1. RequestOK(p)
    BY <1>0, <1>8 DEF Retry, StageOK, Requesting
  <2>2. tries[p] + 1 \in 0..Retries
    <3>1. tries[p] < RetriesOf(p) /\ tries[p] \in 0..Retries
      BY <1>8 DEF Retry, MayRetry, TypeInv
    <3>. QED BY <3>1, LimitsBounds
  <2>. QED BY <1>8, <2>2 DEF Retry, NextTry, TypeInv
<1>9. CASE Waited(p)
  BY <1>9 DEF Waited, TypeInv
<1>10. CASE GiveUp(p)
  <2>1. RequestOK(p)
    BY <1>0, <1>10 DEF GiveUp, StageOK, Requesting
  <2>2. Place(p) \in AllPlaces /\ posts[p] \in Seq(Children)
    BY <2>1, RequestFacts DEF TypeInv
  <2>3. Moves(p, posts[p])
    BY <1>10, <2>2, PlaceLeft DEF GiveUp
  <2>. QED BY <1>10, <2>2, <2>3, MovesType DEF GiveUp, TypeInv
<1>11. CASE Raise(p)
  <2>1. Source(p) \in ToSet(Fetchers)
    BY FetchersType DEF TypeInv, Source, ToSet
  <2>. QED BY <1>0, <1>11, <2>1 DEF Raise, FirstRequest, TypeInv
<1>12. CASE StorePost(p)
  <2>1. Tail(posts[p]) \in Seq(Children)
    BY <1>12 DEF StorePost, TypeInv
  <2>. QED BY <1>12, <2>1 DEF StorePost, TypeInv
<1>13. CASE NextSource(p)
  <2>1. source[p] # Len(Fetchers) => source[p] + 1 \in 1..Len(Fetchers)
    BY FetchersType DEF TypeInv
  <2>2. pc' \in [Processes -> Stages] /\ source' \in [Processes -> 1..Len(Fetchers)]
    <3>1. pc' = [pc EXCEPT ![p] = "done"] \/ pc' = [pc EXCEPT ![p] = "ask"]
      BY <1>13 DEF NextSource
    <3>2. source' = source \/ (source[p] # Len(Fetchers) /\ source' = [source EXCEPT ![p] = source[p] + 1])
      BY <1>13 DEF NextSource
    <3>3. pc' \in [Processes -> Stages]
      BY <3>1 DEF TypeInv
    <3>4. source' \in [Processes -> 1..Len(Fetchers)]
      BY <2>1, <3>2 DEF TypeInv
    <3>. QED BY <3>3, <3>4
  <2>. QED BY <1>0, <1>13, <2>2 DEF NextSource, FirstRequest, TypeInv
<1>. QED
  BY <1>1, <1>2, <1>3, <1>4, <1>5, <1>6, <1>7, <1>8, <1>9, <1>10, <1>11, <1>12, <1>13 DEF Acts, Step

\* The first request for a place is in bounds.
LEMMA FirstRequestOK ==
  ASSUME NEW p \in Processes, NEW i \in 1..Len(Fetchers), NEW how,
         source'[p] = i, mode'[p] = how,
         NEW k \in DOMAIN PlacesOf(Fetchers[i], how), place'[p] = k,
         page'[p] = 1, after'[p] = 0, tries'[p] = 0
  PROVE  RequestOK(p)'
<1>1. Source(p)' = Fetchers[i] /\ Places(p)' = PlacesOf(Fetchers[i], how)
      /\ Place(p)' = PlacesOf(Fetchers[i], how)[k]
  BY DEF Source, Places, Place
<1>2. PlacesOf(Fetchers[i], how)[k] \in AllPlaces
  <2>1. PlacesOf(Fetchers[i], how) \in Seq(AllPlaces)
    BY PlacesType
  <2>. QED BY <2>1
<1>3. 0 < Len(Pages[Place(p)'])
  BY <1>1, <1>2, PageType
<1>4. 1 <= PagesOf(Fetchers[i], how)
  BY LimitsBounds
<1>5. RetriesOf(p)' \in {0, Retries}
  BY DEF RetriesOf
<1>6. 0 <= RetriesOf(p)'
  BY <1>5, LimitsAssumption
<1>. QED BY <1>1, <1>3, <1>4, <1>6 DEF RequestOK

\* A request that follows another is in bounds as well.
LEMMA MovesStage ==
  ASSUME TypeInv, NEW p \in Processes, StageOK(p), RequestOK(p), pc[p] = "ask",
         NEW g, Moves(p, g), UNCHANGED <<story, ticker, source, mode>>
  PROVE  StageOK(p)'
<1>1. /\ source[p] \in 1..Len(Fetchers) /\ Places(p) \in Seq(AllPlaces)
      /\ place[p] \in 1..Len(Places(p)) /\ Len(Places(p)) \in Nat
      /\ Places(p) = PlacesOf(Fetchers[source[p]], mode[p])
  BY RequestFacts
<1>2. page'[p] = 1 /\ after'[p] = 0 /\ tries'[p] = 0
  BY DEF Moves, TypeInv
<1>3. CASE place[p] = Len(Places(p)) /\ pc' = [pc EXCEPT ![p] = "store"]
  <2>1. pc'[p] = "store"
    BY <1>3 DEF TypeInv
  <2>. QED BY <2>1 DEF StageOK, Requesting
<1>4. CASE place[p] # Len(Places(p)) /\ place' = [place EXCEPT ![p] = place[p] + 1] /\ pc' = pc
  <2>1. place'[p] = place[p] + 1 /\ pc'[p] = "ask" /\ source'[p] = source[p] /\ mode'[p] = mode[p]
    BY <1>4 DEF TypeInv
  <2>2. place[p] + 1 \in DOMAIN Places(p)
    BY <1>1, <1>4
  <2>3. RequestOK(p)'
    BY <1>1, <1>2, <2>1, <2>2, FirstRequestOK
  <2>. QED BY <2>1, <2>3 DEF StageOK, Requesting
<1>. QED BY <1>3, <1>4 DEF Moves

\* Every action leaves its process with what its next stage needs.
LEMMA StageStep ==
  ASSUME TypeInv, StageInv, NEW p \in Processes, Acts(p)
  PROVE  StageOK(p)'
<1>. USE DEF Goto, request, history, run
<1>0. StageOK(p)
  BY DEF StageInv
<1>1. ASSUME NEW t \in Tickers, BeginPeriodic(p, t) PROVE StageOK(p)'
  BY <1>0, <1>1, NamesAssumption DEF BeginPeriodic, Begin, TypeInv, StageOK, Requesting
<1>2. ASSUME NEW child \in Stories, NEW symbols \in Symbols, HandleNews(p, child, symbols)
      PROVE StageOK(p)'
  <2>1. [child |-> child, left |-> symbols] \in StoryRecords
    BY SymbolsNamed DEF StoryRecords
  <2>2. pc'[p] = "symbol" /\ story'[p] = [child |-> child, left |-> symbols]
    BY <1>2 DEF HandleNews, TypeInv
  <2>. QED BY <1>0, <1>2, <2>1, <2>2 DEF HandleNews, StageOK, Requesting
<1>3. CASE TakeSymbol(p)
  <2>1. story[p] \in StoryRecords /\ story[p].left # <<>> /\ pc[p] = "symbol"
    BY <1>0, <1>3 DEF TakeSymbol, StageOK
  <2>2. Tail(story[p].left) \in Seq(Named)
    BY <2>1 DEF StoryRecords
  <2>3. story'[p] \in StoryRecords
    <3>1. story' = [story EXCEPT ![p].left = Tail(story[p].left)]
      BY <1>3, Zenon DEF TakeSymbol
    <3>. QED BY <2>1, <2>2, <3>1 DEF StoryRecords, TypeInv
  <2>4. CASE UNCHANGED <<rows, pc, run>>
    BY <1>0, <2>1, <2>3, <2>4 DEF StageOK, Requesting
  <2>5. ASSUME NEW t \in Tickers, Begin(p, t) PROVE StageOK(p)'
    BY <1>0, <2>1, <2>5, NamesAssumption DEF Begin, TypeInv, StageOK, Requesting
  <2>6. UNCHANGED <<rows, pc, run>> \/ \E t \in Tickers : Begin(p, t)
    BY <1>3 DEF TakeSymbol
  <2>. QED BY <2>4, <2>5, <2>6
<1>4. CASE EndRun(p) \/ Crash(p)
  <2>1. /\ pc'[p] \in {"idle", "symbol"}
        /\ pc'[p] = "symbol" => story'[p] = story[p] /\ story[p] # None
    BY <1>4 DEF EndRun, Crash, TypeInv
  <2>2. Forget(p)
    BY <1>4 DEF EndRun, Crash
  <2>3. /\ source'[p] = 1 /\ mode'[p] = "none" /\ posts'[p] = <<>>
        /\ served'[p] = {} /\ gaveUp'[p] = {} /\ raised'[p] = {}
    BY <2>2 DEF Forget, TypeInv
  <2>4. pc'[p] = "symbol" => story'[p] \in StoryRecords
    BY <2>1 DEF TypeInv
  <2>. QED BY <2>1, <2>3, <2>4 DEF StageOK, Requesting
<1>5. CASE EndStory(p)
  BY <1>0, <1>5 DEF EndStory, TypeInv, StageOK, Requesting
<1>6. CASE AskToken(p)
  <2>1. /\ place'[p] = 1 /\ page'[p] = 1 /\ after'[p] = 0 /\ tries'[p] = 0
        /\ source'[p] = 1 /\ ticker'[p] = ticker[p] /\ ticker[p] # None
    BY <1>0, <1>6 DEF AskToken, FirstRequest, TypeInv, StageOK
  <2>2. PICK got \in BOOLEAN :
          LET how == IF got THEN "oauth" ELSE IF "agent" \in setup THEN "public" ELSE "none"
          IN mode' = [mode EXCEPT ![p] = how]
             /\ pc' = [pc EXCEPT ![p] = IF how = "none" THEN "store" ELSE "ask"]
    BY <1>6 DEF AskToken
  <2>3. \/ mode'[p] \in {"oauth", "public"} /\ pc'[p] = "ask"
        \/ pc'[p] = "store"
    BY <2>2 DEF TypeInv
  <2>4. CASE pc'[p] = "store"
    BY <2>1, <2>4 DEF StageOK, Requesting
  <2>5. CASE mode'[p] \in {"oauth", "public"} /\ pc'[p] = "ask"
    <3>1. 1 \in 1..Len(Fetchers)
      BY FetchersType
    <3>2. 1 \in DOMAIN PlacesOf(Fetchers[1], mode'[p])
      BY <2>5, <3>1, PlacesType
    <3>3. RequestOK(p)'
      BY <2>1, <3>1, <3>2, FirstRequestOK
    <3>. QED BY <2>1, <2>5, <3>3 DEF StageOK, Requesting
  <2>. QED BY <2>3, <2>4, <2>5
<1>7. CASE Served(p)
  <2>1. RequestOK(p)
    BY <1>0, <1>7 DEF Served, StageOK, Requesting
  <2>2. /\ pc[p] = "ask"
        /\ UNCHANGED <<rows, setup, story, ticker, source, mode, gaveUp, raised>>
        /\ Turns(p) \/ Leaves(p)
    BY <1>7, <2>1, ServedSteps
  <2>3. CASE Turns(p)
    <3>1. /\ page'[p] = page[p] + 1 /\ after'[p] = after[p] + 1 /\ tries'[p] = 0
          /\ pc'[p] = "ask" /\ place'[p] = place[p]
          /\ page[p] < PagesOf(Source(p), mode[p]) /\ after[p] + 1 < Len(Pages[Place(p)])
      BY <2>2, <2>3 DEF Turns, TypeInv
    <3>2. /\ Source(p)' = Source(p) /\ Places(p)' = Places(p) /\ Place(p)' = Place(p)
          /\ RetriesOf(p)' = RetriesOf(p)
      BY <2>2, <3>1 DEF Source, Places, Place, RetriesOf
    <3>3. 0 <= RetriesOf(p)
      BY LimitsBounds
    <3>4. page[p] \in Nat /\ after[p] \in Nat /\ PagesOf(Source(p), mode[p]) \in Nat
      <4>1. PagesOf(Source(p), mode[p]) \in 1..MaxPages
        BY LimitsBounds
      <4>. QED BY <4>1, LimitsAssumption DEF TypeInv
    <3>5. RequestOK(p)'
      BY <2>1, <2>2, <3>1, <3>2, <3>3, <3>4 DEF RequestOK
    <3>. QED BY <1>0, <2>2, <3>1, <3>5 DEF StageOK, Requesting
  <2>4. CASE Leaves(p)
    BY <1>0, <2>1, <2>2, <2>4, MovesStage DEF Leaves
  <2>. QED BY <2>2, <2>3, <2>4
<1>8. CASE Retry(p)
  <2>1. /\ RequestOK(p) /\ tries[p] < RetriesOf(p) /\ tries'[p] = tries[p] + 1
        /\ pc'[p] \in {"told", "wait"}
    BY <1>0, <1>8 DEF Retry, MayRetry, NextTry, StageOK, Requesting, TypeInv
  <2>2. tries[p] \in Nat /\ RetriesOf(p) \in Nat
    <3>1. RetriesOf(p) \in {0, Retries} /\ Retries \in Nat
      BY LimitsBounds
    <3>. QED BY <3>1 DEF TypeInv
  <2>3. /\ UNCHANGED <<place, page, after, source, mode, ticker>>
        /\ RetriesOf(p)' = RetriesOf(p)
    BY <1>8 DEF Retry, RetriesOf, Source
  <2>4. RequestOK(p)'
    BY <2>1, <2>2, <2>3 DEF RequestOK, Places, Place, Source
  <2>. QED BY <1>0, <1>8, <2>1, <2>4 DEF Retry, StageOK, Requesting
<1>9. CASE Waited(p)
  <2>1. pc'[p] = "ask" /\ pc[p] \in {"told", "wait"} /\ RequestOK(p)
    BY <1>0, <1>9 DEF Waited, TypeInv, StageOK, Requesting
  <2>2. RequestOK(p)'
    BY <1>9, <2>1 DEF Waited, RequestOK, Places, Place, Source, RetriesOf
  <2>. QED BY <1>0, <1>9, <2>1, <2>2 DEF Waited, StageOK, Requesting
<1>10. CASE GiveUp(p)
  <2>1. RequestOK(p) /\ pc[p] = "ask" /\ UNCHANGED <<story, ticker, source, mode>>
    BY <1>0, <1>10 DEF GiveUp, StageOK, Requesting
  <2>2. posts[p] \in Seq(Children)
    BY DEF TypeInv
  <2>3. Moves(p, posts[p])
    BY <1>10, <2>2, PlaceLeft DEF GiveUp
  <2>. QED BY <1>0, <2>1, <2>3, MovesStage
<1>11. CASE Raise(p)
  BY <1>0, <1>11 DEF Raise, TypeInv, StageOK, Requesting
<1>12. CASE StorePost(p)
  BY <1>0, <1>12 DEF StorePost, StageOK, Requesting
<1>13. CASE NextSource(p)
  <2>1. /\ place'[p] = 1 /\ page'[p] = 1 /\ after'[p] = 0 /\ tries'[p] = 0
        /\ ticker'[p] = ticker[p] /\ ticker[p] # None /\ mode'[p] = mode[p] /\ posts'[p] = <<>>
    BY <1>0, <1>13 DEF NextSource, FirstRequest, TypeInv, StageOK
  <2>2. CASE source[p] = Len(Fetchers)
    <3>1. pc'[p] = "done" /\ source'[p] = Len(Fetchers)
      BY <1>13, <2>2 DEF NextSource, TypeInv
    <3>. QED BY <2>1, <3>1 DEF StageOK, Requesting
  <2>3. CASE source[p] # Len(Fetchers)
    <3>1. pc'[p] = "ask" /\ source'[p] = source[p] + 1
      BY <1>13, <2>3 DEF NextSource, TypeInv
    <3>2. source[p] + 1 \in 1..Len(Fetchers) /\ source[p] + 1 > 1
      BY <2>3, FetchersType DEF TypeInv
    <3>3. 1 \in DOMAIN PlacesOf(Fetchers[source[p] + 1], mode[p])
      BY <3>2, PlacesType
    <3>4. RequestOK(p)'
      BY <2>1, <3>1, <3>2, <3>3, FirstRequestOK
    <3>. QED BY <2>1, <3>1, <3>4 DEF StageOK, Requesting
  <2>. QED BY <2>2, <2>3
<1>. QED
  BY <1>1, <1>2, <1>3, <1>4, <1>5, <1>6, <1>7, <1>8, <1>9, <1>10, <1>11, <1>12, <1>13 DEF Acts, Step

LEMMA TypesStep == TypeInv /\ StageInv /\ [Next]_vars => TypeInv' /\ StageInv'
<1>. SUFFICES ASSUME TypeInv, StageInv, [Next]_vars PROVE TypeInv' /\ StageInv'
  OBVIOUS
<1>1. ASSUME NEW p \in Processes, Acts(p) PROVE TypeInv' /\ StageInv'
  <2>1. TypeInv'
    BY <1>1, TypeStep
  <2>2. ASSUME NEW q \in Processes PROVE StageOK(q)'
    <3>1. CASE q = p
      BY <1>1, <3>1, StageStep
    <3>2. CASE q # p
      BY <1>1, <3>2, OthersLeft, StageKept DEF StageInv
    <3>. QED BY <3>1, <3>2
  <2>. QED BY <2>1, <2>2 DEF StageInv
<1>2. CASE UNCHANGED vars
  <2>1. TypeInv'
    BY <1>2 DEF vars, run, request, history, TypeInv
  <2>2. \A q \in Processes : Local(q)' = Local(q)
    BY <1>2 DEF vars, run, request, history, Local
  <2>3. StageInv'
    BY <2>2, StageKept DEF StageInv
  <2>. QED BY <2>1, <2>3
<1>. QED BY <1>1, <1>2 DEF Next, Acts

LEMMA TypesHold == TypeInv /\ StageInv => TypeOK
<1>. SUFFICES ASSUME TypeInv, StageInv PROVE TypeOK
  OBVIOUS
<1>1. ASSUME NEW p \in Processes
      PROVE  /\ story[p] = None \/ story[p].child \in Stories
             /\ pc[p] \in {"token", "ask", "told", "wait", "store", "done"} => ticker[p] # None
             /\ pc[p] \in {"ask", "told", "wait"} => place[p] \in DOMAIN Places(p)
             /\ page[p] \in 1..MaxPages /\ tries[p] \in 0..Retries
             /\ pc[p] \in {"ask", "told", "wait"} => tries[p] <= RetriesOf(p) /\ page[p] <= PagesOf(Source(p), mode[p])
             /\ ToSet(posts[p]) \subseteq Children
  <2>1. story[p] = None \/ story[p].child \in Stories
    BY DEF TypeInv, StoryRecords
  <2>2. ToSet(posts[p]) \subseteq Children
    BY MembersType DEF TypeInv
  <2>. QED BY <2>1, <2>2 DEF TypeInv, StageInv, StageOK, Requesting, RequestOK
<1>. QED BY <1>1 DEF TypeInv, TypeOK, Stages

\* Every variable keeps its type: a request is for a place and a page of the
\* source it is sent to, and no page is asked for more often than the retries allow.
THEOREM TypeCorrect == Spec => []TypeOK
<1>1. Init => TypeInv /\ StageInv
  BY InitTypes
<1>2. TypeInv /\ StageInv /\ [Next]_vars => TypeInv' /\ StageInv'
  BY TypesStep
<1>3. TypeInv /\ StageInv => TypeOK
  BY TypesHold
<1>. QED BY <1>1, <1>2, <1>3, PTL DEF Spec

-----------------------------------------------------------------------------
(* Nothing is skipped.                                                      *)

\* The last page a fetcher asks for.
LastPage(s, at, how) ==
  IF Len(Pages[at]) < PagesOf(s, how) THEN Len(Pages[at]) ELSE PagesOf(s, how)

\* p has read a place from its first page to the last, or to one it gave up.
Full(p, s, at) ==
  \E n \in 0..Len(Pages[at]) :
    PagesRead(p, at) = 1..n /\ (n = LastPage(s, at, mode[p]) \/ at \in gaveUp[p])

PlacesFor(p, j) == PlacesOf(Fetchers[j], mode[p])

Fetched(p, j) ==
  Fetchers[j] \notin raised[p] => \A at \in ToSet(PlacesFor(p, j)) : Full(p, Fetchers[j], at)

\* How far the fetcher at work has come.
FetchingOK(p) ==
  /\ \A k \in 1..place[p] - 1 : Full(p, Source(p), Places(p)[k])
  /\ PagesRead(p, Place(p)) = 1..after[p]
  /\ \A k \in place[p] + 1..Len(Places(p)) : PagesRead(p, Places(p)[k]) = {}

\* The fetchers before are through, those after it have not begun.
ReadOK(p) ==
  pc[p] \in {"ask", "told", "wait", "store", "done"} =>
    /\ \A j \in 1..source[p] - 1 : Fetched(p, j)
    /\ pc[p] \in {"store", "done"} => Fetched(p, source[p])
    /\ \A j \in source[p] + 1..Len(Fetchers) : \A at \in ToSet(PlacesFor(p, j)) : PagesRead(p, at) = {}
    /\ Requesting(p) => FetchingOK(p)

\* A post is stored, or among those the fetcher at work has gathered.
Has(p, j, c) ==
  IsStored(Row(ticker[p], Fetchers[j], c)) \/ (j = source[p] /\ c \in ToSet(posts[p]))

\* What was read of a source whose fetcher did not raise, and is wanted, is not lost.
Holds(p, j) ==
  Fetchers[j] \notin raised[p] =>
    \A at \in ToSet(PlacesFor(p, j)) : \A i \in PagesRead(p, at) :
      \A c \in Wanted(Fetchers[j], at, i) : Has(p, j, c)

HeldOK(p) == pc[p] \in {"ask", "told", "wait", "store", "done"} => \A j \in 1..Len(Fetchers) : Holds(p, j)

SkipInv == \A p \in Processes : ReadOK(p) /\ HeldOK(p)

LEMMA ReadPages ==
  ASSUME TypeInv, NEW p \in Processes, NEW at
  PROVE  PagesRead(p, at) = {n \in Nat : <<at, n>> \in served[p]}
<1>1. served[p] \subseteq AllPlaces \X Nat
  BY DEF TypeInv
<1>2. ASSUME NEW n \in PagesRead(p, at) PROVE n \in Nat /\ <<at, n>> \in served[p]
  <2>1. PICK y \in served[p] : y[1] = at /\ n = y[2]
    BY <1>2 DEF PagesRead
  <2>. QED BY <1>1, <2>1
<1>3. ASSUME NEW n \in Nat, <<at, n>> \in served[p] PROVE n \in PagesRead(p, at)
  BY <1>3 DEF PagesRead
<1>. QED BY <1>2, <1>3

LEMMA NothingRead ==
  ASSUME NEW p \in Processes, NEW at, served[p] = {}
  PROVE  PagesRead(p, at) = {}
BY DEF PagesRead

LEMMA PageAdded ==
  ASSUME TypeInv, NEW p \in Processes, NEW a \in AllPlaces, NEW m \in Nat,
         served' = [served EXCEPT ![p] = served[p] \union {<<a, m>>}]
  PROVE  /\ PagesRead(p, a)' = PagesRead(p, a) \union {m}
         /\ \A at : at # a => PagesRead(p, at)' = PagesRead(p, at)
<1>1. served'[p] = served[p] \union {<<a, m>>} /\ served[p] \subseteq AllPlaces \X Nat
  BY DEF TypeInv
<1>2. PagesRead(p, a)' = PagesRead(p, a) \union {m}
  <2>1. <<a, m>>[1] = a /\ <<a, m>>[2] = m
    OBVIOUS
  <2>. QED BY <1>1, <2>1 DEF PagesRead
<1>3. ASSUME NEW at, at # a PROVE PagesRead(p, at)' = PagesRead(p, at)
  <2>1. {y \in served'[p] : y[1] = at} = {y \in served[p] : y[1] = at}
    BY <1>1, <1>3
  <2>. QED BY <2>1 DEF PagesRead
<1>. QED BY <1>2, <1>3

LEMMA StoredForever ==
  ASSUME rows \subseteq rows', NEW row, IsStored(row)
  PROVE  IsStored(row)'
BY DEF IsStored

LEMMA FullKept ==
  ASSUME NEW p \in Processes, NEW s, NEW at, Full(p, s, at),
         PagesRead(p, at)' = PagesRead(p, at), mode'[p] = mode[p], gaveUp[p] \subseteq gaveUp'[p]
  PROVE  Full(p, s, at)'
BY DEF Full, LastPage

\* What p has read stays complete as long as its fetcher stays where it is.
LEMMA ReadSame ==
  ASSUME NEW p \in Processes, ReadOK(p), pc'[p] = pc[p] \/ (Requesting(p) /\ Requesting(p)'),
         source'[p] = source[p], mode'[p] = mode[p], place'[p] = place[p], after'[p] = after[p],
         served'[p] = served[p], gaveUp'[p] = gaveUp[p], raised'[p] = raised[p]
  PROVE  ReadOK(p)'
<1>1. /\ \A at : PagesRead(p, at)' = PagesRead(p, at)
      /\ \A j : PlacesFor(p, j)' = PlacesFor(p, j)
      /\ Places(p)' = Places(p) /\ Place(p)' = Place(p) /\ Source(p)' = Source(p)
  BY DEF PagesRead, PlacesFor, Places, Place, Source
<1>2. \A s, at : Full(p, s, at)' <=> Full(p, s, at)
  BY <1>1 DEF Full, LastPage
<1>3. \A j : Fetched(p, j)' <=> Fetched(p, j)
  BY <1>1, <1>2 DEF Fetched
<1>4. FetchingOK(p) => FetchingOK(p)'
  <2>1. ASSUME NEW k, Full(p, Source(p), Places(p)[k]) PROVE Full(p, Source(p), Places(p)[k])'
    BY <1>1, <2>1 DEF Full, LastPage
  <2>. QED BY <1>1, <2>1 DEF FetchingOK
<1>5. Requesting(p)' <=> Requesting(p)
  BY DEF Requesting
<1>. QED BY <1>1, <1>3, <1>4, <1>5 DEF ReadOK, Requesting

\* A process whose state stays the same keeps what it has read and holds.
LEMMA SkipKept ==
  ASSUME NEW q \in Processes, Local(q)' = Local(q), rows \subseteq rows', ReadOK(q), HeldOK(q)
  PROVE  ReadOK(q)' /\ HeldOK(q)'
<1>1. /\ pc'[q] = pc[q] /\ ticker'[q] = ticker[q] /\ source'[q] = source[q] /\ mode'[q] = mode[q]
      /\ place'[q] = place[q] /\ after'[q] = after[q] /\ posts'[q] = posts[q]
      /\ served'[q] = served[q] /\ gaveUp'[q] = gaveUp[q] /\ raised'[q] = raised[q]
  BY DEF Local
<1>2. /\ \A at : PagesRead(q, at)' = PagesRead(q, at)
      /\ \A j : PlacesFor(q, j)' = PlacesFor(q, j)
      /\ Places(q)' = Places(q) /\ Place(q)' = Place(q) /\ Source(q)' = Source(q)
  BY <1>1 DEF PagesRead, PlacesFor, Places, Place, Source
<1>4. ReadOK(q)'
  BY <1>1, ReadSame
<1>5. \A j, c : Has(q, j, c) => Has(q, j, c)'
  BY <1>1, StoredForever DEF Has, Row
<1>6. HeldOK(q)'
  BY <1>1, <1>2, <1>5 DEF HeldOK, Holds
<1>. QED BY <1>4, <1>6

\* What an answer or a failure does to the process that asked.
Advances(p) ==
  /\ pc[p] = "ask" /\ RequestOK(p)
  /\ ticker'[p] = ticker[p] /\ source'[p] = source[p] /\ mode'[p] = mode[p] /\ raised'[p] = raised[p]
  /\ gaveUp[p] \subseteq gaveUp'[p] /\ rows \subseteq rows'
  /\ \A at : at # Place(p) => PagesRead(p, at)' = PagesRead(p, at)

LEMMA AdvanceFrame ==
  ASSUME TypeInv, NEW p \in Processes, Advances(p)
  PROVE  /\ Source(p)' = Source(p) /\ Places(p)' = Places(p)
         /\ \A j : PlacesFor(p, j)' = PlacesFor(p, j)
         /\ Places(p) = PlacesFor(p, source[p])
         /\ \A j \in 1..Len(Fetchers) : j # source[p] =>
              \A at \in ToSet(PlacesFor(p, j)) : at # Place(p) /\ PagesRead(p, at)' = PagesRead(p, at)
         /\ \A k \in DOMAIN Places(p) : k # place[p] =>
              Places(p)[k] # Place(p) /\ PagesRead(p, Places(p)[k])' = PagesRead(p, Places(p)[k])
<1>1. /\ Source(p)' = Source(p) /\ Places(p)' = Places(p)
      /\ \A j : PlacesFor(p, j)' = PlacesFor(p, j)
      /\ Places(p) = PlacesFor(p, source[p])
  BY DEF Advances, Source, Places, PlacesFor
<1>2. /\ source[p] \in 1..Len(Fetchers) /\ Place(p) \in ToSet(PlacesFor(p, source[p]))
      /\ place[p] \in DOMAIN Places(p) /\ Place(p) = Places(p)[place[p]]
  BY <1>1, RequestFacts DEF Advances
<1>3. ASSUME NEW j \in 1..Len(Fetchers), j # source[p], NEW at \in ToSet(PlacesFor(p, j))
      PROVE  at # Place(p)
  BY <1>2, <1>3, PlacesApart DEF PlacesFor
<1>4. ASSUME NEW k \in DOMAIN Places(p), k # place[p] PROVE Places(p)[k] # Place(p)
  <2>1. \A m, n \in DOMAIN PlacesOf(Fetchers[source[p]], mode[p]) :
          PlacesOf(Fetchers[source[p]], mode[p])[m] = PlacesOf(Fetchers[source[p]], mode[p])[n] => m = n
    BY <1>2, PlacesType
  <2>2. \A m, n \in DOMAIN Places(p) : Places(p)[m] = Places(p)[n] => m = n
    BY <1>1, <2>1 DEF PlacesFor
  <2>. QED BY <1>2, <1>4, <2>2
<1>. QED BY <1>1, <1>3, <1>4 DEF Advances

\* What p has read of the other fetchers' places is as it was.
LEMMA OthersRead ==
  ASSUME TypeInv, NEW p \in Processes, ReadOK(p), Advances(p)
  PROVE  /\ FetchingOK(p)
         /\ \A j \in 1..source[p] - 1 : Fetched(p, j)'
         /\ \A j \in source[p] + 1..Len(Fetchers) :
              \A at \in ToSet(PlacesFor(p, j)) : PagesRead(p, at)' = {}
<1>1. /\ FetchingOK(p)
      /\ \A j \in 1..source[p] - 1 : Fetched(p, j)
      /\ \A j \in source[p] + 1..Len(Fetchers) : \A at \in ToSet(PlacesFor(p, j)) : PagesRead(p, at) = {}
  BY DEF ReadOK, Advances, Requesting
<1>2. source[p] \in 1..Len(Fetchers) /\ Len(Fetchers) \in Nat
  BY RequestFacts, FetchersType DEF Advances
<1>3. \A j \in 1..source[p] - 1 : Fetched(p, j)'
  <2>. SUFFICES ASSUME NEW j \in 1..source[p] - 1, Fetchers[j] \notin raised[p],
                       NEW at \in ToSet(PlacesFor(p, j))
                PROVE  Full(p, Fetchers[j], at)'
    BY AdvanceFrame DEF Fetched, Advances
  <2>1. j \in 1..Len(Fetchers) /\ j # source[p]
    BY <1>2
  <2>2. Full(p, Fetchers[j], at)
    BY <1>1 DEF Fetched
  <2>3. PagesRead(p, at)' = PagesRead(p, at)
    BY <2>1, AdvanceFrame
  <2>. QED BY <2>2, <2>3, FullKept DEF Advances
<1>4. \A j \in source[p] + 1..Len(Fetchers) : \A at \in ToSet(PlacesFor(p, j)) : PagesRead(p, at)' = {}
  <2>. SUFFICES ASSUME NEW j \in source[p] + 1..Len(Fetchers), NEW at \in ToSet(PlacesFor(p, j))
                PROVE  PagesRead(p, at)' = {}
    OBVIOUS
  <2>1. j \in 1..Len(Fetchers) /\ j # source[p]
    BY <1>2
  <2>2. PagesRead(p, at)' = PagesRead(p, at)
    BY <2>1, AdvanceFrame
  <2>. QED BY <1>1, <2>2
<1>. QED BY <1>1, <1>3, <1>4

\* A place that is full is left for the next, or for the store.
LEMMA MovesRead ==
  ASSUME TypeInv, NEW p \in Processes, ReadOK(p), Advances(p), NEW g, Moves(p, g),
         NEW s, s = Source(p), NEW here, here = Place(p), Full(p, s, here)'
  PROVE  ReadOK(p)'
<1>1. FetchingOK(p)
  BY OthersRead
<1>2. /\ source[p] \in 1..Len(Fetchers) /\ Len(Fetchers) \in Nat
      /\ place[p] \in 1..Len(Places(p)) /\ Len(Places(p)) \in Nat
      /\ DOMAIN Places(p) = 1..Len(Places(p)) /\ Place(p) = Places(p)[place[p]]
  BY RequestFacts, FetchersType DEF Advances
<1>5. PICK list : list = Places(p)
  OBVIOUS
<1>6. s = Fetchers[source[p]] /\ list = PlacesFor(p, source[p])
  BY <1>2, <1>5, AdvanceFrame DEF Source
<1>7. \A k \in 1..place[p] : Full(p, s, list[k])'
  <2>. SUFFICES ASSUME NEW k \in 1..place[p] PROVE Full(p, s, list[k])'
    OBVIOUS
  <2>1. CASE k = place[p]
    <3>1. list[k] = here
      BY <1>2, <1>5, <2>1
    <3>. QED BY <3>1
  <2>2. CASE k # place[p]
    <3>1. k \in 1..place[p] - 1 /\ k \in DOMAIN Places(p)
      BY <1>2, <2>2
    <3>2. Full(p, s, list[k])
      BY <1>1, <1>5, <3>1 DEF FetchingOK
    <3>3. PagesRead(p, list[k])' = PagesRead(p, list[k])
      BY <1>5, <2>2, <3>1, AdvanceFrame
    <3>. QED BY <3>2, <3>3, FullKept DEF Advances
  <2>. QED BY <2>1, <2>2
<1>8. /\ \A j \in 1..source'[p] - 1 : Fetched(p, j)'
      /\ \A j \in source'[p] + 1..Len(Fetchers) : \A at \in ToSet(PlacesFor(p, j)') : PagesRead(p, at)' = {}
  <2>1. source'[p] = source[p] /\ \A j : PlacesFor(p, j)' = PlacesFor(p, j)
    BY AdvanceFrame DEF Advances
  <2>. QED BY <2>1, OthersRead
<1>9. CASE place[p] = Len(Places(p)) /\ pc' = [pc EXCEPT ![p] = "store"]
  <2>1. pc'[p] = "store"
    BY <1>9 DEF TypeInv
  <2>2. Fetched(p, source[p])'
    <3>. SUFFICES ASSUME NEW at \in ToSet(list) PROVE Full(p, s, at)'
      BY <1>6, AdvanceFrame DEF Fetched, Advances
    <3>1. PICK k \in 1..place[p] : at = list[k]
      BY <1>2, <1>5, <1>9 DEF ToSet
    <3>. QED BY <1>7, <3>1
  <2>. QED BY <1>8, <2>1, <2>2 DEF ReadOK, Requesting
<1>10. CASE place[p] # Len(Places(p)) /\ place' = [place EXCEPT ![p] = place[p] + 1] /\ pc' = pc
  <2>1. pc'[p] = "ask" /\ place'[p] = place[p] + 1 /\ after'[p] = 0
    BY <1>10 DEF Advances, Moves, TypeInv
  <2>2. place[p] + 1 \in DOMAIN Places(p) /\ place[p] + 1 # place[p]
    BY <1>2, <1>10
  <2>3. Places(p)' = list /\ Source(p)' = s /\ Place(p)' = list[place[p] + 1]
    BY <1>5, <2>1, AdvanceFrame DEF Place
  <2>4. \A k \in place[p] + 1..Len(list) : PagesRead(p, list[k])' = {}
    <3>. SUFFICES ASSUME NEW k \in place[p] + 1..Len(list) PROVE PagesRead(p, list[k])' = {}
      OBVIOUS
    <3>1. k \in DOMAIN Places(p) /\ k # place[p]
      BY <1>2, <1>5
    <3>2. PagesRead(p, list[k])' = PagesRead(p, list[k])
      BY <1>5, <3>1, AdvanceFrame
    <3>. QED BY <1>1, <1>5, <3>2 DEF FetchingOK
  <2>5. PICK next \in Nat : /\ next = place[p] + 1 /\ next = place'[p] /\ next \in 1..Len(list)
                            /\ Len(list) \in Nat
    BY <1>2, <1>5, <2>1, <2>2
  <2>7. PagesRead(p, list[next])' = {} /\ Place(p)' = list[next]
    <3>1. next \in place[p] + 1..Len(list)
      BY <1>2, <2>5
    <3>2. PagesRead(p, list[next])' = {}
      BY <2>4, <3>1
    <3>3. Place(p)' = list[next]
      BY <2>3, <2>5
    <3>. QED BY <3>2, <3>3
  <2>6. FetchingOK(p)'
    <3>1. \A k \in 1..place'[p] - 1 : Full(p, s, list[k])'
      BY <1>2, <1>7, <2>1
    <3>2. \A k \in place'[p] + 1..Len(list) : PagesRead(p, list[k])' = {}
      <4>. SUFFICES ASSUME NEW k \in place'[p] + 1..Len(list) PROVE PagesRead(p, list[k])' = {}
        OBVIOUS
      <4>1. place[p] \in Nat /\ place'[p] = place[p] + 1 /\ Len(list) \in Nat
        BY <1>2, <2>5
      <4>2. k \in place[p] + 1..Len(list)
        BY <4>1
      <4>. QED BY <2>4, <4>2
    <3>3. PagesRead(p, Place(p))' = 1..after'[p]
      <4>1. 1..0 = {}
        OBVIOUS
      <4>. QED BY <2>1, <2>7, <4>1 DEF PagesRead
    <3>4. \A k \in 1..place'[p] - 1 : Full(p, Source(p), Places(p)[k])'
      BY <2>3, <3>1 DEF Full, LastPage
    <3>5. \A k \in place'[p] + 1..Len(Places(p)') : PagesRead(p, Places(p)[k])' = {}
      BY <2>3, <3>2 DEF PagesRead
    <3>. QED BY <3>3, <3>4, <3>5 DEF FetchingOK
  <2>. QED BY <1>8, <2>1, <2>6 DEF ReadOK, Requesting
<1>. QED BY <1>9, <1>10 DEF Moves

\* A page that is not the last of its place is followed by the next.
LEMMA TurnsRead ==
  ASSUME TypeInv, NEW p \in Processes, ReadOK(p), Advances(p), pc'[p] = "ask", place'[p] = place[p],
         NEW here, here = Place(p), PagesRead(p, here)' = 1..after'[p]
  PROVE  ReadOK(p)'
<1>1. FetchingOK(p)
  BY OthersRead
<1>2. /\ place[p] \in 1..Len(Places(p)) /\ Len(Places(p)) \in Nat
      /\ DOMAIN Places(p) = 1..Len(Places(p)) /\ Place(p) = Places(p)[place[p]]
  BY RequestFacts DEF Advances
<1>3. PICK list : list = Places(p)
  OBVIOUS
<1>4. PICK s : s = Source(p)
  OBVIOUS
<1>5. Places(p)' = list /\ Source(p)' = s /\ Place(p)' = here
  BY <1>3, <1>4, AdvanceFrame DEF Place
<1>6. \A k \in 1..place[p] - 1 : Full(p, s, list[k])'
  <2>. SUFFICES ASSUME NEW k \in 1..place[p] - 1 PROVE Full(p, s, list[k])'
    OBVIOUS
  <2>1. k \in DOMAIN Places(p) /\ k # place[p]
    BY <1>2
  <2>2. Full(p, s, list[k])
    BY <1>1, <1>3, <1>4 DEF FetchingOK
  <2>3. PagesRead(p, list[k])' = PagesRead(p, list[k])
    BY <1>3, <2>1, AdvanceFrame
  <2>. QED BY <2>2, <2>3, FullKept DEF Advances
<1>7. \A k \in place[p] + 1..Len(list) : PagesRead(p, list[k])' = {}
  <2>. SUFFICES ASSUME NEW k \in place[p] + 1..Len(list) PROVE PagesRead(p, list[k])' = {}
    OBVIOUS
  <2>1. k \in DOMAIN Places(p) /\ k # place[p]
    BY <1>2, <1>3
  <2>2. PagesRead(p, list[k])' = PagesRead(p, list[k])
    BY <1>3, <2>1, AdvanceFrame
  <2>. QED BY <1>1, <1>3, <2>2 DEF FetchingOK
<1>8. FetchingOK(p)'
  <2>1. \A k \in 1..place'[p] - 1 : Full(p, Source(p), Places(p)[k])'
    BY <1>5, <1>6 DEF Full, LastPage
  <2>2. \A k \in place'[p] + 1..Len(Places(p)') : PagesRead(p, Places(p)[k])' = {}
    BY <1>5, <1>7 DEF PagesRead
  <2>3. PagesRead(p, Place(p))' = 1..after'[p]
    BY <1>5 DEF PagesRead
  <2>. QED BY <2>1, <2>2, <2>3 DEF FetchingOK
<1>9. /\ \A j \in 1..source'[p] - 1 : Fetched(p, j)'
      /\ \A j \in source'[p] + 1..Len(Fetchers) : \A at \in ToSet(PlacesFor(p, j)') : PagesRead(p, at)' = {}
  <2>1. source'[p] = source[p] /\ \A j : PlacesFor(p, j)' = PlacesFor(p, j)
    BY AdvanceFrame DEF Advances
  <2>. QED BY <2>1, OthersRead
<1>. QED BY <1>8, <1>9 DEF ReadOK, Requesting

\* What is wanted of the pages a step reads is gathered, and what was gathered stays.
LEMMA HeldMoves ==
  ASSUME TypeInv, NEW p \in Processes, HeldOK(p), Advances(p),
         \A c \in ToSet(posts[p]) : Worth(c) => c \in ToSet(posts'[p]),
         NEW s, s = Source(p), NEW here, here = Place(p),
         \A i \in PagesRead(p, here)' :
           i \in PagesRead(p, here) \/ Wanted(s, here, i) \subseteq ToSet(posts'[p])
  PROVE  HeldOK(p)'
<1>1. source[p] \in 1..Len(Fetchers) /\ s = Fetchers[source[p]]
  BY RequestFacts DEF Advances
<1>2. ASSUME NEW j \in 1..Len(Fetchers), Fetchers[j] \notin raised[p],
             NEW at \in ToSet(PlacesFor(p, j)), NEW i \in PagesRead(p, at)',
             NEW c \in Wanted(Fetchers[j], at, i)
      PROVE  Has(p, j, c)'
  <2>1. /\ Has(p, j, c)' <=> IsStored(Row(ticker[p], Fetchers[j], c))' \/ (j = source[p] /\ c \in ToSet(posts'[p]))
        /\ rows \subseteq rows'
    BY DEF Has, Advances, IsStored, Row
  <2>2. Worth(c)
    BY <1>2 DEF Wanted
  <2>3. CASE i \in PagesRead(p, at)
    <3>1. Has(p, j, c)
      BY <1>2, <2>3 DEF HeldOK, Holds, Advances
    <3>2. CASE IsStored(Row(ticker[p], Fetchers[j], c))
      <4>1. PICK row : row = Row(ticker[p], Fetchers[j], c)
        OBVIOUS
      <4>2. IsStored(row)'
        BY <2>1, <3>2, <4>1, StoredForever
      <4>3. IsStored(Row(ticker[p], Fetchers[j], c))'
        BY <4>1, <4>2 DEF Advances, IsStored, Row
      <4>. QED BY <4>3 DEF Has
    <3>3. CASE j = source[p] /\ c \in ToSet(posts[p])
      BY <2>1, <2>2, <3>3
    <3>. QED BY <3>1, <3>2, <3>3 DEF Has
  <2>4. CASE i \notin PagesRead(p, at)
    <3>1. at = here
      BY <1>2, <2>4 DEF Advances
    <3>2. j = source[p]
      BY <1>2, <3>1, AdvanceFrame
    <3>3. c \in ToSet(posts'[p])
      BY <1>1, <1>2, <2>4, <3>1, <3>2
    <3>. QED BY <2>1, <3>2, <3>3
  <2>. QED BY <2>3, <2>4
<1>3. raised'[p] = raised[p] /\ \A j : PlacesFor(p, j)' = PlacesFor(p, j)
  BY AdvanceFrame DEF Advances
<1>4. \A j \in 1..Len(Fetchers) : Holds(p, j)'
  BY <1>2, <1>3 DEF Holds
<1>. QED BY <1>4 DEF HeldOK

\* What is held stays held when nothing is read and nothing dropped.
LEMMA HeldSame ==
  ASSUME NEW p \in Processes, HeldOK(p), pc[p] \in {"ask", "told", "wait", "store", "done"},
         UNCHANGED <<rows, ticker, source, mode, posts, served, raised>>
  PROVE  HeldOK(p)'
<1>1. \A j, c : Has(p, j, c)' <=> Has(p, j, c)
  BY DEF Has, IsStored, Row
<1>. QED BY <1>1 DEF HeldOK, Holds, PlacesFor, PagesRead

\* A process that does not fetch has nothing to lose.
LEMMA NotFetching ==
  ASSUME NEW p \in Processes, pc'[p] \in {"idle", "symbol", "token"}
  PROVE  ReadOK(p)' /\ HeldOK(p)'
BY DEF ReadOK, HeldOK

\* Nothing is read before the first request.
LEMMA FirstFetch ==
  ASSUME NEW p \in Processes, served'[p] = {}
  PROVE  HeldOK(p)' /\ \A at : PagesRead(p, at)' = {}
<1>1. \A at : PagesRead(p, at)' = {}
  BY DEF PagesRead
<1>. QED BY <1>1 DEF HeldOK, Holds

\* Every action leaves what its process has read complete, and what it wants held.
LEMMA SkipStep ==
  ASSUME TypeInv, StageInv, SkipInv, NEW p \in Processes, Acts(p)
  PROVE  ReadOK(p)' /\ HeldOK(p)'
<1>. USE DEF Goto, request, history, run
<1>0. /\ StageOK(p) /\ ReadOK(p) /\ HeldOK(p) /\ rows \subseteq rows'
      /\ Len(Fetchers) \in Nat /\ source[p] \in 1..Len(Fetchers)
  BY RowsKept, FetchersType DEF StageInv, SkipInv, TypeInv
<1>1. ASSUME NEW t \in Tickers, BeginPeriodic(p, t) PROVE ReadOK(p)' /\ HeldOK(p)'
  BY <1>1, NotFetching DEF BeginPeriodic, Begin, TypeInv
<1>2. ASSUME NEW child \in Stories, NEW symbols \in Symbols, HandleNews(p, child, symbols)
      PROVE ReadOK(p)' /\ HeldOK(p)'
  BY <1>2, NotFetching DEF HandleNews, TypeInv
<1>3. CASE TakeSymbol(p)
  <2>1. pc[p] = "symbol" /\ (pc' = pc \/ pc' = [pc EXCEPT ![p] = "token"])
    BY <1>3 DEF TakeSymbol, Begin
  <2>. QED BY <2>1, NotFetching DEF TypeInv
<1>4. CASE EndRun(p) \/ Crash(p) \/ EndStory(p)
  BY <1>4, NotFetching DEF EndRun, Crash, EndStory, TypeInv
<1>5. CASE AskToken(p)
  <2>1. /\ source'[p] = 1 /\ place'[p] = 1 /\ after'[p] = 0 /\ served'[p] = {}
        /\ pc'[p] = "ask" \/ (pc'[p] = "store" /\ mode'[p] = "none")
    BY <1>0, <1>5 DEF AskToken, FirstRequest, TypeInv, StageOK
  <2>2. HeldOK(p)' /\ \A at : PagesRead(p, at)' = {}
    BY <2>1, FirstFetch
  <2>3. CASE pc'[p] = "ask"
    <3>1. 1..0 = {} /\ 1 - 1 = 0
      OBVIOUS
    <3>2. FetchingOK(p)'
      BY <2>1, <2>2, <3>1 DEF FetchingOK
    <3>. QED BY <2>1, <2>2, <2>3, <3>1, <3>2 DEF ReadOK
  <2>4. CASE pc'[p] = "store" /\ mode'[p] = "none"
    <3>1. 1..0 = {} /\ 1 - 1 = 0 /\ Fetchers[1] = "reddit"
      BY FetchersType
    <3>2. ToSet(PlacesFor(p, source[p])') = {}
      BY <2>1, <2>4, <3>1, NoMembers DEF PlacesFor, PlacesOf
    <3>3. Fetched(p, source[p])'
      BY <2>1, <2>4, <3>1, NoMembers DEF Fetched, PlacesFor, PlacesOf
    <3>. QED BY <2>1, <2>2, <2>4, <3>1, <3>3 DEF ReadOK, Requesting
  <2>. QED BY <2>1, <2>2, <2>3, <2>4
<1>6. CASE Served(p)
  <2>1. RequestOK(p)
    BY <1>0, <1>6 DEF Served, StageOK, Requesting
  <2>2. /\ pc[p] = "ask"
        /\ served' = [served EXCEPT ![p] = served[p] \union {<<Place(p), after[p] + 1>>}]
        /\ UNCHANGED <<rows, setup, story, ticker, source, mode, gaveUp, raised>>
        /\ Turns(p) \/ Leaves(p)
    BY <1>6, <2>1, ServedSteps
  <2>12. PICK here : here = Place(p)
    OBVIOUS
  <2>13. PICK s : s = Source(p)
    OBVIOUS
  <2>14. PICK n : n = after[p] + 1
    OBVIOUS
  <2>3. /\ here = Place(p) /\ s = Source(p) /\ n = after[p] + 1
        /\ here \in AllPlaces /\ n \in 1..Len(Pages[here]) /\ after[p] \in Nat /\ n \in Nat
    BY <2>1, <2>12, <2>13, <2>14, RequestFacts DEF TypeInv
  <2>4. /\ PagesRead(p, here)' = PagesRead(p, here) \union {n}
        /\ \A at : at # here => PagesRead(p, at)' = PagesRead(p, at)
    BY <2>2, <2>3, PageAdded
  <2>5. Advances(p)
    BY <1>0, <2>1, <2>2, <2>3, <2>4 DEF Advances
  <2>6. FetchingOK(p) /\ PagesRead(p, here)' = 1..n
    <3>1. FetchingOK(p)
      BY <1>0, <2>2 DEF ReadOK, Requesting
    <3>2. PagesRead(p, here) = 1..after[p]
      BY <2>3, <3>1 DEF FetchingOK
    <3>3. (1..after[p]) \union {n} = 1..n
      BY <2>3
    <3>. QED BY <2>4, <3>1, <3>2, <3>3
  <2>7. /\ Gathered(p) \in Seq(Children) /\ ToSet(posts[p]) \subseteq ToSet(Gathered(p))
        /\ Wanted(s, here, n) \subseteq ToSet(Gathered(p))
    BY <2>1, <2>3, GatheredMembers
  <2>8. \A c \in ToSet(Gathered(p)) : Worth(c) => c \in ToSet(posts'[p])
    <3>1. CASE Turns(p)
      BY <3>1 DEF Turns, TypeInv
    <3>2. CASE Leaves(p)
      BY <3>2 DEF Leaves, Moves
    <3>. QED BY <2>2, <3>1, <3>2
  <2>9. HeldOK(p)'
    <3>1. Wanted(s, here, n) \subseteq ToSet(posts'[p])
      BY <2>7, <2>8 DEF Wanted
    <3>. QED BY <1>0, <2>3, <2>4, <2>5, <2>7, <2>8, <3>1, HeldMoves
  <2>10. CASE Turns(p)
    <3>1. /\ place'[p] = place[p] /\ after'[p] = n /\ pc'[p] = "ask"
      BY <2>2, <2>3, <2>10 DEF Turns, TypeInv
    <3>. QED BY <1>0, <2>3, <2>5, <2>6, <2>9, <3>1, TurnsRead
  <2>11. CASE Leaves(p)
    <3>1. n = LastPage(s, here, mode[p])
      <4>1. /\ ~(page[p] < PagesOf(s, mode[p]) /\ n < Len(Pages[here]))
            /\ page[p] <= PagesOf(s, mode[p]) /\ n = page[p]
        BY <2>1, <2>3, <2>11 DEF Leaves, RequestOK, TypeInv
      <4>2. PagesOf(s, mode[p]) \in 1..MaxPages /\ MaxPages \in Nat
        BY LimitsBounds, LimitsAssumption
      <4>3. Len(Pages[here]) \in Nat /\ n <= Len(Pages[here])
        BY <2>3, PageType
      <4>4. PICK of : of = PagesOf(s, mode[p])
        OBVIOUS
      <4>5. PICK len : len = Len(Pages[here])
        OBVIOUS
      <4>6. of \in Nat /\ len \in Nat /\ n \in Nat /\ n <= len /\ n <= of /\ ~(n < of /\ n < len)
        BY <2>3, <4>1, <4>2, <4>3, <4>4, <4>5
      <4>7. n = IF len < of THEN len ELSE of
        BY <4>6
      <4>. QED BY <4>4, <4>5, <4>7 DEF LastPage
    <3>2. Full(p, s, here)'
      <4>1. mode'[p] = mode[p] /\ n \in 0..Len(Pages[here])
        BY <2>2, <2>3
      <4>. QED BY <2>6, <3>1, <4>1 DEF Full, LastPage
    <3>3. Moves(p, Gathered(p))
      BY <2>11 DEF Leaves
    <3>. QED BY <1>0, <2>3, <2>5, <2>9, <3>2, <3>3, MovesRead
  <2>. QED BY <2>2, <2>10, <2>11
<1>7. CASE Retry(p) \/ Waited(p)
  <2>1. /\ pc'[p] \in {"ask", "told", "wait"} /\ pc[p] \in {"ask", "told", "wait"}
        /\ UNCHANGED <<rows, ticker, source, mode, place, after, posts, served, gaveUp, raised>>
    BY <1>7 DEF Retry, Waited, TypeInv
  <2>2. ReadOK(p)'
    BY <1>0, <2>1, ReadSame DEF Requesting
  <2>. QED BY <1>0, <2>1, <2>2, HeldSame
<1>8. CASE GiveUp(p)
  <2>1. RequestOK(p) /\ pc[p] = "ask"
    BY <1>0, <1>8 DEF GiveUp, StageOK, Requesting
  <2>2. PICK here : here = Place(p)
    OBVIOUS
  <2>3. PICK s : s = Source(p)
    OBVIOUS
  <2>4. /\ posts[p] \in Seq(Children) /\ here \in AllPlaces
        /\ after[p] \in Nat /\ after[p] + 1 \in 1..Len(Pages[here])
    BY <2>1, <2>2, RequestFacts DEF TypeInv
  <2>5. Moves(p, posts[p])
    BY <1>8, <2>4, PlaceLeft DEF GiveUp
  <2>6. /\ \A at : PagesRead(p, at)' = PagesRead(p, at)
        /\ gaveUp'[p] = gaveUp[p] \union {here}
        /\ UNCHANGED <<rows, ticker, source, mode, raised>>
    BY <1>8, <2>2 DEF GiveUp, PagesRead, TypeInv
  <2>7. Advances(p)
    BY <2>1, <2>6 DEF Advances
  <2>8. PagesRead(p, here)' = 1..after[p]
    BY <1>0, <2>1, <2>2, <2>6 DEF ReadOK, Requesting, FetchingOK
  <2>9. Full(p, s, here)'
    <3>1. after[p] \in 0..Len(Pages[here])
      BY <2>4, PageType
    <3>. QED BY <2>6, <2>8, <3>1 DEF Full
  <2>10. HeldOK(p)'
    <3>1. \A i \in PagesRead(p, here)' : i \in PagesRead(p, here) \/ Wanted(s, here, i) \subseteq ToSet(posts'[p])
      BY <2>6
    <3>2. \A c \in ToSet(posts[p]) : Worth(c) => c \in ToSet(posts'[p])
      BY <2>5 DEF Moves
    <3>. QED BY <1>0, <2>2, <2>3, <2>7, <3>1, <3>2, HeldMoves
  <2>. QED BY <1>0, <2>2, <2>3, <2>5, <2>7, <2>9, <2>10, MovesRead
<1>9. CASE Raise(p)
  <2>1. /\ pc[p] \in {"token", "ask"} /\ pc'[p] = "store" /\ raised'[p] = raised[p] \union {Source(p)}
        /\ UNCHANGED <<rows, ticker, source, mode, served, gaveUp>>
    BY <1>9 DEF Raise, TypeInv
  <2>2. /\ \A at : PagesRead(p, at)' = PagesRead(p, at)
        /\ \A j : PlacesFor(p, j)' = PlacesFor(p, j)
        /\ Source(p) = Fetchers[source[p]]
    BY <2>1 DEF PagesRead, PlacesFor, Source
  <2>3. /\ \A j \in 1..source[p] - 1 : Fetched(p, j)
        /\ \A j \in source[p] + 1..Len(Fetchers) : \A at \in ToSet(PlacesFor(p, j)) : PagesRead(p, at) = {}
        /\ \A j \in 1..Len(Fetchers) : Holds(p, j)
    <3>1. CASE pc[p] = "ask"
      BY <1>0, <3>1 DEF ReadOK, HeldOK
    <3>2. CASE pc[p] = "token"
      <4>1. source[p] = 1 /\ served[p] = {}
        BY <1>0, <3>2 DEF StageOK
      <4>2. \A at : PagesRead(p, at) = {}
        BY <4>1, NothingRead
      <4>3. \A j \in 1..1 - 1 : FALSE
        OBVIOUS
      <4>. QED BY <4>1, <4>2, <4>3 DEF Holds
    <3>. QED BY <2>1, <3>1, <3>2
  <2>4. ReadOK(p)'
    <3>1. \A j \in 1..source[p] - 1 : Fetched(p, j)'
      BY <2>1, <2>2, <2>3 DEF Fetched, Full, LastPage
    <3>2. Fetched(p, source[p])'
      BY <2>1, <2>2 DEF Fetched
    <3>. QED BY <2>1, <2>2, <2>3, <3>1, <3>2 DEF ReadOK, Requesting
  <2>5. HeldOK(p)'
    <3>1. ASSUME NEW j \in 1..Len(Fetchers), Fetchers[j] \notin raised'[p],
                 NEW at \in ToSet(PlacesFor(p, j)), NEW i \in PagesRead(p, at),
                 NEW c \in Wanted(Fetchers[j], at, i)
          PROVE  Has(p, j, c)'
      <4>1. j # source[p] /\ Fetchers[j] \notin raised[p]
        BY <2>1, <2>2, <3>1
      <4>2. Has(p, j, c)
        BY <2>3, <3>1, <4>1 DEF Holds
      <4>3. IsStored(Row(ticker[p], Fetchers[j], c))
        BY <4>1, <4>2 DEF Has
      <4>. QED BY <2>1, <4>3 DEF Has, IsStored, Row
    <3>. QED BY <2>2, <3>1 DEF HeldOK, Holds
  <2>. QED BY <2>4, <2>5
<1>10. CASE StorePost(p)
  <2>1. /\ pc[p] = "store" /\ posts[p] # <<>> /\ posts'[p] = Tail(posts[p])
        /\ UNCHANGED <<pc, ticker, source, mode, place, after, served, gaveUp, raised>>
    BY <1>10 DEF StorePost, TypeInv
  <2>2. ReadOK(p)'
    BY <1>0, <2>1, ReadSame
  <2>3. ToSet(posts[p]) = {Head(posts[p])} \union ToSet(Tail(posts[p]))
    BY <2>1, MembersHead DEF TypeInv
  <2>4. PICK row : row = Row(ticker[p], Source(p), Head(posts[p]))
    OBVIOUS
  <2>5. IsStored(row)'
    <3>1. rows' = IF IsStored(row) THEN rows ELSE rows \union {row}
      BY <1>10, <2>4 DEF StorePost
    <3>2. CASE IsStored(row)
      BY <1>0, <3>2, StoredForever
    <3>3. CASE ~IsStored(row)
      BY <3>1, <3>3 DEF IsStored
    <3>. QED BY <3>2, <3>3
  <2>6. ASSUME NEW j \in 1..Len(Fetchers), NEW c, Has(p, j, c) PROVE Has(p, j, c)'
    <3>1. CASE IsStored(Row(ticker[p], Fetchers[j], c))
      <4>1. IsStored(Row(ticker[p], Fetchers[j], c))'
        BY <1>0, <2>1, <3>1, StoredForever DEF Row
      <4>. QED BY <2>1, <4>1 DEF Has
    <3>2. CASE j = source[p] /\ c = Head(posts[p])
      <4>1. row = Row(ticker[p], Fetchers[j], c)
        BY <2>4, <3>2 DEF Source
      <4>2. IsStored(Row(ticker[p], Fetchers[j], c))'
        BY <2>1, <2>5, <4>1 DEF IsStored, Row
      <4>. QED BY <4>2 DEF Has
    <3>3. CASE j = source[p] /\ c \in ToSet(Tail(posts[p]))
      BY <2>1, <3>3 DEF Has
    <3>. QED BY <2>3, <2>6, <3>1, <3>2, <3>3 DEF Has
  <2>7. HeldOK(p)'
    BY <1>0, <2>1, <2>6 DEF HeldOK, Holds, PlacesFor, PagesRead
  <2>. QED BY <2>2, <2>7
<1>11. CASE NextSource(p)
  <2>1. /\ pc[p] = "store" /\ posts[p] = <<>> /\ posts'[p] = <<>>
        /\ place'[p] = 1 /\ after'[p] = 0
        /\ UNCHANGED <<rows, ticker, mode, served, gaveUp, raised>>
        /\ \/ source[p] = Len(Fetchers) /\ pc'[p] = "done" /\ source'[p] = source[p]
           \/ source[p] # Len(Fetchers) /\ pc'[p] = "ask" /\ source'[p] = source[p] + 1
    BY <1>11 DEF NextSource, FirstRequest, TypeInv
  <2>2. /\ \A at : PagesRead(p, at)' = PagesRead(p, at)
        /\ \A j : PlacesFor(p, j)' = PlacesFor(p, j)
    BY <2>1 DEF PagesRead, PlacesFor
  <2>3. \A j : Fetched(p, j) => Fetched(p, j)'
    BY <2>1, <2>2 DEF Fetched, Full, LastPage
  <2>4. \A j, c : Has(p, j, c) => Has(p, j, c)'
    BY <2>1, NoMembers DEF Has, IsStored, Row
  <2>5. HeldOK(p)'
    BY <1>0, <2>1, <2>2, <2>4 DEF HeldOK, Holds
  <2>6. /\ \A j \in 1..source[p] : Fetched(p, j)
        /\ \A j \in source[p] + 1..Len(Fetchers) : \A at \in ToSet(PlacesFor(p, j)) : PagesRead(p, at) = {}
    BY <1>0, <2>1 DEF ReadOK
  <2>7. CASE source[p] = Len(Fetchers) /\ pc'[p] = "done" /\ source'[p] = source[p]
    <3>1. \A j \in 1..source'[p] - 1 : j \in 1..source[p]
      BY <1>0, <2>7
    <3>2. source[p] \in 1..source[p]
      BY <1>0
    <3>. QED BY <2>2, <2>3, <2>5, <2>6, <2>7, <3>1, <3>2 DEF ReadOK, Requesting
  <2>8. CASE source[p] # Len(Fetchers) /\ pc'[p] = "ask" /\ source'[p] = source[p] + 1
    <3>1. /\ source[p] + 1 \in source[p] + 1..Len(Fetchers) /\ source[p] + 1 \in 1..Len(Fetchers)
          /\ source[p] + 1 > 1 /\ \A j \in 1..source'[p] - 1 : j \in 1..source[p]
          /\ \A j \in source'[p] + 1..Len(Fetchers) : j \in source[p] + 1..Len(Fetchers)
      BY <1>0, <2>8
    <3>2. PICK list : list = PlacesFor(p, source[p] + 1)
      OBVIOUS
    <3>3. list \in Seq(AllPlaces) /\ 1 \in DOMAIN list
      BY <3>1, <3>2, PlacesType DEF PlacesFor
    <3>4. Places(p)' = list /\ Place(p)' = list[1]
      BY <2>1, <2>8, <3>2 DEF Places, Place, Source, PlacesFor
    <3>5. \A k \in DOMAIN list : PagesRead(p, list[k])' = {}
      BY <2>2, <2>6, <3>1, <3>2 DEF ToSet
    <3>6. FetchingOK(p)'
      <4>1. PagesRead(p, Place(p))' = {}
        BY <3>3, <3>4, <3>5 DEF PagesRead
      <4>4. 1..0 = {} /\ 1..1 - 1 = {}
        OBVIOUS
      <4>2. \A k \in 1 + 1..Len(list) : k \in DOMAIN list
        BY <3>3
      <4>3. \A k \in 1 + 1..Len(Places(p)') : PagesRead(p, Places(p)[k])' = {}
        BY <3>4, <3>5, <4>2 DEF PagesRead
      <4>. QED BY <2>1, <4>1, <4>3, <4>4 DEF FetchingOK
    <3>. QED BY <2>2, <2>3, <2>5, <2>6, <2>8, <3>1, <3>6 DEF ReadOK, Requesting
  <2>. QED BY <2>1, <2>7, <2>8
<1>. QED
  BY <1>1, <1>2, <1>3, <1>4, <1>5, <1>6, <1>7, <1>8, <1>9, <1>10, <1>11 DEF Acts, Step

LEMMA SkipInit == Init => SkipInv
<1>. SUFFICES ASSUME Init PROVE SkipInv
  OBVIOUS
<1>1. \A p \in Processes : pc[p] = "idle"
  BY DEF Init
<1>. QED BY <1>1 DEF SkipInv, ReadOK, HeldOK

LEMMA SkipNext == TypeInv /\ StageInv /\ SkipInv /\ [Next]_vars => SkipInv'
<1>. SUFFICES ASSUME TypeInv, StageInv, SkipInv, [Next]_vars PROVE SkipInv'
  OBVIOUS
<1>1. ASSUME NEW p \in Processes, Acts(p), NEW q \in Processes PROVE ReadOK(q)' /\ HeldOK(q)'
  <2>1. CASE q = p
    BY <1>1, <2>1, SkipStep
  <2>2. CASE q # p
    <3>1. Local(q)' = Local(q)
      BY <1>1, <2>2, OthersLeft
    <3>2. rows \subseteq rows'
      BY <1>1, RowsKept
    <3>. QED BY <3>1, <3>2, SkipKept DEF SkipInv
  <2>. QED BY <2>1, <2>2
<1>2. ASSUME UNCHANGED vars, NEW q \in Processes PROVE ReadOK(q)' /\ HeldOK(q)'
  <2>1. Local(q)' = Local(q) /\ rows \subseteq rows'
    BY <1>2 DEF vars, run, request, history, Local
  <2>. QED BY <2>1, SkipKept DEF SkipInv
<1>3. UNCHANGED vars \/ \E p \in Processes : Acts(p)
  BY DEF Next, Acts
<1>4. \A q \in Processes : ReadOK(q)' /\ HeldOK(q)'
  BY <1>1, <1>2, <1>3
<1>. QED BY <1>4 DEF SkipInv

\* At the end of a run there is no fetcher left, and nothing left to store.
LEMMA NothingLeft == TypeInv /\ StageInv /\ SkipInv => NothingSkipped
<1>. SUFFICES ASSUME TypeInv, StageInv, SkipInv, NEW p \in Processes, pc[p] = "done",
                     NEW s \in ToSet(Fetchers) \ raised[p],
                     NEW at \in ToSet(PlacesOf(s, mode[p]))
              PROVE  LET n    == Cardinality(PagesRead(p, at))
                         last == IF Len(Pages[at]) < PagesOf(s, mode[p]) THEN Len(Pages[at])
                                 ELSE PagesOf(s, mode[p])
                     IN /\ PagesRead(p, at) = 1..n
                        /\ n = last \/ at \in gaveUp[p]
                        /\ \A i \in 1..n : \A c \in ToSet(Parsed(s, Pages[at][i])) :
                             Worth(c) => IsStored(Row(ticker[p], s, c))
  BY DEF NothingSkipped
<1>1. /\ source[p] = Len(Fetchers) /\ posts[p] = <<>> /\ ReadOK(p) /\ HeldOK(p)
  BY DEF StageInv, StageOK, SkipInv
<1>2. PICK j \in 1..Len(Fetchers) : s = Fetchers[j]
  BY FetchersType DEF ToSet
<1>3. at \in ToSet(PlacesFor(p, j)) /\ at \in AllPlaces
  BY <1>2, PlacesMembers DEF PlacesFor
<1>4. Full(p, s, at)
  <2>1. j \in 1..source[p] - 1 \/ j = source[p]
    BY <1>1, FetchersType
  <2>2. Fetched(p, j)
    BY <1>1, <2>1 DEF ReadOK
  <2>. QED BY <1>2, <1>3, <2>2 DEF Fetched
<1>5. PICK n \in 0..Len(Pages[at]) :
        PagesRead(p, at) = 1..n /\ (n = LastPage(s, at, mode[p]) \/ at \in gaveUp[p])
  BY <1>4 DEF Full
<1>6. n \in Nat /\ Len(Pages[at]) \in Nat /\ \A i \in 1..n : i \in 1..Len(Pages[at])
  BY <1>3, <1>5, PageType
<1>7. Cardinality(1..n) = n
  <2>1. n \in Nat
    BY <1>6
  <2>2. Cardinality(1..n) = n - 1 + 1
    BY <2>1, FS_Interval
  <2>3. n - 1 + 1 = n
    BY <2>1
  <2>. QED BY <2>2, <2>3, Zenon
<1>8. ASSUME NEW i \in 1..n, NEW c \in ToSet(Parsed(s, Pages[at][i])), Worth(c)
      PROVE  IsStored(Row(ticker[p], s, c))
  <2>1. c \in Wanted(s, at, i)
    BY <1>3, <1>6, <1>8, ParsedMembers
  <2>2. Holds(p, j)
    BY <1>1 DEF HeldOK
  <2>3. Has(p, j, c)
    BY <1>2, <1>3, <1>5, <2>1, <2>2 DEF Holds
  <2>. QED BY <1>1, <1>2, <2>3, NoMembers DEF Has
<1>. QED BY <1>5, <1>7, <1>8 DEF LastPage

\* A run that is through has read every place of every source whose fetcher did
\* not raise, page by page up to the last, the limit or a failure for good, and
\* every good post of those pages is stored: no cursor, retry or failed place
\* makes it pass over another page or another source's posts.
THEOREM NothingLost == Spec => []NothingSkipped
<1>1. Init => TypeInv /\ StageInv /\ SkipInv
  BY InitTypes, SkipInit
<1>2. TypeInv /\ StageInv /\ SkipInv /\ [Next]_vars => (TypeInv /\ StageInv /\ SkipInv)'
  BY TypesStep, SkipNext
<1>3. TypeInv /\ StageInv /\ SkipInv => NothingSkipped
  BY NothingLeft
<1>. QED BY <1>1, <1>2, <1>3, PTL DEF Spec

-----------------------------------------------------------------------------
(* The feeds.                                                               *)

\* What holds of a set whenever it holds of its proper subsets holds of every finite set.
LEMMA SetInduction ==
  ASSUME NEW S, IsFiniteSet(S), NEW G,
         \A T \in SUBSET S : (\A U \in SUBSET T : U # T => U \in G) => T \in G
  PROVE  \A T \in SUBSET S : T \in G
<1>. SUFFICES ASSUME NEW B \in SUBSET S, B \notin G PROVE FALSE
  OBVIOUS
<1>. DEFINE Bad == {T \in SUBSET S : T \notin G}
<1>1. \A T \in SUBSET S : IsFiniteSet(T)
  BY FS_Subset
<1>2. Bad \subseteq FiniteSubsetsOf(S) /\ Bad # {}
  BY <1>1 DEF FiniteSubsetsOf
<1>3. PICK T \in Bad : \A U \in Bad : ~(<<U, T>> \in StrictSubsetOrdering(S))
  <2>. HIDE DEF Bad
  <2>. QED BY <1>2, FS_StrictSubsetOrderingWellFounded, WFMin
<1>4. \A U \in SUBSET T : U # T => <<U, T>> \in StrictSubsetOrdering(S)
  BY DEF StrictSubsetOrdering
<1>5. T \in SUBSET S /\ T \notin G
  OBVIOUS
<1>6. \A U \in SUBSET T : U # T => U \in G
  <2>1. ASSUME NEW U \in SUBSET T, U # T PROVE U \notin Bad
    <3>1. <<U, T>> \in StrictSubsetOrdering(S)
      BY <1>4, <2>1
    <3>. HIDE DEF Bad
    <3>. QED BY <1>3, <3>1
  <2>. QED BY <1>5, <2>1
<1>. QED BY <1>5, <1>6

NewestFirst(s) == \A i, j \in DOMAIN s : i <= j => s[j].at <= s[i].at

\* As many members as positions, in a sequence that names none twice.
LEMMA CountPositions ==
  ASSUME NEW S, NEW s \in Seq(S), IsInjective(s), NEW P \in SUBSET (DOMAIN s)
  PROVE  LET M == {s[i] : i \in P}
         IN IsFiniteSet(P) /\ IsFiniteSet(M) /\ Cardinality(M) = Cardinality(P) /\ Cardinality(P) \in Nat
<1>. DEFINE M == {s[i] : i \in P}
            f == [i \in P |-> s[i]]
<1>1. IsFiniteSet(P) /\ Cardinality(P) \in Nat
  <2>1. DOMAIN s = 1..Len(s) /\ 1 \in Int /\ Len(s) \in Int
    OBVIOUS
  <2>2. IsFiniteSet(DOMAIN s)
    BY <2>1, FS_Interval
  <2>. QED BY <2>2, FS_Subset, FS_CardinalityType
<1>2. f \in Surjection(P, M) /\ f \in Injection(P, M)
  BY DEF Surjection, Injection, IsInjective
<1>. HIDE DEF f, M
<1>3. IsFiniteSet(M) /\ Cardinality(M) = Cardinality(P)
  BY <1>1, <1>2, FS_Surjection
<1>. QED BY <1>1, <1>3 DEF M

\* Some row of a finite table is the newest.
LEMMA NewestIn ==
  ASSUME NEW S, IsFiniteSet(S), S # {}, \A r \in S : r.at \in Nat
  PROVE  Newest(S) \in S /\ \A y \in S : y.at <= Newest(S).at
<1>. DEFINE G == {T \in SUBSET S : T = {} \/ \E x \in T : \A y \in T : y.at <= x.at}
<1>1. ASSUME NEW T \in SUBSET S, \A U \in SUBSET T : U # T => U \in G, T # {}
      PROVE  \E x \in T : \A y \in T : y.at <= x.at
  <2>1. PICK x \in T : TRUE
    BY <1>1
  <2>2. T \ {x} = {} \/ \E z \in T \ {x} : \A y \in T \ {x} : y.at <= z.at
    <3>1. T \ {x} \in SUBSET T /\ T \ {x} # T
      OBVIOUS
    <3>. QED BY <1>1, <3>1
  <2>. HIDE DEF G
  <2>3. CASE T \ {x} = {}
    <3>1. \A y \in T : y = x /\ x.at \in Nat
      BY <2>3
    <3>. QED BY <3>1
  <2>4. ASSUME NEW z \in T \ {x}, \A y \in T \ {x} : y.at <= z.at
        PROVE  \E w \in T : \A y \in T : y.at <= w.at
    <3>1. x.at \in Nat /\ z.at \in Nat /\ z \in T /\ \A y \in T : y.at \in Nat
      OBVIOUS
    <3>2. CASE x.at <= z.at
      BY <2>4, <3>1, <3>2
    <3>3. CASE z.at <= x.at
      <4>1. \A y \in T : y.at <= x.at
        BY <2>4, <3>1, <3>3
      <4>. QED BY <4>1
    <3>. QED BY <3>1, <3>2, <3>3
  <2>. QED BY <2>2, <2>3, <2>4
<1>2. \A T \in SUBSET S : (\A U \in SUBSET T : U # T => U \in G) => T \in G
  BY <1>1
<1>. HIDE DEF G
<1>3. S \in G
  BY <1>2, SetInduction
<1>4. \E x \in S : \A y \in S : y.at <= x.at
  BY <1>3 DEF G
<1>. QED BY <1>4, Zenon DEF Newest

\* One row before a list of others.
LEMMA PutFirst ==
  ASSUME NEW S, NEW x \in S, NEW s \in Seq(S), IsInjective(s), NewestFirst(s), x \notin ToSet(s),
         \A y \in S : y.at \in Nat, \A y \in ToSet(s) : y.at <= x.at
  PROVE  LET t == <<x>> \o s
         IN t \in Seq(S) /\ IsInjective(t) /\ NewestFirst(t) /\ ToSet(t) = {x} \union ToSet(s)
<1>. DEFINE t == <<x>> \o s
<1>1. /\ t \in Seq(S) /\ DOMAIN t = 1..(Len(s) + 1) /\ DOMAIN s = 1..Len(s) /\ Len(s) \in Nat
      /\ t[1] = x /\ \A i \in 1..Len(s) : t[i + 1] = s[i] /\ s[i] \in S
  OBVIOUS
<1>. HIDE DEF t
<1>2. \A i \in DOMAIN t : i = 1 \/ (i - 1 \in 1..Len(s) /\ t[i] = s[i - 1] /\ t[i] \in ToSet(s))
  <2>. SUFFICES ASSUME NEW i \in DOMAIN t, i # 1
                PROVE  i - 1 \in 1..Len(s) /\ t[i] = s[i - 1] /\ t[i] \in ToSet(s)
    OBVIOUS
  <2>1. i - 1 \in 1..Len(s) /\ (i - 1) + 1 = i
    BY <1>1
  <2>2. t[i] = s[i - 1]
    BY <1>1, <2>1
  <2>. QED BY <1>1, <2>1, <2>2 DEF ToSet
<1>3. IsInjective(t)
  <2>. SUFFICES ASSUME NEW i \in DOMAIN t, NEW j \in DOMAIN t, t[i] = t[j] PROVE i = j
    BY DEF IsInjective
  <2>1. CASE i = 1 \/ j = 1
    BY <1>1, <1>2, <2>1
  <2>2. CASE i # 1 /\ j # 1
    <3>1. i - 1 \in DOMAIN s /\ j - 1 \in DOMAIN s /\ s[i - 1] = s[j - 1]
      BY <1>1, <1>2, <2>2
    <3>2. i - 1 = j - 1 /\ i \in Int /\ j \in Int
      BY <1>1, <3>1 DEF IsInjective
    <3>. QED BY <3>2
  <2>. QED BY <2>1, <2>2
<1>4. NewestFirst(t)
  <2>. SUFFICES ASSUME NEW i \in DOMAIN t, NEW j \in DOMAIN t, i <= j PROVE t[j].at <= t[i].at
    BY DEF NewestFirst
  <2>1. x.at <= x.at
    <3>1. x.at \in Nat
      OBVIOUS
    <3>. QED BY <3>1
  <2>2. CASE i = 1
    BY <1>1, <1>2, <2>1, <2>2
  <2>3. CASE i # 1
    <3>1. i \in Int /\ j \in Int /\ j # 1
      BY <1>1, <2>3
    <3>2. i - 1 \in DOMAIN s /\ j - 1 \in DOMAIN s /\ t[i] = s[i - 1] /\ t[j] = s[j - 1]
      BY <1>1, <1>2, <2>3, <3>1
    <3>3. i - 1 <= j - 1
      BY <3>1
    <3>. QED BY <3>2, <3>3 DEF NewestFirst
  <2>. QED BY <2>2, <2>3
<1>5. ToSet(t) = {x} \union ToSet(s)
  <2>1. \A y \in ToSet(t) : y \in {x} \union ToSet(s)
    <3>. SUFFICES ASSUME NEW i \in DOMAIN t PROVE t[i] \in {x} \union ToSet(s)
      BY DEF ToSet
    <3>. QED BY <1>1, <1>2
  <2>2. x \in ToSet(t)
    <3>1. 1 \in DOMAIN t
      BY <1>1
    <3>. QED BY <1>1, <3>1 DEF ToSet
  <2>3. ToSet(s) \subseteq ToSet(t)
    <3>. SUFFICES ASSUME NEW i \in DOMAIN s PROVE s[i] \in ToSet(t)
      BY DEF ToSet
    <3>1. i + 1 \in DOMAIN t /\ t[i + 1] = s[i]
      BY <1>1
    <3>. QED BY <3>1 DEF ToSet
  <2>. QED BY <2>1, <2>2, <2>3
<1>. QED BY <1>1, <1>3, <1>4, <1>5 DEF t

\* Listed names every row of a finite table once, the newest first.
Lists(s, of) == s \in Seq(of) /\ IsInjective(s) /\ NewestFirst(s) /\ ToSet(s) = of

LEMMA ListedOrder ==
  ASSUME NEW of, IsFiniteSet(of), \A r \in of : r.at \in Nat
  PROVE  Lists(Listed(of), of)
<1>. DEFINE F(f) == [S \in SUBSET of |->
                       IF S = {} THEN <<>> ELSE <<Newest(S)>> \o f[S \ {Newest(S)}]]
            L == CHOOSE f : f = F(f)
            pick == [S \in SUBSET of |-> Newest(S)]
            g == [p \in of \X Seq(of) |-> <<p[1]>> \o p[2]]
<1>1. \A S \in SUBSET of : S # {} => Newest(S) \in S /\ \A y \in S : y.at <= Newest(S).at
  <2>. SUFFICES ASSUME NEW S \in SUBSET of, S # {}
                PROVE  Newest(S) \in S /\ \A y \in S : y.at <= Newest(S).at
    OBVIOUS
  <2>1. IsFiniteSet(S) /\ \A r \in S : r.at \in Nat
    BY FS_Subset
  <2>. QED BY <2>1, NewestIn
<1>2. \A S \in SUBSET of : pick[S] = Newest(S)
  OBVIOUS
<1>3. \A d \in of, x \in Seq(of) : g[<<d, x>>] = <<d>> \o x
  OBVIOUS
<1>4. \A d \in of, x \in Seq(of) : <<d>> \o x \in Seq(of)
  OBVIOUS
<1>. HIDE DEF pick, g
<1>5. <<>> \in Seq(of) /\ Picks(pick, of) /\ Maps(g, of, Seq(of))
  <2>1. <<>> \in Seq(of)
    OBVIOUS
  <2>2. Picks(pick, of)
    BY <1>1, <1>2 DEF Picks
  <2>3. Maps(g, of, Seq(of))
    BY <1>3, <1>4, Zenon DEF Maps
  <2>. QED BY <2>1, <2>2, <2>3
<1>6. PICK f \in [SUBSET of -> Seq(of)] : Folds(f, of, pick, <<>>, g)
  BY <1>5, RecursionExists
<1>7. ASSUME NEW S \in SUBSET of
      PROVE  f[S] = IF S = {} THEN <<>> ELSE <<Newest(S)>> \o f[S \ {Newest(S)}]
  <2>1. CASE S = {}
    BY <1>6, <2>1 DEF Folds
  <2>2. CASE S # {}
    <3>1. Newest(S) \in of /\ f[S \ {Newest(S)}] \in Seq(of)
      BY <1>1, <1>6, <2>2
    <3>2. f[S] = g[<<Newest(S), f[S \ {Newest(S)}]>>]
      BY <1>2, <1>6, <2>2 DEF Folds
    <3>. QED BY <1>3, <2>2, <3>1, <3>2
  <2>. QED BY <2>1, <2>2
<1>8. f = F(f)
  <2>1. F(f) = [S \in SUBSET of |-> f[S]]
    BY <1>7
  <2>. HIDE DEF F
  <2>. QED BY <1>6, <2>1
<1>9. L = F(L)
  <2>. HIDE DEF F
  <2>. QED BY <1>8
<1>10. Listed(of) = L[of]
  BY DEF Listed
<1>11. \A S \in SUBSET of : F(L)[S] = IF S = {} THEN <<>> ELSE <<Newest(S)>> \o L[S \ {Newest(S)}]
  <2>. HIDE DEF L
  <2>. QED OBVIOUS
<1>. HIDE DEF F
<1>12. \A S \in SUBSET of : L[S] = IF S = {} THEN <<>> ELSE <<Newest(S)>> \o L[S \ {Newest(S)}]
  <2>. HIDE DEF L
  <2>. QED BY <1>9, <1>11
<1>. HIDE DEF L
<1>. DEFINE G == {S \in SUBSET of : Lists(L[S], S)}
<1>13. ASSUME NEW S \in SUBSET of, \A U \in SUBSET S : U # S => U \in G
       PROVE  Lists(L[S], S)
  <2>1. CASE S = {}
    <3>1. L[S] = <<>>
      BY <1>12, <2>1
    <3>2. <<>> \in Seq(S) /\ \A i \in DOMAIN <<>> : FALSE
      OBVIOUS
    <3>3. IsInjective(<<>>) /\ NewestFirst(<<>>)
      BY <3>2 DEF IsInjective, NewestFirst
    <3>. QED BY <2>1, <3>1, <3>2, <3>3, NoMembers DEF Lists
  <2>2. CASE S # {}
    <3>. DEFINE x == Newest(S)
                s == L[S \ {x}]
    <3>1. x \in S /\ (\A y \in S : y.at <= x.at /\ y.at \in Nat) /\ L[S] = <<x>> \o s
      BY <1>1, <1>12, <2>2
    <3>2. Lists(s, S \ {x})
      <4>1. S \ {x} \in G
        BY <1>13, <3>1
      <4>. QED BY <4>1
    <3>. HIDE DEF x, s
    <3>3. s \in Seq(S) /\ IsInjective(s) /\ NewestFirst(s) /\ ToSet(s) = S \ {x}
      BY <3>2 DEF Lists
    <3>4. x \notin ToSet(s) /\ \A y \in ToSet(s) : y.at <= x.at
      BY <3>1, <3>3
    <3>5. LET t == <<x>> \o s
          IN t \in Seq(S) /\ IsInjective(t) /\ NewestFirst(t) /\ ToSet(t) = {x} \union ToSet(s)
      BY <3>1, <3>3, <3>4, PutFirst
    <3>. QED BY <3>1, <3>3, <3>5 DEF Lists
  <2>. QED BY <2>1, <2>2
<1>14. \A S \in SUBSET of : (\A U \in SUBSET S : U # S => U \in G) => S \in G
  BY <1>13
<1>. HIDE DEF G
<1>15. of \in G
  BY <1>14, SetInduction
<1>. QED BY <1>10, <1>15 DEF G

\* The candidates are the newest rows, as many as the limit allows, in their order.
LEMMA CandidatesOrder ==
  ASSUME NEW of, IsFiniteSet(of), \A r \in of : r.at \in Nat, NEW c, c = Candidates(of)
  PROVE  /\ c \in Seq(of) /\ IsInjective(c) /\ NewestFirst(c)
         /\ \A x \in of \ ToSet(c), i \in DOMAIN c : x.at <= c[i].at
<1>. DEFINE s == Listed(of)
            n == IF Len(s) < GLOBAL_CANDIDATE_LIMIT THEN Len(s) ELSE GLOBAL_CANDIDATE_LIMIT
<1>1. s \in Seq(of) /\ IsInjective(s) /\ NewestFirst(s) /\ ToSet(s) = of
  BY ListedOrder DEF Lists
<1>2. Len(s) \in Nat /\ n \in Nat /\ n <= Len(s)
  BY <1>1, LimitsAssumption
<1>3. c = SubSeq(s, 1, n)
  BY DEF Candidates
<1>. HIDE DEF s, n
<1>4. c \in Seq(of) /\ DOMAIN c = 1..n /\ DOMAIN s = 1..Len(s) /\ \A i \in 1..n : c[i] = s[i]
  BY <1>1, <1>2, <1>3
<1>5. \A i \in 1..n : i \in DOMAIN s /\ i \in Int
  BY <1>2, <1>4
<1>6. IsInjective(c) /\ NewestFirst(c)
  BY <1>1, <1>4, <1>5 DEF IsInjective, NewestFirst
<1>7. ASSUME NEW x \in of \ ToSet(c), NEW i \in DOMAIN c PROVE x.at <= c[i].at
  <2>1. PICK j \in DOMAIN s : s[j] = x
    BY <1>1 DEF ToSet
  <2>2. j \notin 1..n
    BY <1>4, <1>7, <2>1 DEF ToSet
  <2>3. i <= j
    BY <1>2, <1>4, <2>2
  <2>. QED BY <1>1, <1>4, <1>5, <2>1, <2>3 DEF NewestFirst
<1>. QED BY <1>4, <1>6, <1>7

\* One turn of the loop of LimitedFeed.
Choose(chosen, row) ==
  IF Eligible(row) /\ Len(chosen) < FEED_LIMIT THEN Append(chosen, row) ELSE chosen

\* LimitedFeed is a function on positions that takes the candidates up to each of them.
LEMMA LimitedUnfolds ==
  ASSUME NEW of, NEW s \in Seq(of), s = Candidates(of)
  PROVE  \E q : /\ q[0] = <<>> /\ LimitedFeed(of) = q[Len(s)]
                /\ \A i \in 1..Len(s) : q[i] = Choose(q[i - 1], s[i])
<1>. DEFINE n == Len(s)
            F(f) == [X \in SUBSET (1..n) |->
                       IF X = {} THEN <<>> ELSE Choose(f[X \ {Max(X)}], s[Max(X)])]
            T == CHOOSE f : f = F(f)
            g == [x \in (1..n) \X Seq(of) |-> Choose(x[2], s[x[1]])]
<1>1. n \in Nat /\ DOMAIN s = 1..n /\ (\A i \in 1..n : s[i] \in of) /\ <<>> \in Seq(of)
  OBVIOUS
<1>2. \A i \in 1..n, k \in Seq(of) : Choose(k, s[i]) \in Seq(of)
  BY <1>1 DEF Choose
<1>3. \A i \in 1..n, k \in Seq(of) : g[<<i, k>>] = Choose(k, s[i])
  OBVIOUS
<1>4. LimitedFeed(of) = T[1..n]
  BY <1>1 DEF LimitedFeed, Choose, FoldLeft, MapThenFoldSet
<1>. HIDE DEF g
<1>5. Maps(g, 1..n, Seq(of))
  BY <1>2, <1>3 DEF Maps
<1>. HIDE DEF n
<1>6. PICK f \in [SUBSET (1..n) -> Seq(of)] : FoldsUp(f, n, <<>>, g)
  BY <1>1, <1>5, FoldExists
<1>7. ASSUME NEW X \in SUBSET (1..n)
      PROVE  f[X] = IF X = {} THEN <<>> ELSE Choose(f[X \ {Max(X)}], s[Max(X)])
  <2>1. CASE X # {}
    <3>1. Max(X) \in 1..n /\ X \ {Max(X)} \in SUBSET (1..n)
      BY <1>1, <2>1, MaxOf
    <3>2. f[X \ {Max(X)}] \in Seq(of)
      BY <1>6, <3>1
    <3>. QED BY <1>3, <1>6, <2>1, <3>1, <3>2 DEF FoldsUp
  <2>. QED BY <1>6, <2>1 DEF FoldsUp
<1>8. f = F(f)
  <2>1. F(f) = [X \in SUBSET (1..n) |-> f[X]]
    BY <1>7
  <2>. HIDE DEF F
  <2>. QED BY <1>6, <2>1
<1>9. T = F(T)
  <2>. HIDE DEF F
  <2>. QED BY <1>8
<1>10. \A X \in SUBSET (1..n) :
         F(T)[X] = IF X = {} THEN <<>> ELSE Choose(T[X \ {Max(X)}], s[Max(X)])
  <2>. HIDE DEF T
  <2>. QED OBVIOUS
<1>. HIDE DEF F
<1>11. \A X \in SUBSET (1..n) :
         T[X] = IF X = {} THEN <<>> ELSE Choose(T[X \ {Max(X)}], s[Max(X)])
  <2>. HIDE DEF T
  <2>. QED BY <1>9, <1>10
<1>. HIDE DEF T
<1>. DEFINE q == [i \in 0..n |-> T[1..i]]
<1>12. q[0] = <<>> /\ q[n] = T[1..n]
  <2>1. 1..0 = {} /\ 0 \in 0..n /\ n \in 0..n
    BY <1>1
  <2>. QED BY <1>11, <2>1
<1>13. ASSUME NEW i \in 1..n PROVE q[i] = Choose(q[i - 1], s[i])
  <2>1. /\ 1..i \in SUBSET (1..n) /\ 1..i # {} /\ Max(1..i) = i
        /\ (1..i) \ {i} = 1..(i - 1) /\ i - 1 \in 0..n /\ i \in 0..n
    <3>1. i \in 0..n
      BY <1>1
    <3>. QED BY <1>1, <3>1, LastPosition
  <2>2. T[1..i] = Choose(T[1..(i - 1)], s[i])
    BY <1>11, <2>1
  <2>. QED BY <2>1, <2>2
<1>. HIDE DEF q
<1>. QED BY <1>4, <1>12, <1>13 DEF n

\* One more row at the end of a list.
LEMMA PutLast ==
  ASSUME NEW S, NEW s \in Seq(S), IsInjective(s), NEW x \in S, x \notin ToSet(s)
  PROVE  LET t == Append(s, x)
         IN t \in Seq(S) /\ IsInjective(t) /\ ToSet(t) = ToSet(s) \union {x}
<1>. DEFINE t == Append(s, x)
<1>1. /\ t \in Seq(S) /\ DOMAIN t = 1..(Len(s) + 1) /\ DOMAIN s = 1..Len(s) /\ Len(s) \in Nat
      /\ t[Len(s) + 1] = x /\ \A i \in 1..Len(s) : t[i] = s[i]
  OBVIOUS
<1>2. ToSet(t) = ToSet(s) \union {x}
  BY MembersAppend
<1>. HIDE DEF t
<1>3. \A i \in DOMAIN t : i = Len(s) + 1 \/ (i \in DOMAIN s /\ t[i] = s[i] /\ t[i] # x)
  BY <1>1 DEF ToSet
<1>4. IsInjective(t)
  BY <1>1, <1>3 DEF IsInjective
<1>. QED BY <1>1, <1>2, <1>4 DEF t

\* A feed with n turns: each takes the candidate it is about, or leaves the feed as it is.
Turned(q, s) ==
  /\ q[0] = <<>>
  /\ \A i \in 1..Len(s) : q[i] = q[i - 1] \/ q[i] = Append(q[i - 1], s[i])

FirstOf(s, k) == {s[j] : j \in 1..k}

\* What is on the feed after a turn was among the candidates so far, and what
\* is taken or left at a turn stays taken or left.
LEMMA FeedGrows ==
  ASSUME NEW S, NEW s \in Seq(S), IsInjective(s), NEW q, Turned(q, s)
  PROVE  \A k \in 0..Len(s) :
           /\ q[k] \in Seq(S) /\ IsInjective(q[k])
           /\ ToSet(q[k]) = FirstOf(s, k) \cap ToSet(q[Len(s)])
<1>. DEFINE n == Len(s)
            Have == {k \in Nat : k <= n => q[k] \in Seq(S) /\ IsInjective(q[k]) /\ ToSet(q[k]) \subseteq FirstOf(s, k)}
<1>1. n \in Nat /\ DOMAIN s = 1..n /\ (\A i \in 1..n : s[i] \in S)
  OBVIOUS
<1>2. 0 \in Have
  <2>1. <<>> \in Seq(S) /\ \A i \in DOMAIN <<>> : FALSE
    OBVIOUS
  <2>2. IsInjective(<<>>)
    BY <2>1 DEF IsInjective
  <2>. QED BY <2>1, <2>2, NoMembers DEF Turned
<1>3. \A k \in 1..n : FirstOf(s, k) = FirstOf(s, k - 1) \union {s[k]} /\ s[k] \notin FirstOf(s, k - 1)
  <2>. SUFFICES ASSUME NEW k \in 1..n
                PROVE  FirstOf(s, k) = FirstOf(s, k - 1) \union {s[k]} /\ s[k] \notin FirstOf(s, k - 1)
    OBVIOUS
  <2>1. 1..k = (1..(k - 1)) \union {k} /\ \A j \in 1..(k - 1) : j \in DOMAIN s /\ j # k
    BY <1>1
  <2>2. k \in DOMAIN s
    BY <1>1
  <2>. QED BY <2>1, <2>2 DEF FirstOf, IsInjective
<1>4. ASSUME NEW k \in Nat, k \in Have, k + 1 <= n
      PROVE  q[k + 1] \in Seq(S) /\ IsInjective(q[k + 1]) /\ ToSet(q[k + 1]) \subseteq FirstOf(s, k + 1)
  <2>1. q[k] \in Seq(S) /\ IsInjective(q[k]) /\ ToSet(q[k]) \subseteq FirstOf(s, k)
    BY <1>1, <1>4
  <2>2. k + 1 \in 1..n /\ (k + 1) - 1 = k
    BY <1>1, <1>4
  <2>3. FirstOf(s, k + 1) = FirstOf(s, k) \union {s[k + 1]} /\ s[k + 1] \notin FirstOf(s, k) /\ s[k + 1] \in S
    BY <1>1, <1>3, <2>2
  <2>4. q[k + 1] = q[k] \/ q[k + 1] = Append(q[k], s[k + 1])
    BY <2>2 DEF Turned
  <2>5. CASE q[k + 1] = q[k]
    BY <2>1, <2>3, <2>5
  <2>6. CASE q[k + 1] = Append(q[k], s[k + 1])
    <3>1. s[k + 1] \notin ToSet(q[k])
      BY <2>1, <2>3
    <3>2. LET t == Append(q[k], s[k + 1])
          IN t \in Seq(S) /\ IsInjective(t) /\ ToSet(t) = ToSet(q[k]) \union {s[k + 1]}
      BY <2>1, <2>3, <3>1, PutLast
    <3>. QED BY <2>1, <2>3, <2>6, <3>2
  <2>. QED BY <2>4, <2>5, <2>6
<1>5. \A k \in Nat : k \in Have => k + 1 \in Have
  BY <1>4
<1>. HIDE DEF Have
<1>6. \A k \in Nat : k \in Have
  BY <1>2, <1>5, Induction
<1>7. \A k \in 0..n : q[k] \in Seq(S) /\ IsInjective(q[k]) /\ ToSet(q[k]) \subseteq FirstOf(s, k)
  BY <1>1, <1>6 DEF Have
<1>8. \A k \in 1..n : /\ ToSet(q[k - 1]) \subseteq ToSet(q[k])
                      /\ ToSet(q[k]) \subseteq ToSet(q[k - 1]) \union {s[k]}
  <2>. SUFFICES ASSUME NEW k \in 1..n
                PROVE  /\ ToSet(q[k - 1]) \subseteq ToSet(q[k])
                       /\ ToSet(q[k]) \subseteq ToSet(q[k - 1]) \union {s[k]}
    OBVIOUS
  <2>1. q[k - 1] \in Seq(S) /\ s[k] \in S
    <3>1. k - 1 \in 0..n
      BY <1>1
    <3>. QED BY <1>1, <1>7, <3>1
  <2>2. q[k] = q[k - 1] \/ q[k] = Append(q[k - 1], s[k])
    BY DEF Turned
  <2>3. ToSet(Append(q[k - 1], s[k])) = ToSet(q[k - 1]) \union {s[k]}
    BY <2>1, MembersAppend
  <2>4. ToSet(q[k]) = ToSet(q[k - 1]) \/ ToSet(q[k]) = ToSet(q[k - 1]) \union {s[k]}
    BY <2>2, <2>3
  <2>. QED BY <2>4
\* What comes later is not among the candidates so far.
<1>. DEFINE Kin == {m \in Nat : \A k \in 0..n : k + m <= n =>
                      ToSet(q[k]) = FirstOf(s, k) \cap ToSet(q[k + m])}
<1>9. 0 \in Kin
  <2>1. \A k \in 0..n : k + 0 = k
    BY <1>1
  <2>. QED BY <1>7, <2>1
<1>10. ASSUME NEW m \in Nat, m \in Kin, NEW k \in 0..n, k + (m + 1) <= n
       PROVE  ToSet(q[k]) = FirstOf(s, k) \cap ToSet(q[k + (m + 1)])
  <2>. DEFINE l == k + (m + 1)
  <2>1. l \in 1..n /\ k + m = l - 1 /\ k + m <= n
    BY <1>1, <1>10
  <2>2. ToSet(q[k]) = FirstOf(s, k) \cap ToSet(q[l - 1])
    BY <1>10, <2>1
  <2>3. s[l] \notin FirstOf(s, k)
    <3>1. \A j \in 1..k : j \in DOMAIN s /\ j # l
      BY <1>1, <1>10
    <3>2. l \in DOMAIN s
      BY <1>1, <2>1
    <3>. QED BY <3>1, <3>2 DEF FirstOf, IsInjective
  <2>. HIDE DEF l
  <2>4. ToSet(q[l - 1]) \subseteq ToSet(q[l]) /\ ToSet(q[l]) \subseteq ToSet(q[l - 1]) \union {s[l]}
    BY <1>8, <2>1
  <2>5. ToSet(q[k]) = FirstOf(s, k) \cap ToSet(q[l])
    BY <2>2, <2>3, <2>4
  <2>. QED BY <2>5 DEF l
<1>11. \A m \in Nat : m \in Kin => m + 1 \in Kin
  <2>. SUFFICES ASSUME NEW m \in Nat, m \in Kin PROVE m + 1 \in Kin
    OBVIOUS
  <2>1. \A k \in 0..n : k + (m + 1) <= n => ToSet(q[k]) = FirstOf(s, k) \cap ToSet(q[k + (m + 1)])
    BY <1>10
  <2>. HIDE DEF n
  <2>. QED BY <2>1
<1>. HIDE DEF Kin
<1>12. \A m \in Nat : m \in Kin
  BY <1>9, <1>11, Induction
<1>13. ASSUME NEW k \in 0..n
       PROVE  ToSet(q[k]) = FirstOf(s, k) \cap ToSet(q[n])
  <2>1. n - k \in Nat /\ k + (n - k) = n /\ k + (n - k) <= n
    BY <1>1
  <2>2. n - k \in Kin
    BY <1>12, <2>1
  <2>. QED BY <2>1, <2>2 DEF Kin
<1>. QED BY <1>7, <1>13

\* As many members as its length, in a sequence that names none twice.
LEMMA CountMembers ==
  ASSUME NEW S, NEW s \in Seq(S), IsInjective(s)
  PROVE  IsFiniteSet(ToSet(s)) /\ Cardinality(ToSet(s)) = Len(s) /\ Cardinality(DOMAIN s) = Len(s)
<1>. DEFINE P == DOMAIN s
<1>1. DOMAIN s = 1..Len(s) /\ Len(s) \in Nat /\ DOMAIN s \in SUBSET DOMAIN s
  OBVIOUS
<1>2. PICK m \in Nat : m = Len(s)
  BY <1>1, Zenon
<1>3. Cardinality(1..m) = IF 1 > m THEN 0 ELSE m - 1 + 1
  BY FS_Interval, 1 \in Int, m \in Int
<1>4. Cardinality(DOMAIN s) = Len(s)
  BY <1>1, <1>2, <1>3
<1>5. ToSet(s) = {s[i] : i \in P} /\ P \in SUBSET DOMAIN s
  BY DEF ToSet
<1>. HIDE DEF P
<1>6. IsFiniteSet({s[i] : i \in P}) /\ Cardinality({s[i] : i \in P}) = Cardinality(P)
  BY <1>5, CountPositions
<1>. QED BY <1>4, <1>5, <1>6 DEF P

\* The feed for one ticker is its newest eligible rows.
LEMMA LimitedBalanced ==
  ASSUME NEW of, IsFiniteSet(of), \A r \in of : r.at \in Nat,
         NEW x \in ToSet(Candidates(of)), Eligible(x)
  PROVE  IF x \in ToSet(LimitedFeed(of))
         THEN Cardinality({y \in of : Eligible(y) /\ y.at > x.at}) < FEED_LIMIT
         ELSE Cardinality({y \in of \ {x} : Eligible(y) /\ y.at >= x.at}) >= FEED_LIMIT
<1>. DEFINE c == Candidates(of)
            n == Len(c)
<1>1. /\ c \in Seq(of) /\ IsInjective(c) /\ NewestFirst(c)
      /\ \A y \in of \ ToSet(c), i \in DOMAIN c : y.at <= c[i].at
  BY CandidatesOrder
<1>2. PICK q : /\ q[0] = <<>> /\ LimitedFeed(of) = q[n]
               /\ \A i \in 1..n : q[i] = Choose(q[i - 1], c[i])
  BY <1>1, LimitedUnfolds
<1>3. x \in ToSet(c) /\ FEED_LIMIT \in Nat
  BY LimitsAssumption
<1>. HIDE DEF c
<1>4. Turned(q, c)
  BY <1>2 DEF Turned, Choose
<1>5. n \in Nat /\ DOMAIN c = 1..n /\ \A i \in 1..n : c[i] \in of
  BY <1>1
<1>6. \A k \in 0..n : /\ q[k] \in Seq(of) /\ IsInjective(q[k])
                      /\ ToSet(q[k]) = FirstOf(c, k) \cap ToSet(q[n])
  BY <1>1, <1>4, FeedGrows
<1>. HIDE DEF n
<1>. DEFINE Best(k) == /\ \A y \in ToSet(q[k]) : Eligible(y)
                       /\ Len(q[k]) < FEED_LIMIT => \A y \in FirstOf(c, k) : Eligible(y) => y \in ToSet(q[k])
            Have == {k \in Nat : k <= n => Best(k)}
<1>7. 0 \in Have
  <2>1. FirstOf(c, 0) = {} /\ ToSet(q[0]) = {}
    BY <1>2, NoMembers DEF FirstOf
  <2>. QED BY <2>1
<1>8. ASSUME NEW k \in Nat, k \in Have, k + 1 <= n PROVE Best(k + 1)
  <2>1. k + 1 \in 1..n /\ (k + 1) - 1 = k /\ k \in 0..n /\ k <= n
    BY <1>5, <1>8
  <2>2. Best(k) /\ q[k] \in Seq(of) /\ Len(q[k]) \in Nat /\ c[k + 1] \in of
    BY <1>5, <1>6, <1>8, <2>1
  <2>3. q[k + 1] = Choose(q[k], c[k + 1])
    BY <1>2, <2>1
  <2>4. FirstOf(c, k + 1) = FirstOf(c, k) \union {c[k + 1]}
    <3>1. 1..(k + 1) = (1..k) \union {k + 1}
      OBVIOUS
    <3>. QED BY <3>1 DEF FirstOf
  <2>5. /\ ToSet(Append(q[k], c[k + 1])) = ToSet(q[k]) \union {c[k + 1]}
        /\ Len(Append(q[k], c[k + 1])) = Len(q[k]) + 1
    BY <2>2, MembersAppend
  <2>6. CASE Eligible(c[k + 1]) /\ Len(q[k]) < FEED_LIMIT
    <3>1. q[k + 1] = Append(q[k], c[k + 1])
      BY <2>3, <2>6 DEF Choose
    <3>2. \A y \in FirstOf(c, k) : Eligible(y) => y \in ToSet(q[k])
      BY <2>2, <2>6
    <3>. QED BY <2>2, <2>4, <2>5, <2>6, <3>1, <3>2
  <2>7. CASE ~(Eligible(c[k + 1]) /\ Len(q[k]) < FEED_LIMIT)
    <3>1. q[k + 1] = q[k]
      BY <2>3, <2>7 DEF Choose
    <3>. QED BY <2>2, <2>4, <2>7, <3>1
  <2>. QED BY <2>6, <2>7
<1>9. \A k \in Nat : k \in Have => k + 1 \in Have
  BY <1>8
<1>. HIDE DEF Have
<1>10. \A k \in Nat : k \in Have
  BY <1>7, <1>9, Induction
<1>11. \A k \in 0..n : Best(k)
  BY <1>5, <1>10 DEF Have
<1>. HIDE DEF Best
<1>12. PICK i \in 1..n : c[i] = x
  BY <1>3, <1>5 DEF ToSet
<1>. DEFINE before == q[i - 1]
<1>13. i - 1 \in 0..n /\ i \in 0..n /\ i \in Int /\ x \in of
  BY <1>5, <1>12
<1>14. /\ before \in Seq(of) /\ IsFiniteSet(ToSet(before)) /\ Cardinality(ToSet(before)) = Len(before)
       /\ Len(before) \in Nat
  <2>1. before \in Seq(of) /\ IsInjective(before)
    BY <1>6, <1>13
  <2>. HIDE DEF before
  <2>. QED BY <2>1, CountMembers
<1>15. x \notin FirstOf(c, i - 1) /\ x \in FirstOf(c, i)
  <2>1. \A j \in 1..(i - 1) : j \in DOMAIN c /\ j # i
    BY <1>5, <1>13
  <2>2. i \in DOMAIN c /\ i \in 1..i
    BY <1>5, <1>12
  <2>. QED BY <1>1, <1>12, <2>1, <2>2 DEF FirstOf, IsInjective
<1>16. ToSet(before) \subseteq FirstOf(c, i - 1)
  BY <1>6, <1>13
<1>17. q[i] = Choose(before, x)
  BY <1>2, <1>12
<1>18. x \in ToSet(LimitedFeed(of)) <=> x \in ToSet(q[i])
  BY <1>2, <1>6, <1>13, <1>15
<1>19. Best(i - 1)
  BY <1>11, <1>13
<1>20. FirstOf(c, i - 1) \subseteq of /\ \A y \in FirstOf(c, i - 1) : y.at >= x.at
  <2>. SUFFICES ASSUME NEW j \in 1..(i - 1) PROVE c[j] \in of /\ c[j].at >= x.at
    BY DEF FirstOf
  <2>1. j \in DOMAIN c /\ i \in DOMAIN c /\ j <= i /\ c[j] \in of
    BY <1>5, <1>12, <1>13
  <2>2. x.at <= c[j].at
    BY <1>1, <1>12, <2>1 DEF NewestFirst
  <2>3. x.at \in Nat /\ c[j].at \in Nat
    BY <1>13, <2>1
  <2>. QED BY <2>1, <2>2, <2>3
<1>21. \A y \in of : y.at > x.at => y \in FirstOf(c, i - 1)
  <2>. SUFFICES ASSUME NEW y \in of, y.at > x.at PROVE y \in FirstOf(c, i - 1)
    OBVIOUS
  <2>1. y.at \in Nat /\ x.at \in Nat /\ i \in DOMAIN c
    BY <1>5, <1>12, <1>13
  <2>2. y \in ToSet(c)
    BY <1>1, <1>12, <2>1
  <2>3. PICK j \in DOMAIN c : c[j] = y
    BY <2>2 DEF ToSet
  <2>4. ~(i <= j)
    BY <1>1, <1>12, <2>1, <2>3 DEF NewestFirst
  <2>5. j \in 1..(i - 1)
    BY <1>5, <1>12, <2>4
  <2>. QED BY <2>3, <2>5 DEF FirstOf
<1>. HIDE DEF before
<1>22. CASE Len(before) < FEED_LIMIT
  <2>1. x \in ToSet(LimitedFeed(of))
    <3>1. q[i] = Append(before, x)
      BY <1>17, <1>22 DEF Choose
    <3>2. ToSet(Append(before, x)) = ToSet(before) \union {x}
      BY <1>13, <1>14, MembersAppend
    <3>. QED BY <1>18, <3>1, <3>2
  <2>2. {y \in of : Eligible(y) /\ y.at > x.at} \subseteq ToSet(before)
    BY <1>19, <1>21, <1>22 DEF Best, before
  <2>3. Cardinality({y \in of : Eligible(y) /\ y.at > x.at}) <= Cardinality(ToSet(before))
    BY <1>14, <2>2, FS_Subset
  <2>4. Cardinality({y \in of : Eligible(y) /\ y.at > x.at}) \in Nat
    BY <1>14, <2>2, FS_Subset, FS_CardinalityType
  <2>5. Cardinality({y \in of : Eligible(y) /\ y.at > x.at}) < FEED_LIMIT
    BY <1>3, <1>14, <1>22, <2>3, <2>4
  <2>. QED BY <2>1, <2>5
<1>23. CASE ~(Len(before) < FEED_LIMIT)
  <2>. DEFINE Others == {y \in of \ {x} : Eligible(y) /\ y.at >= x.at}
  <2>1. x \notin ToSet(LimitedFeed(of))
    <3>1. q[i] = before
      BY <1>17, <1>23 DEF Choose
    <3>. QED BY <1>15, <1>16, <1>18, <3>1
  <2>2. ToSet(before) \subseteq Others
    BY <1>15, <1>16, <1>19, <1>20 DEF Best, before
  <2>3. IsFiniteSet(Others) /\ Cardinality(Others) \in Nat
    BY FS_Subset, FS_CardinalityType
  <2>. HIDE DEF Others
  <2>4. Cardinality(ToSet(before)) <= Cardinality(Others)
    BY <2>2, <2>3, FS_Subset
  <2>5. Cardinality(Others) >= FEED_LIMIT
    BY <1>3, <1>14, <1>23, <2>3, <2>4
  <2>. QED BY <2>1, <2>5 DEF Others
<1>. QED BY <1>22, <1>23

\* DiversifiedFeed is a function on positions that considers the candidates up to each of them.
Considered(of) == [chosen : Seq(of), seen : Seq(of)]
Unseen == [chosen |-> <<>>, seen |-> <<>>]

LEMMA DiversifiedUnfolds ==
  ASSUME NEW of, NEW s \in Seq(of), s = Candidates(of)
  PROVE  \E d : /\ d[0] = Unseen /\ DiversifiedFeed(of) = d[Len(s)].chosen
                /\ \A i \in 0..Len(s) : d[i] \in Considered(of)
                /\ \A i \in 1..Len(s) : d[i] = Consider(d[i - 1], s[i])
<1>. DEFINE n == Len(s)
            F(f) == [X \in SUBSET (1..n) |->
                       IF X = {} THEN Unseen ELSE Consider(f[X \ {Max(X)}], s[Max(X)])]
            T == CHOOSE f : f = F(f)
            g == [x \in (1..n) \X Considered(of) |-> Consider(x[2], s[x[1]])]
<1>1. n \in Nat /\ DOMAIN s = 1..n /\ (\A i \in 1..n : s[i] \in of) /\ Unseen \in Considered(of)
  BY DEF Unseen, Considered
<1>2. \A i \in 1..n, k \in Considered(of) : Consider(k, s[i]) \in Considered(of)
  BY <1>1 DEF Consider, Considered
<1>3. \A i \in 1..n, k \in Considered(of) : g[<<i, k>>] = Consider(k, s[i])
  OBVIOUS
<1>4. DiversifiedFeed(of) = T[1..n].chosen
  BY <1>1 DEF DiversifiedFeed, FoldLeft, MapThenFoldSet, Unseen
<1>. HIDE DEF g
<1>5. Maps(g, 1..n, Considered(of))
  BY <1>2, <1>3 DEF Maps
<1>. HIDE DEF n
<1>6. PICK f \in [SUBSET (1..n) -> Considered(of)] : FoldsUp(f, n, Unseen, g)
  BY <1>1, <1>5, FoldExists
<1>7. ASSUME NEW X \in SUBSET (1..n)
      PROVE  f[X] = IF X = {} THEN Unseen ELSE Consider(f[X \ {Max(X)}], s[Max(X)])
  <2>1. CASE X # {}
    <3>1. Max(X) \in 1..n /\ X \ {Max(X)} \in SUBSET (1..n)
      BY <1>1, <2>1, MaxOf
    <3>2. f[X \ {Max(X)}] \in Considered(of)
      BY <1>6, <3>1
    <3>. QED BY <1>3, <1>6, <2>1, <3>1, <3>2 DEF FoldsUp
  <2>. QED BY <1>6, <2>1 DEF FoldsUp
<1>8. f = F(f)
  <2>1. F(f) = [X \in SUBSET (1..n) |-> f[X]]
    BY <1>7
  <2>. HIDE DEF F
  <2>. QED BY <1>6, <2>1
<1>9. T = F(T)
  <2>. HIDE DEF F
  <2>. QED BY <1>8
<1>10. \A X \in SUBSET (1..n) :
         F(T)[X] = IF X = {} THEN Unseen ELSE Consider(T[X \ {Max(X)}], s[Max(X)])
  <2>. HIDE DEF T
  <2>. QED OBVIOUS
<1>. HIDE DEF F
<1>11. \A X \in SUBSET (1..n) :
         T[X] = IF X = {} THEN Unseen ELSE Consider(T[X \ {Max(X)}], s[Max(X)])
  <2>. HIDE DEF T
  <2>. QED BY <1>9, <1>10
<1>. HIDE DEF T
<1>. DEFINE d == [i \in 0..n |-> T[1..i]]
<1>12. d[0] = Unseen /\ d[n] = T[1..n]
  <2>1. 1..0 = {} /\ 0 \in 0..n /\ n \in 0..n
    BY <1>1
  <2>. QED BY <1>11, <2>1
<1>13. ASSUME NEW i \in 1..n PROVE d[i] = Consider(d[i - 1], s[i])
  <2>1. /\ 1..i \in SUBSET (1..n) /\ 1..i # {} /\ Max(1..i) = i
        /\ (1..i) \ {i} = 1..(i - 1) /\ i - 1 \in 0..n /\ i \in 0..n
    <3>1. i \in 0..n
      BY <1>1
    <3>. QED BY <1>1, <3>1, LastPosition
  <2>2. T[1..i] = Consider(T[1..(i - 1)], s[i])
    BY <1>11, <2>1
  <2>. QED BY <2>1, <2>2
<1>. HIDE DEF d
<1>. DEFINE Have == {i \in Nat : i <= n => d[i] \in Considered(of)}
<1>14. 0 \in Have
  BY <1>1, <1>12
<1>15. \A i \in Nat : i \in Have => i + 1 \in Have
  <2>. SUFFICES ASSUME NEW i \in Nat, i \in Have, i + 1 <= n PROVE d[i + 1] \in Considered(of)
    OBVIOUS
  <2>1. i + 1 \in 1..n /\ (i + 1) - 1 = i /\ d[i] \in Considered(of)
    BY <1>1
  <2>. QED BY <1>2, <1>13, <2>1
<1>. HIDE DEF Have
<1>16. \A i \in Nat : i \in Have
  BY <1>14, <1>15, Induction
<1>17. \A i \in 0..n : d[i] \in Considered(of)
  BY <1>1, <1>16 DEF Have
<1>. QED BY <1>4, <1>12, <1>13, <1>17 DEF n

\* What is on the feed after k turns, counted by its places on the feed and by
\* those among the candidates.
ShareOf(c, k, feed, G) == {j \in 1..k : c[j] \in feed /\ c[j] \in G}
ShareOn(list, G) == {j \in DOMAIN list : list[j] \in G}

LEMMA SameShare ==
  ASSUME NEW S, NEW c \in Seq(S), IsInjective(c), NEW before \in Seq(S), IsInjective(before),
         NEW k \in 0..Len(c), NEW feed, ToSet(before) = FirstOf(c, k) \cap feed, NEW G
  PROVE  Cardinality(ShareOf(c, k, feed, G)) = Cardinality(ShareOn(before, G))
<1>. DEFINE P == ShareOf(c, k, feed, G)
            Q == ShareOn(before, G)
<1>1. P \in SUBSET DOMAIN c /\ Q \in SUBSET DOMAIN before
  BY DEF ShareOf, ShareOn
<1>2. {c[j] : j \in P} = {before[j] : j \in Q}
  <2>1. \A j \in P : c[j] \in ToSet(before) /\ c[j] \in G
    BY DEF FirstOf, ShareOf
  <2>2. \A j \in Q : before[j] \in FirstOf(c, k) /\ before[j] \in feed /\ before[j] \in G
    <3>1. \A j \in Q : before[j] \in ToSet(before) /\ before[j] \in G
      BY DEF ToSet, ShareOn
    <3>. QED BY <3>1
  <2>3. \A j \in P : \E l \in Q : before[l] = c[j]
    BY <2>1 DEF ToSet, ShareOn
  <2>4. \A j \in Q : \E l \in P : c[l] = before[j]
    BY <2>2 DEF FirstOf, ShareOf
  <2>. HIDE DEF P, Q
  <2>. QED BY <2>3, <2>4
<1>. HIDE DEF P, Q
<1>3. Cardinality({c[j] : j \in P}) = Cardinality(P)
  BY <1>1, CountPositions
<1>4. Cardinality({before[j] : j \in Q}) = Cardinality(Q)
  BY <1>1, CountPositions
<1>5. Cardinality(P) = Cardinality(Q)
  BY <1>2, <1>3, <1>4
<1>. QED BY <1>5 DEF P, Q

\* The global feed takes a candidate exactly if it is eligible and the newer ones
\* leave room for it.
LEMMA GlobalBalanced ==
  ASSUME NEW of, IsFiniteSet(of), \A r \in of : r.at \in Nat
  PROVE  LET c    == Candidates(of)
             feed == ToSet(DiversifiedFeed(of))
         IN /\ feed \subseteq ToSet(c)
            /\ \A i \in DOMAIN c :
                 c[i] \in feed
                 <=> /\ Eligible(c[i])
                     /\ ~(\/ Cardinality({j \in 1..(i - 1) : c[j] \in feed /\ c[j].source = c[i].source})
                               >= GLOBAL_MAX_PER_SOURCE
                          \/ Cardinality({j \in 1..(i - 1) : c[j] \in feed /\ c[j].ticker = c[i].ticker})
                               >= GLOBAL_MAX_PER_TICKER
                          \/ Cardinality({j \in 1..(i - 1) : c[j] \in feed /\ TRUE}) >= FEED_LIMIT)
<1>. DEFINE c == Candidates(of)
            feed == ToSet(DiversifiedFeed(of))
            n == Len(c)
<1>1. c \in Seq(of) /\ IsInjective(c)
  BY CandidatesOrder
<1>2. n \in Nat /\ DOMAIN c = 1..n /\ \A i \in 1..n : c[i] \in of
  BY <1>1
<1>3. PICK d : /\ d[0] = Unseen /\ DiversifiedFeed(of) = d[n].chosen
               /\ \A i \in 0..n : d[i] \in Considered(of)
               /\ \A i \in 1..n : d[i] = Consider(d[i - 1], c[i])
  BY <1>1, DiversifiedUnfolds
<1>. HIDE DEF c
<1>0. PICK q : q = [i \in 0..n |-> d[i].chosen]
  OBVIOUS
<1>. DEFINE Room(k, x) == /\ Eligible(x) /\ Len(q[k]) < FEED_LIMIT /\ Fits(q[k], x)
<1>4. q[0] = <<>> /\ feed = ToSet(q[n]) /\ \A i \in 0..n : q[i] = d[i].chosen /\ q[i] \in Seq(of)
  BY <1>0, <1>2, <1>3 DEF Unseen, Considered
<1>5. \A i \in 1..n : q[i] = IF Room(i - 1, c[i]) THEN Append(q[i - 1], c[i]) ELSE q[i - 1]
  <2>. SUFFICES ASSUME NEW i \in 1..n
                PROVE  q[i] = IF Room(i - 1, c[i]) THEN Append(q[i - 1], c[i]) ELSE q[i - 1]
    OBVIOUS
  <2>1. i - 1 \in 0..n /\ i \in 0..n /\ q[i - 1] = d[i - 1].chosen /\ q[i] = d[i].chosen
    BY <1>2, <1>4
  <2>2. d[i] = Consider(d[i - 1], c[i]) /\ Len(q[i - 1]) \in Nat /\ FEED_LIMIT \in Nat
    BY <1>3, <1>4, <2>1, LimitsAssumption
  <2>. QED BY <2>1, <2>2 DEF Consider, Counted
<1>. HIDE DEF n, feed
<1>6. Turned(q, c)
  BY <1>4, <1>5 DEF Turned, n
<1>7. \A k \in 0..n : IsInjective(q[k]) /\ ToSet(q[k]) = FirstOf(c, k) \cap feed
  <2>1. \A k \in 0..Len(c) : /\ q[k] \in Seq(of) /\ IsInjective(q[k])
                              /\ ToSet(q[k]) = FirstOf(c, k) \cap ToSet(q[Len(c)])
    BY <1>1, <1>6, FeedGrows
  <2>2. n = Len(c)
    BY DEF n
  <2>. QED BY <1>4, <2>1, <2>2
<1>8. feed \subseteq ToSet(c)
  <2>1. n \in 0..n
    BY <1>2
  <2>2. feed \subseteq FirstOf(c, n)
    BY <1>4, <1>7, <2>1
  <2>. QED BY <1>2, <2>2 DEF FirstOf, ToSet
<1>9. ASSUME NEW i \in DOMAIN c
      PROVE  c[i] \in feed <=> Room(i - 1, c[i])
  <2>1. i - 1 \in 0..n /\ i \in 0..n /\ i \in 1..n /\ c[i] \in of
    BY <1>2
  <2>2. c[i] \notin FirstOf(c, i - 1) /\ c[i] \in FirstOf(c, i)
    <3>1. \A j \in 1..(i - 1) : j \in DOMAIN c /\ j # i
      BY <1>2
    <3>2. i \in 1..i
      BY <1>2
    <3>. QED BY <1>1, <3>1, <3>2 DEF FirstOf, IsInjective
  <2>3. c[i] \in feed <=> c[i] \in ToSet(q[i])
    BY <1>7, <2>1, <2>2
  <2>4. c[i] \notin ToSet(q[i - 1])
    BY <1>7, <2>1, <2>2
  <2>5. ToSet(Append(q[i - 1], c[i])) = ToSet(q[i - 1]) \union {c[i]}
    BY <1>4, <2>1, MembersAppend
  <2>. HIDE DEF Room
  <2>. QED BY <1>5, <2>1, <2>3, <2>4, <2>5
<1>10. ASSUME NEW i \in DOMAIN c, NEW G
       PROVE  Cardinality(ShareOf(c, i - 1, feed, G)) = Cardinality(ShareOn(q[i - 1], G))
  <2>. DEFINE k == i - 1
              before == q[k]
  <2>1. k \in 0..n /\ k \in 0..Len(c)
    BY <1>2 DEF n
  <2>2. before \in Seq(of) /\ IsInjective(before) /\ ToSet(before) = FirstOf(c, k) \cap feed
    BY <1>4, <1>7, <2>1
  <2>. HIDE DEF k, before
  <2>3. Cardinality(ShareOf(c, k, feed, G)) = Cardinality(ShareOn(before, G))
    BY <1>1, <2>1, <2>2, SameShare
  <2>. QED BY <2>3 DEF k, before
<1>11. ASSUME NEW i \in DOMAIN c
       PROVE  /\ Cardinality({j \in 1..(i - 1) : c[j] \in feed /\ c[j].source = c[i].source})
                   = Cardinality({j \in DOMAIN q[i - 1] : q[i - 1][j].source = c[i].source})
              /\ Cardinality({j \in 1..(i - 1) : c[j] \in feed /\ c[j].ticker = c[i].ticker})
                   = Cardinality({j \in DOMAIN q[i - 1] : q[i - 1][j].ticker = c[i].ticker})
              /\ Cardinality({j \in 1..(i - 1) : c[j] \in feed /\ TRUE}) = Len(q[i - 1])
  <2>. DEFINE before == q[i - 1]
              FromSource == {x \in of : x.source = c[i].source}
              OfTicker == {x \in of : x.ticker = c[i].ticker}
  <2>1. i - 1 \in 0..n /\ \A j \in 1..(i - 1) : c[j] \in of
    BY <1>2
  <2>2. before \in Seq(of) /\ IsInjective(before) /\ \A j \in DOMAIN before : before[j] \in of
    BY <1>4, <1>7, <2>1
  <2>3. /\ ShareOf(c, i - 1, feed, FromSource)
             = {j \in 1..(i - 1) : c[j] \in feed /\ c[j].source = c[i].source}
        /\ ShareOf(c, i - 1, feed, OfTicker)
             = {j \in 1..(i - 1) : c[j] \in feed /\ c[j].ticker = c[i].ticker}
        /\ ShareOf(c, i - 1, feed, of) = {j \in 1..(i - 1) : c[j] \in feed /\ TRUE}
    BY <2>1 DEF ShareOf
  <2>. HIDE DEF before
  <2>4. /\ ShareOn(before, FromSource) = {j \in DOMAIN before : before[j].source = c[i].source}
        /\ ShareOn(before, OfTicker) = {j \in DOMAIN before : before[j].ticker = c[i].ticker}
        /\ ShareOn(before, of) = DOMAIN before
    BY <2>2 DEF ShareOn
  <2>5. Cardinality(DOMAIN before) = Len(before)
    BY <2>2, CountMembers
  <2>6. \A G : Cardinality(ShareOf(c, i - 1, feed, G)) = Cardinality(ShareOn(before, G))
    BY <1>10 DEF before
  <2>7. /\ Cardinality(ShareOf(c, i - 1, feed, FromSource)) = Cardinality(ShareOn(before, FromSource))
        /\ Cardinality(ShareOf(c, i - 1, feed, OfTicker)) = Cardinality(ShareOn(before, OfTicker))
        /\ Cardinality(ShareOf(c, i - 1, feed, of)) = Cardinality(ShareOn(before, of))
    BY <2>6, Zenon
  <2>. HIDE DEF FromSource, OfTicker
  <2>. QED BY <2>3, <2>4, <2>5, <2>7 DEF before
<1>12. ASSUME NEW i \in DOMAIN c
       PROVE  /\ Cardinality({j \in DOMAIN q[i - 1] : q[i - 1][j].source = c[i].source}) \in Nat
              /\ Cardinality({j \in DOMAIN q[i - 1] : q[i - 1][j].ticker = c[i].ticker}) \in Nat
              /\ Len(q[i - 1]) \in Nat
  <2>1. i - 1 \in 0..n
    BY <1>2
  <2>2. q[i - 1] \in Seq(of) /\ IsInjective(q[i - 1])
    BY <1>4, <1>7, <2>1
  <2>3. \A P \in SUBSET DOMAIN q[i - 1] : Cardinality(P) \in Nat
    BY <2>2, CountPositions
  <2>. QED BY <2>2, <2>3
<1>13. ASSUME NEW i \in DOMAIN c
       PROVE  Fits(q[i - 1], c[i])
              <=> /\ Cardinality({j \in DOMAIN q[i - 1] : q[i - 1][j].source = c[i].source})
                       < GLOBAL_MAX_PER_SOURCE
                  /\ Cardinality({j \in DOMAIN q[i - 1] : q[i - 1][j].ticker = c[i].ticker})
                       < GLOBAL_MAX_PER_TICKER
  BY DEF Fits, HowMany
<1>14. {FEED_LIMIT, GLOBAL_MAX_PER_SOURCE, GLOBAL_MAX_PER_TICKER} \subseteq Nat
  BY LimitsAssumption
<1>15. ASSUME NEW i \in DOMAIN c
       PROVE  c[i] \in feed
              <=> /\ Eligible(c[i])
                  /\ ~(\/ Cardinality({j \in 1..(i - 1) : c[j] \in feed /\ c[j].source = c[i].source})
                            >= GLOBAL_MAX_PER_SOURCE
                       \/ Cardinality({j \in 1..(i - 1) : c[j] \in feed /\ c[j].ticker = c[i].ticker})
                            >= GLOBAL_MAX_PER_TICKER
                       \/ Cardinality({j \in 1..(i - 1) : c[j] \in feed /\ TRUE}) >= FEED_LIMIT)
  <2>. DEFINE a == Cardinality({j \in DOMAIN q[i - 1] : q[i - 1][j].source = c[i].source})
              b == Cardinality({j \in DOMAIN q[i - 1] : q[i - 1][j].ticker = c[i].ticker})
              e == Len(q[i - 1])
  <2>1. a \in Nat /\ b \in Nat /\ e \in Nat
    BY <1>12
  <2>2. Room(i - 1, c[i]) <=> Eligible(c[i]) /\ e < FEED_LIMIT /\ a < GLOBAL_MAX_PER_SOURCE /\ b < GLOBAL_MAX_PER_TICKER
    BY <1>13
  <2>3. c[i] \in feed <=> Eligible(c[i]) /\ e < FEED_LIMIT /\ a < GLOBAL_MAX_PER_SOURCE /\ b < GLOBAL_MAX_PER_TICKER
    BY <1>9, <2>2
  <2>4. /\ Cardinality({j \in 1..(i - 1) : c[j] \in feed /\ c[j].source = c[i].source}) = a
        /\ Cardinality({j \in 1..(i - 1) : c[j] \in feed /\ c[j].ticker = c[i].ticker}) = b
        /\ Cardinality({j \in 1..(i - 1) : c[j] \in feed /\ TRUE}) = e
    BY <1>11
  <2>. HIDE DEF a, b, e
  <2>. QED BY <1>14, <2>1, <2>3, <2>4
<1>. QED BY <1>8, <1>15 DEF c, feed

\* SocialPost is finite, and every row of it has a time.
RowsInv == IsFiniteSet(rows) /\ \A r \in rows : r.at \in Nat

LEMMA RowsInit == Init => RowsInv
BY StampsAssumption DEF Init, RowsInv

LEMMA RowAdded ==
  ASSUME RowsInv, NEW t, NEW s, NEW child \in Children \union Stories,
         rows' = rows \/ rows' = rows \union {Row(t, s, child)}
  PROVE  RowsInv'
<1>1. Row(t, s, child).at \in Nat
  BY StampsAssumption DEF Row
<1>2. IsFiniteSet(rows \union {Row(t, s, child)})
  BY FS_AddElement DEF RowsInv
<1>. QED BY <1>1, <1>2 DEF RowsInv

LEMMA RowsNext == TypeInv /\ StageInv /\ RowsInv /\ [Next]_vars => RowsInv'
<1>. SUFFICES ASSUME TypeInv, StageInv, RowsInv, [Next]_vars PROVE RowsInv'
  OBVIOUS
<1>1. ASSUME rows' = rows PROVE RowsInv'
  BY <1>1 DEF RowsInv
<1>2. ASSUME NEW p \in Processes, Acts(p) PROVE RowsInv'
  <2>1. CASE TakeSymbol(p)
    <3>1. story[p] \in StoryRecords
      BY <2>1 DEF TakeSymbol, StageInv, StageOK
    <3>2. story[p].child \in Stories
      BY <3>1 DEF StoryRecords
    <3>3. rows' = rows \/ rows' = rows \union {Row(Head(story[p].left), "news_alpaca", story[p].child)}
      BY <2>1 DEF TakeSymbol
    <3>. QED BY <3>2, <3>3, RowAdded
  <2>2. CASE StorePost(p)
    <3>1. Head(posts[p]) \in Children
      BY <2>2 DEF StorePost, TypeInv
    <3>2. rows' = rows \/ rows' = rows \union {Row(ticker[p], Source(p), Head(posts[p]))}
      BY <2>2 DEF StorePost
    <3>. QED BY <3>1, <3>2, RowAdded
  <2>3. ASSUME ~TakeSymbol(p), ~StorePost(p) PROVE rows' = rows
    BY <1>2, <2>3 DEF Acts, Step, BeginPeriodic, HandleNews, EndRun, Crash, EndStory, AskToken, Served,
                      Retry, Waited, GiveUp, Raise, NextSource
  <2>. QED BY <1>1, <2>1, <2>2, <2>3
<1>3. ASSUME UNCHANGED vars PROVE rows' = rows
  BY <1>3 DEF vars
<1>. QED BY <1>1, <1>2, <1>3 DEF Next, Acts

LEMMA RowsBalanced == RowsInv => FeedsBalanced
<1>. SUFFICES ASSUME RowsInv PROVE FeedsBalanced
  OBVIOUS
<1>1. /\ ToSet(DiversifiedFeed(rows)) \subseteq ToSet(Candidates(rows))
      /\ LET c    == Candidates(rows)
             feed == ToSet(DiversifiedFeed(rows))
         IN \A i \in DOMAIN c :
              c[i] \in feed
              <=> /\ Eligible(c[i])
                  /\ ~(\/ Cardinality({j \in 1..(i - 1) : c[j] \in feed /\ c[j].source = c[i].source})
                            >= GLOBAL_MAX_PER_SOURCE
                       \/ Cardinality({j \in 1..(i - 1) : c[j] \in feed /\ c[j].ticker = c[i].ticker})
                            >= GLOBAL_MAX_PER_TICKER
                       \/ Cardinality({j \in 1..(i - 1) : c[j] \in feed /\ TRUE}) >= FEED_LIMIT)
  BY GlobalBalanced DEF RowsInv
<1>2. ASSUME NEW t \in Tickers
      PROVE  LET own == {x \in rows : x.ticker = t}
             IN \A x \in {y \in ToSet(Candidates(own)) : Eligible(y)} :
                  IF x \in ToSet(LimitedFeed(own))
                  THEN Cardinality({y \in own : Eligible(y) /\ y.at > x.at}) < FEED_LIMIT
                  ELSE Cardinality({y \in own \ {x} : Eligible(y) /\ y.at >= x.at}) >= FEED_LIMIT
  <2>. DEFINE own == {x \in rows : x.ticker = t}
  <2>1. IsFiniteSet(own) /\ \A r \in own : r.at \in Nat
    BY FS_Subset DEF RowsInv
  <2>. HIDE DEF own
  <2>2. ASSUME NEW x \in ToSet(Candidates(own)), Eligible(x)
        PROVE  IF x \in ToSet(LimitedFeed(own))
               THEN Cardinality({y \in own : Eligible(y) /\ y.at > x.at}) < FEED_LIMIT
               ELSE Cardinality({y \in own \ {x} : Eligible(y) /\ y.at >= x.at}) >= FEED_LIMIT
    BY <2>1, <2>2, LimitedBalanced
  <2>3. \A x \in {y \in ToSet(Candidates(own)) : Eligible(y)} :
          IF x \in ToSet(LimitedFeed(own))
          THEN Cardinality({y \in own : Eligible(y) /\ y.at > x.at}) < FEED_LIMIT
          ELSE Cardinality({y \in own \ {x} : Eligible(y) /\ y.at >= x.at}) >= FEED_LIMIT
    BY <2>2
  <2>. QED BY <2>3 DEF own
<1>. QED BY <1>1, <1>2, Zenon DEF FeedsBalanced

\* Whatever posts have been stored, the global feed keeps its shares and fills
\* them with the newest, and a feed for one ticker is its newest eligible posts.
THEOREM FeedsFair == Spec => []FeedsBalanced
<1>1. Init => TypeInv /\ StageInv /\ RowsInv
  BY InitTypes, RowsInit
<1>2. TypeInv /\ StageInv /\ RowsInv /\ [Next]_vars => (TypeInv /\ StageInv /\ RowsInv)'
  BY TypesStep, RowsNext
<1>3. RowsInv => FeedsBalanced
  BY RowsBalanced
<1>. QED BY <1>1, <1>2, <1>3, PTL DEF Spec

================================================================================
